--------------------------- MODULE SessionProofs ---------------------------
(***************************************************************************)
(* Proofs about Session: the order in which a connection is torn down, and *)
(* that livekit tells a Disconnect of its own from a room that is lost.    *)
(***************************************************************************)
EXTENDS Session, TLAPS

Flags ==
  /\ cancelled \in BOOLEAN /\ endAsked \in BOOLEAN /\ root \in BOOLEAN
  /\ conn \in BOOLEAN /\ pcm \in BOOLEAN /\ lock \in BOOLEAN
  /\ closing \in BOOLEAN /\ missed \in BOOLEAN

Values ==
  /\ program \in {"voicebot", "voicebot-livekit", "client"}
  /\ task \in {"queued", "running", "ended"}
  /\ peer \in {"here", "gone"} /\ sock \in {"none", "open", "closed"}
  /\ output \in {"idle", "writing"} /\ speech \in Nat /\ notified \in Nat
  /\ callback \in {"none", "unasked", "asked", "fires", "done"}
  /\ mic \in {"none", "wired", "failed"} /\ tracks \in Nat

(* Where the goroutines may be: each program has its own places, and only a *)
(* client has a reader.                                                     *)
Places ==
  /\ program = "voicebot" =>
       main \in {"connect", "store", "read", "clear", "close", "notify", "cancel", "wait",
                 "returned", "gaveUp"}
  /\ program = "client" =>
       main \in {"connect", "store", "connected", "closing", "returned"}
  /\ program = "voicebot-livekit" =>
       main \in {"connect", "store", "publish", "run", "rest", "take", "leaving", "returned",
                 "fatal"}
  /\ reader \in {"none", "read", "close", "clear", "notify", "done"}
  /\ reader # "none" =>
       program = "client" /\ main \in {"connected", "closing", "returned"}
  /\ callback # "none" => program = "voicebot-livekit"

(* The output of ws and client writes under the lock, to a connection that  *)
(* setConn(nil) cannot have taken away meanwhile.                           *)
WritesUnderLock ==
  program = "voicebot" => (output = "writing" => lock /\ conn)

(* ws: the connection is there between setConn(c) and setConn(nil), is      *)
(* closed after that, and OnDisconnect is called in the next step.          *)
WsOrder ==
  program = "voicebot" =>
    /\ main = "connect" => sock = "none"
    /\ conn => main \in {"read", "clear"}
    /\ sock = "closed" => main \in {"notify", "cancel", "wait", "returned", "gaveUp"}
    /\ main = "notify" => sock = "closed"
    /\ notified > 0 =>
         notified = 1 /\ sock = "closed" /\ main \in {"cancel", "wait", "returned", "gaveUp"}

(* client: the read loop closes, clears and notifies; Close may have closed *)
(* and cleared before, and nothing opens the connection again.              *)
ClientOrder ==
  program = "client" =>
    /\ main = "connect" => sock = "none"
    /\ conn => reader \in {"read", "close", "clear"}
    /\ reader \in {"clear", "notify", "done"} => sock = "closed"
    /\ notified > 0 => notified = 1 /\ reader = "done"

(* livekit: the flag is up from Disconnect until the room is left, and the  *)
(* room calls back on request only while Disconnect waits for it.           *)
ClosingIsMarked ==
  /\ main \in {"take", "leaving"} => closing /\ program = "voicebot-livekit"
  /\ callback = "asked" => main = "leaving"

TypeOK == Flags /\ Values

IInv == TypeOK /\ Places /\ WritesUnderLock /\ WsOrder /\ ClientOrder /\ ClosingIsMarked

-----------------------------------------------------------------------------

(* Every step keeps the flags Boolean. *)
LEMMA FlagsNext ==
  ASSUME Flags, [Next]_vars PROVE Flags'
<1> USE DEF Flags
<1>1. CASE TaskRuns
  BY Zenon, <1>1 DEF TaskRuns, TaskOnly, linkVars, outVars, roomVars
<1>2. CASE IdleStops
  BY Zenon, <1>2 DEF IdleStops, TaskOnly, linkVars, outVars, roomVars
<1>3. CASE Signal
  BY Zenon, <1>3 DEF Signal, TaskOnly, linkVars, outVars, roomVars
<1>4. CASE TaskEnds
  BY Zenon, <1>4 DEF TaskEnds, TaskOnly, linkVars, outVars, roomVars
<1>5. CASE OutputTakes
  BY Zenon, <1>5 DEF OutputTakes, OutOnly, taskVars, roomVars
<1>6. CASE LkOutputTakes
  BY Zenon, <1>6 DEF LkOutputTakes, OutOnly, taskVars, roomVars
<1>7. CASE OutputWritten
  BY Zenon, <1>7 DEF OutputWritten, OutOnly, taskVars, roomVars
<1>8. CASE WsUpgrade
  BY Zenon, <1>8 DEF WsUpgrade, MainGoes, taskVars, outVars, roomVars
<1>9. CASE WsSetConn
  BY Zenon, <1>9 DEF WsSetConn, MainGoes, taskVars, outVars, roomVars
<1>10. CASE WsReadFails
  BY Zenon, <1>10 DEF WsReadFails, MainGoes, OnlyMain, taskVars, linkVars, outVars, roomVars
<1>11. CASE WsClearConn
  BY Zenon, <1>11 DEF WsClearConn, MainGoes, taskVars, outVars, roomVars
<1>12. CASE WsClose
  BY Zenon, <1>12 DEF WsClose, MainGoes, taskVars, outVars, roomVars
<1>13. CASE WsNotify
  BY Zenon, <1>13 DEF WsNotify, MainGoes, linkVars, outVars, roomVars
<1>14. CASE SessionCancels
  BY Zenon, <1>14 DEF SessionCancels, MainGoes, linkVars, outVars, roomVars
<1>15. CASE SessionWaits
  BY Zenon, <1>15 DEF SessionWaits, MainGoes, OnlyMain, taskVars, linkVars, outVars, roomVars
<1>16. CASE ClientConnect
  BY Zenon, <1>16 DEF ClientConnect, MainGoes, taskVars, outVars, roomVars
<1>17. CASE ClientSetConn
  BY Zenon, <1>17 DEF ClientSetConn, MainGoes, taskVars, outVars, roomVars
<1>18. CASE ClientCloses
  BY Zenon, <1>18 DEF ClientCloses, MainGoes, taskVars, outVars, roomVars
<1>19. CASE ClientClose
  BY Zenon, <1>19 DEF ClientClose, MainGoes, taskVars, outVars, roomVars
<1>20. CASE ReadLoopFails
  BY Zenon, <1>20 DEF ReadLoopFails, ReaderGoes, OnlyReader, outVars, roomVars
<1>21. CASE ReadLoopCloses
  BY Zenon, <1>21 DEF ReadLoopCloses, ReaderGoes, OnlyReader, outVars, roomVars
<1>22. CASE ReadLoopClears
  BY Zenon, <1>22 DEF ReadLoopClears, ReaderGoes, OnlyReader, outVars, roomVars
<1>23. CASE ReadLoopNotifies
  BY Zenon, <1>23 DEF ReadLoopNotifies, ReaderGoes, OnlyReader, outVars, roomVars
<1>24. CASE LkJoin
  BY Zenon, <1>24 DEF LkJoin, Lk, MainGoes, OnlyLink, taskVars, outVars
<1>25. CASE LkStoreRoom
  BY Zenon, <1>25 DEF LkStoreRoom, Lk, MainGoes, OnlyLink, taskVars, outVars
<1>26. CASE LkPublish
  BY Zenon, <1>26 DEF LkPublish, Lk, MainGoes, OnlyLink, taskVars, outVars
<1>27. CASE LkRunReturns
  BY Zenon, <1>27 DEF LkRunReturns, Lk, MainGoes, OnlyMain, taskVars, linkVars, outVars, roomVars
<1>28. CASE LkDisconnect
  BY Zenon, <1>28 DEF LkDisconnect, Lk, MainGoes, OnlyLink, taskVars, outVars
<1>29. CASE LkTake
  BY Zenon, <1>29 DEF LkTake, Lk, MainGoes, OnlyLink, taskVars, outVars
<1>30. CASE LkLeave
  BY Zenon, <1>30 DEF LkLeave, OnlyLink, taskVars, outVars
<1>31. CASE LkLeft
  BY Zenon, <1>31 DEF LkLeft, Lk, MainGoes, OnlyLink, taskVars, outVars
<1>32. CASE OnRoomDisconnected
  BY Zenon, <1>32 DEF OnRoomDisconnected, CallbackOnly, linkVars, outVars
<1>33. CASE FireOnDisconnect
  BY Zenon, <1>33 DEF FireOnDisconnect, CallbackOnly, linkVars, outVars
<1>34. CASE RoomLost
  BY Zenon, <1>34 DEF RoomLost, OnlyLink, taskVars, outVars
<1>35. CASE ParticipantLeaves
  BY Zenon, <1>35 DEF ParticipantLeaves, outVars, roomVars
<1>36. CASE OnTrackSubscribed
  BY Zenon, <1>36 DEF OnTrackSubscribed, CallbackOnly, linkVars, outVars
<1>37. CASE PeerGoes
  BY Zenon, <1>37 DEF PeerGoes, taskVars, outVars, roomVars
<1>38. CASE UNCHANGED vars
  BY Zenon, <1>38 DEF vars, taskVars, linkVars, outVars, roomVars
<1>39. QED
  BY <1>1, <1>2, <1>3, <1>4, <1>5, <1>6, <1>7, <1>8, <1>9, <1>10, <1>11, <1>12,
     <1>13, <1>14, <1>15, <1>16, <1>17, <1>18, <1>19, <1>20, <1>21, <1>22,
     <1>23, <1>24, <1>25, <1>26, <1>27, <1>28, <1>29, <1>30, <1>31, <1>32,
     <1>33, <1>34, <1>35, <1>36, <1>37, <1>38
     DEF Next, Output, Voicebot, Client, Reader, Livekit, Callbacks

(* Every step keeps the types of the other variables. *)
LEMMA ValuesNext ==
  ASSUME Values, [Next]_vars PROVE Values'
<1> USE DEF Values
<1>1. CASE TaskRuns
  BY <1>1 DEF TaskRuns, TaskOnly, linkVars, outVars, roomVars
<1>2. CASE IdleStops
  BY <1>2 DEF IdleStops, TaskOnly, linkVars, outVars, roomVars
<1>3. CASE Signal
  BY <1>3 DEF Signal, TaskOnly, linkVars, outVars, roomVars
<1>4. CASE TaskEnds
  BY <1>4 DEF TaskEnds, TaskOnly, linkVars, outVars, roomVars
<1>5. CASE OutputTakes
  BY <1>5 DEF OutputTakes, OutOnly, taskVars, roomVars
<1>6. CASE LkOutputTakes
  BY <1>6 DEF LkOutputTakes, OutOnly, taskVars, roomVars
<1>7. CASE OutputWritten
  BY <1>7 DEF OutputWritten, OutOnly, taskVars, roomVars
<1>8. CASE WsUpgrade
  BY <1>8 DEF WsUpgrade, MainGoes, taskVars, outVars, roomVars
<1>9. CASE WsSetConn
  BY <1>9 DEF WsSetConn, MainGoes, taskVars, outVars, roomVars
<1>10. CASE WsReadFails
  BY <1>10 DEF WsReadFails, MainGoes, OnlyMain, taskVars, linkVars, outVars, roomVars
<1>11. CASE WsClearConn
  BY <1>11 DEF WsClearConn, MainGoes, taskVars, outVars, roomVars
<1>12. CASE WsClose
  BY <1>12 DEF WsClose, MainGoes, taskVars, outVars, roomVars
<1>13. CASE WsNotify
  BY <1>13 DEF WsNotify, MainGoes, linkVars, outVars, roomVars
<1>14. CASE SessionCancels
  BY <1>14 DEF SessionCancels, MainGoes, linkVars, outVars, roomVars
<1>15. CASE SessionWaits
  BY <1>15 DEF SessionWaits, MainGoes, OnlyMain, taskVars, linkVars, outVars, roomVars
<1>16. CASE ClientConnect
  BY <1>16 DEF ClientConnect, MainGoes, taskVars, outVars, roomVars
<1>17. CASE ClientSetConn
  BY <1>17 DEF ClientSetConn, MainGoes, taskVars, outVars, roomVars
<1>18. CASE ClientCloses
  BY <1>18 DEF ClientCloses, MainGoes, taskVars, outVars, roomVars
<1>19. CASE ClientClose
  BY <1>19 DEF ClientClose, MainGoes, taskVars, outVars, roomVars
<1>20. CASE ReadLoopFails
  BY <1>20 DEF ReadLoopFails, ReaderGoes, OnlyReader, outVars, roomVars
<1>21. CASE ReadLoopCloses
  BY <1>21 DEF ReadLoopCloses, ReaderGoes, OnlyReader, outVars, roomVars
<1>22. CASE ReadLoopClears
  BY <1>22 DEF ReadLoopClears, ReaderGoes, OnlyReader, outVars, roomVars
<1>23. CASE ReadLoopNotifies
  BY <1>23 DEF ReadLoopNotifies, ReaderGoes, OnlyReader, outVars, roomVars
<1>24. CASE LkJoin
  BY <1>24 DEF LkJoin, Lk, MainGoes, OnlyLink, taskVars, outVars
<1>25. CASE LkStoreRoom
  BY <1>25 DEF LkStoreRoom, Lk, MainGoes, OnlyLink, taskVars, outVars
<1>26. CASE LkPublish
  BY <1>26 DEF LkPublish, Lk, MainGoes, OnlyLink, taskVars, outVars
<1>27. CASE LkRunReturns
  BY <1>27 DEF LkRunReturns, Lk, MainGoes, OnlyMain, taskVars, linkVars, outVars, roomVars
<1>28. CASE LkDisconnect
  BY <1>28 DEF LkDisconnect, Lk, MainGoes, OnlyLink, taskVars, outVars
<1>29. CASE LkTake
  BY <1>29 DEF LkTake, Lk, MainGoes, OnlyLink, taskVars, outVars
<1>30. CASE LkLeave
  BY <1>30 DEF LkLeave, OnlyLink, taskVars, outVars
<1>31. CASE LkLeft
  BY <1>31 DEF LkLeft, Lk, MainGoes, OnlyLink, taskVars, outVars
<1>32. CASE OnRoomDisconnected
  BY <1>32 DEF OnRoomDisconnected, CallbackOnly, linkVars, outVars
<1>33. CASE FireOnDisconnect
  BY <1>33 DEF FireOnDisconnect, CallbackOnly, linkVars, outVars
<1>34. CASE RoomLost
  BY <1>34 DEF RoomLost, OnlyLink, taskVars, outVars
<1>35. CASE ParticipantLeaves
  BY <1>35 DEF ParticipantLeaves, outVars, roomVars
<1>36. CASE OnTrackSubscribed
  BY <1>36 DEF OnTrackSubscribed, CallbackOnly, linkVars, outVars
<1>37. CASE PeerGoes
  BY <1>37 DEF PeerGoes, taskVars, outVars, roomVars
<1>38. CASE UNCHANGED vars
  BY <1>38 DEF vars, taskVars, linkVars, outVars, roomVars
<1>39. QED
  BY <1>1, <1>2, <1>3, <1>4, <1>5, <1>6, <1>7, <1>8, <1>9, <1>10, <1>11, <1>12,
     <1>13, <1>14, <1>15, <1>16, <1>17, <1>18, <1>19, <1>20, <1>21, <1>22,
     <1>23, <1>24, <1>25, <1>26, <1>27, <1>28, <1>29, <1>30, <1>31, <1>32,
     <1>33, <1>34, <1>35, <1>36, <1>37, <1>38
     DEF Next, Output, Voicebot, Client, Reader, Livekit, Callbacks

(* Every goroutine keeps to the places of its program. *)
LEMMA PlacesNext ==
  ASSUME Flags, Values, Places, [Next]_vars PROVE Places'
<1> USE DEF Flags, Values, Places
<1>1. CASE TaskRuns
  BY <1>1 DEF TaskRuns, TaskOnly, linkVars, outVars, roomVars
<1>2. CASE IdleStops
  BY <1>2 DEF IdleStops, TaskOnly, linkVars, outVars, roomVars
<1>3. CASE Signal
  BY <1>3 DEF Signal, TaskOnly, linkVars, outVars, roomVars
<1>4. CASE TaskEnds
  BY <1>4 DEF TaskEnds, TaskOnly, linkVars, outVars, roomVars
<1>5. CASE OutputTakes
  BY <1>5 DEF OutputTakes, OutOnly, taskVars, roomVars
<1>6. CASE LkOutputTakes
  BY <1>6 DEF LkOutputTakes, OutOnly, taskVars, roomVars
<1>7. CASE OutputWritten
  BY <1>7 DEF OutputWritten, OutOnly, taskVars, roomVars
<1>8. CASE WsUpgrade
  BY <1>8 DEF WsUpgrade, MainGoes, taskVars, outVars, roomVars
<1>9. CASE WsSetConn
  BY <1>9 DEF WsSetConn, MainGoes, taskVars, outVars, roomVars
<1>10. CASE WsReadFails
  BY <1>10 DEF WsReadFails, MainGoes, OnlyMain, taskVars, linkVars, outVars, roomVars
<1>11. CASE WsClearConn
  BY <1>11 DEF WsClearConn, MainGoes, taskVars, outVars, roomVars
<1>12. CASE WsClose
  BY <1>12 DEF WsClose, MainGoes, taskVars, outVars, roomVars
<1>13. CASE WsNotify
  BY <1>13 DEF WsNotify, MainGoes, linkVars, outVars, roomVars
<1>14. CASE SessionCancels
  BY <1>14 DEF SessionCancels, MainGoes, linkVars, outVars, roomVars
<1>15. CASE SessionWaits
  BY <1>15 DEF SessionWaits, MainGoes, OnlyMain, taskVars, linkVars, outVars, roomVars
<1>16. CASE ClientConnect
  BY <1>16 DEF ClientConnect, MainGoes, taskVars, outVars, roomVars
<1>17. CASE ClientSetConn
  BY <1>17 DEF ClientSetConn, MainGoes, taskVars, outVars, roomVars
<1>18. CASE ClientCloses
  BY <1>18 DEF ClientCloses, MainGoes, taskVars, outVars, roomVars
<1>19. CASE ClientClose
  BY <1>19 DEF ClientClose, MainGoes, taskVars, outVars, roomVars
<1>20. CASE ReadLoopFails
  BY <1>20 DEF ReadLoopFails, ReaderGoes, OnlyReader, outVars, roomVars
<1>21. CASE ReadLoopCloses
  BY <1>21 DEF ReadLoopCloses, ReaderGoes, OnlyReader, outVars, roomVars
<1>22. CASE ReadLoopClears
  BY <1>22 DEF ReadLoopClears, ReaderGoes, OnlyReader, outVars, roomVars
<1>23. CASE ReadLoopNotifies
  BY <1>23 DEF ReadLoopNotifies, ReaderGoes, OnlyReader, outVars, roomVars
<1>24. CASE LkJoin
  BY <1>24 DEF LkJoin, Lk, MainGoes, OnlyLink, taskVars, outVars
<1>25. CASE LkStoreRoom
  BY <1>25 DEF LkStoreRoom, Lk, MainGoes, OnlyLink, taskVars, outVars
<1>26. CASE LkPublish
  BY <1>26 DEF LkPublish, Lk, MainGoes, OnlyLink, taskVars, outVars
<1>27. CASE LkRunReturns
  BY <1>27 DEF LkRunReturns, Lk, MainGoes, OnlyMain, taskVars, linkVars, outVars, roomVars
<1>28. CASE LkDisconnect
  BY <1>28 DEF LkDisconnect, Lk, MainGoes, OnlyLink, taskVars, outVars
<1>29. CASE LkTake
  BY <1>29 DEF LkTake, Lk, MainGoes, OnlyLink, taskVars, outVars
<1>30. CASE LkLeave
  BY <1>30 DEF LkLeave, OnlyLink, taskVars, outVars
<1>31. CASE LkLeft
  BY <1>31 DEF LkLeft, Lk, MainGoes, OnlyLink, taskVars, outVars
<1>32. CASE OnRoomDisconnected
  BY <1>32 DEF OnRoomDisconnected, CallbackOnly, linkVars, outVars
<1>33. CASE FireOnDisconnect
  BY <1>33 DEF FireOnDisconnect, CallbackOnly, linkVars, outVars
<1>34. CASE RoomLost
  BY <1>34 DEF RoomLost, OnlyLink, taskVars, outVars
<1>35. CASE ParticipantLeaves
  BY <1>35 DEF ParticipantLeaves, outVars, roomVars
<1>36. CASE OnTrackSubscribed
  BY <1>36 DEF OnTrackSubscribed, CallbackOnly, linkVars, outVars
<1>37. CASE PeerGoes
  BY <1>37 DEF PeerGoes, taskVars, outVars, roomVars
<1>38. CASE UNCHANGED vars
  BY <1>38 DEF vars, taskVars, linkVars, outVars, roomVars
<1>39. QED
  BY <1>1, <1>2, <1>3, <1>4, <1>5, <1>6, <1>7, <1>8, <1>9, <1>10, <1>11, <1>12,
     <1>13, <1>14, <1>15, <1>16, <1>17, <1>18, <1>19, <1>20, <1>21, <1>22,
     <1>23, <1>24, <1>25, <1>26, <1>27, <1>28, <1>29, <1>30, <1>31, <1>32,
     <1>33, <1>34, <1>35, <1>36, <1>37, <1>38
     DEF Next, Output, Voicebot, Client, Reader, Livekit, Callbacks

(* A writer of ws keeps lock and connection until its write is over. *)
LEMMA WritesUnderLockNext ==
  ASSUME Flags, Values, Places, WritesUnderLock, [Next]_vars PROVE WritesUnderLock'
<1> USE DEF Flags, Values, Places, WritesUnderLock
<1>1. CASE TaskRuns
  BY <1>1 DEF TaskRuns, TaskOnly, linkVars, outVars, roomVars
<1>2. CASE IdleStops
  BY <1>2 DEF IdleStops, TaskOnly, linkVars, outVars, roomVars
<1>3. CASE Signal
  BY <1>3 DEF Signal, TaskOnly, linkVars, outVars, roomVars
<1>4. CASE TaskEnds
  BY <1>4 DEF TaskEnds, TaskOnly, linkVars, outVars, roomVars
<1>5. CASE OutputTakes
  BY <1>5 DEF OutputTakes, OutOnly, taskVars, roomVars
<1>6. CASE LkOutputTakes
  BY <1>6 DEF LkOutputTakes, OutOnly, taskVars, roomVars
<1>7. CASE OutputWritten
  BY <1>7 DEF OutputWritten, OutOnly, taskVars, roomVars
<1>8. CASE WsUpgrade
  BY <1>8 DEF WsUpgrade, MainGoes, taskVars, outVars, roomVars
<1>9. CASE WsSetConn
  BY <1>9 DEF WsSetConn, MainGoes, taskVars, outVars, roomVars
<1>10. CASE WsReadFails
  BY <1>10 DEF WsReadFails, MainGoes, OnlyMain, taskVars, linkVars, outVars, roomVars
<1>11. CASE WsClearConn
  BY <1>11 DEF WsClearConn, MainGoes, taskVars, outVars, roomVars
<1>12. CASE WsClose
  BY <1>12 DEF WsClose, MainGoes, taskVars, outVars, roomVars
<1>13. CASE WsNotify
  BY <1>13 DEF WsNotify, MainGoes, linkVars, outVars, roomVars
<1>14. CASE SessionCancels
  BY <1>14 DEF SessionCancels, MainGoes, linkVars, outVars, roomVars
<1>15. CASE SessionWaits
  BY <1>15 DEF SessionWaits, MainGoes, OnlyMain, taskVars, linkVars, outVars, roomVars
<1>16. CASE ClientConnect
  BY <1>16 DEF ClientConnect, MainGoes, taskVars, outVars, roomVars
<1>17. CASE ClientSetConn
  BY <1>17 DEF ClientSetConn, MainGoes, taskVars, outVars, roomVars
<1>18. CASE ClientCloses
  BY <1>18 DEF ClientCloses, MainGoes, taskVars, outVars, roomVars
<1>19. CASE ClientClose
  BY <1>19 DEF ClientClose, MainGoes, taskVars, outVars, roomVars
<1>20. CASE ReadLoopFails
  BY <1>20 DEF ReadLoopFails, ReaderGoes, OnlyReader, outVars, roomVars
<1>21. CASE ReadLoopCloses
  BY <1>21 DEF ReadLoopCloses, ReaderGoes, OnlyReader, outVars, roomVars
<1>22. CASE ReadLoopClears
  BY <1>22 DEF ReadLoopClears, ReaderGoes, OnlyReader, outVars, roomVars
<1>23. CASE ReadLoopNotifies
  BY <1>23 DEF ReadLoopNotifies, ReaderGoes, OnlyReader, outVars, roomVars
<1>24. CASE LkJoin
  BY <1>24 DEF LkJoin, Lk, MainGoes, OnlyLink, taskVars, outVars
<1>25. CASE LkStoreRoom
  BY <1>25 DEF LkStoreRoom, Lk, MainGoes, OnlyLink, taskVars, outVars
<1>26. CASE LkPublish
  BY <1>26 DEF LkPublish, Lk, MainGoes, OnlyLink, taskVars, outVars
<1>27. CASE LkRunReturns
  BY <1>27 DEF LkRunReturns, Lk, MainGoes, OnlyMain, taskVars, linkVars, outVars, roomVars
<1>28. CASE LkDisconnect
  BY <1>28 DEF LkDisconnect, Lk, MainGoes, OnlyLink, taskVars, outVars
<1>29. CASE LkTake
  BY <1>29 DEF LkTake, Lk, MainGoes, OnlyLink, taskVars, outVars
<1>30. CASE LkLeave
  BY <1>30 DEF LkLeave, OnlyLink, taskVars, outVars
<1>31. CASE LkLeft
  BY <1>31 DEF LkLeft, Lk, MainGoes, OnlyLink, taskVars, outVars
<1>32. CASE OnRoomDisconnected
  BY <1>32 DEF OnRoomDisconnected, CallbackOnly, linkVars, outVars
<1>33. CASE FireOnDisconnect
  BY <1>33 DEF FireOnDisconnect, CallbackOnly, linkVars, outVars
<1>34. CASE RoomLost
  BY <1>34 DEF RoomLost, OnlyLink, taskVars, outVars
<1>35. CASE ParticipantLeaves
  BY <1>35 DEF ParticipantLeaves, outVars, roomVars
<1>36. CASE OnTrackSubscribed
  BY <1>36 DEF OnTrackSubscribed, CallbackOnly, linkVars, outVars
<1>37. CASE PeerGoes
  BY <1>37 DEF PeerGoes, taskVars, outVars, roomVars
<1>38. CASE UNCHANGED vars
  BY <1>38 DEF vars, taskVars, linkVars, outVars, roomVars
<1>39. QED
  BY <1>1, <1>2, <1>3, <1>4, <1>5, <1>6, <1>7, <1>8, <1>9, <1>10, <1>11, <1>12,
     <1>13, <1>14, <1>15, <1>16, <1>17, <1>18, <1>19, <1>20, <1>21, <1>22,
     <1>23, <1>24, <1>25, <1>26, <1>27, <1>28, <1>29, <1>30, <1>31, <1>32,
     <1>33, <1>34, <1>35, <1>36, <1>37, <1>38
     DEF Next, Output, Voicebot, Client, Reader, Livekit, Callbacks

(* HandleWebSocket goes through its places once. *)
LEMMA WsOrderNext ==
  ASSUME Flags, Values, Places, WsOrder, [Next]_vars PROVE WsOrder'
<1> USE DEF Flags, Values, Places, WsOrder
<1>1. CASE TaskRuns
  BY <1>1 DEF TaskRuns, TaskOnly, linkVars, outVars, roomVars
<1>2. CASE IdleStops
  BY <1>2 DEF IdleStops, TaskOnly, linkVars, outVars, roomVars
<1>3. CASE Signal
  BY <1>3 DEF Signal, TaskOnly, linkVars, outVars, roomVars
<1>4. CASE TaskEnds
  BY <1>4 DEF TaskEnds, TaskOnly, linkVars, outVars, roomVars
<1>5. CASE OutputTakes
  BY <1>5 DEF OutputTakes, OutOnly, taskVars, roomVars
<1>6. CASE LkOutputTakes
  BY <1>6 DEF LkOutputTakes, OutOnly, taskVars, roomVars
<1>7. CASE OutputWritten
  BY <1>7 DEF OutputWritten, OutOnly, taskVars, roomVars
<1>8. CASE WsUpgrade
  BY <1>8 DEF WsUpgrade, MainGoes, taskVars, outVars, roomVars
<1>9. CASE WsSetConn
  BY <1>9 DEF WsSetConn, MainGoes, taskVars, outVars, roomVars
<1>10. CASE WsReadFails
  BY <1>10 DEF WsReadFails, MainGoes, OnlyMain, taskVars, linkVars, outVars, roomVars
<1>11. CASE WsClearConn
  BY <1>11 DEF WsClearConn, MainGoes, taskVars, outVars, roomVars
<1>12. CASE WsClose
  BY <1>12 DEF WsClose, MainGoes, taskVars, outVars, roomVars
<1>13. CASE WsNotify
  BY <1>13 DEF WsNotify, MainGoes, linkVars, outVars, roomVars
<1>14. CASE SessionCancels
  BY <1>14 DEF SessionCancels, MainGoes, linkVars, outVars, roomVars
<1>15. CASE SessionWaits
  BY <1>15 DEF SessionWaits, MainGoes, OnlyMain, taskVars, linkVars, outVars, roomVars
<1>16. CASE ClientConnect
  BY <1>16 DEF ClientConnect, MainGoes, taskVars, outVars, roomVars
<1>17. CASE ClientSetConn
  BY <1>17 DEF ClientSetConn, MainGoes, taskVars, outVars, roomVars
<1>18. CASE ClientCloses
  BY <1>18 DEF ClientCloses, MainGoes, taskVars, outVars, roomVars
<1>19. CASE ClientClose
  BY <1>19 DEF ClientClose, MainGoes, taskVars, outVars, roomVars
<1>20. CASE ReadLoopFails
  BY <1>20 DEF ReadLoopFails, ReaderGoes, OnlyReader, outVars, roomVars
<1>21. CASE ReadLoopCloses
  BY <1>21 DEF ReadLoopCloses, ReaderGoes, OnlyReader, outVars, roomVars
<1>22. CASE ReadLoopClears
  BY <1>22 DEF ReadLoopClears, ReaderGoes, OnlyReader, outVars, roomVars
<1>23. CASE ReadLoopNotifies
  BY <1>23 DEF ReadLoopNotifies, ReaderGoes, OnlyReader, outVars, roomVars
<1>24. CASE LkJoin
  BY <1>24 DEF LkJoin, Lk, MainGoes, OnlyLink, taskVars, outVars
<1>25. CASE LkStoreRoom
  BY <1>25 DEF LkStoreRoom, Lk, MainGoes, OnlyLink, taskVars, outVars
<1>26. CASE LkPublish
  BY <1>26 DEF LkPublish, Lk, MainGoes, OnlyLink, taskVars, outVars
<1>27. CASE LkRunReturns
  BY <1>27 DEF LkRunReturns, Lk, MainGoes, OnlyMain, taskVars, linkVars, outVars, roomVars
<1>28. CASE LkDisconnect
  BY <1>28 DEF LkDisconnect, Lk, MainGoes, OnlyLink, taskVars, outVars
<1>29. CASE LkTake
  BY <1>29 DEF LkTake, Lk, MainGoes, OnlyLink, taskVars, outVars
<1>30. CASE LkLeave
  BY <1>30 DEF LkLeave, OnlyLink, taskVars, outVars
<1>31. CASE LkLeft
  BY <1>31 DEF LkLeft, Lk, MainGoes, OnlyLink, taskVars, outVars
<1>32. CASE OnRoomDisconnected
  BY <1>32 DEF OnRoomDisconnected, CallbackOnly, linkVars, outVars
<1>33. CASE FireOnDisconnect
  BY <1>33 DEF FireOnDisconnect, CallbackOnly, linkVars, outVars
<1>34. CASE RoomLost
  BY <1>34 DEF RoomLost, OnlyLink, taskVars, outVars
<1>35. CASE ParticipantLeaves
  BY <1>35 DEF ParticipantLeaves, outVars, roomVars
<1>36. CASE OnTrackSubscribed
  BY <1>36 DEF OnTrackSubscribed, CallbackOnly, linkVars, outVars
<1>37. CASE PeerGoes
  BY <1>37 DEF PeerGoes, taskVars, outVars, roomVars
<1>38. CASE UNCHANGED vars
  BY <1>38 DEF vars, taskVars, linkVars, outVars, roomVars
<1>39. QED
  BY <1>1, <1>2, <1>3, <1>4, <1>5, <1>6, <1>7, <1>8, <1>9, <1>10, <1>11, <1>12,
     <1>13, <1>14, <1>15, <1>16, <1>17, <1>18, <1>19, <1>20, <1>21, <1>22,
     <1>23, <1>24, <1>25, <1>26, <1>27, <1>28, <1>29, <1>30, <1>31, <1>32,
     <1>33, <1>34, <1>35, <1>36, <1>37, <1>38
     DEF Next, Output, Voicebot, Client, Reader, Livekit, Callbacks

(* The read loop ends the connection once. *)
LEMMA ClientOrderNext ==
  ASSUME Flags, Values, Places, ClientOrder, [Next]_vars PROVE ClientOrder'
<1> USE DEF Flags, Values, Places, ClientOrder
<1>1. CASE TaskRuns
  BY <1>1 DEF TaskRuns, TaskOnly, linkVars, outVars, roomVars
<1>2. CASE IdleStops
  BY <1>2 DEF IdleStops, TaskOnly, linkVars, outVars, roomVars
<1>3. CASE Signal
  BY <1>3 DEF Signal, TaskOnly, linkVars, outVars, roomVars
<1>4. CASE TaskEnds
  BY <1>4 DEF TaskEnds, TaskOnly, linkVars, outVars, roomVars
<1>5. CASE OutputTakes
  BY <1>5 DEF OutputTakes, OutOnly, taskVars, roomVars
<1>6. CASE LkOutputTakes
  BY <1>6 DEF LkOutputTakes, OutOnly, taskVars, roomVars
<1>7. CASE OutputWritten
  BY <1>7 DEF OutputWritten, OutOnly, taskVars, roomVars
<1>8. CASE WsUpgrade
  BY <1>8 DEF WsUpgrade, MainGoes, taskVars, outVars, roomVars
<1>9. CASE WsSetConn
  BY <1>9 DEF WsSetConn, MainGoes, taskVars, outVars, roomVars
<1>10. CASE WsReadFails
  BY <1>10 DEF WsReadFails, MainGoes, OnlyMain, taskVars, linkVars, outVars, roomVars
<1>11. CASE WsClearConn
  BY <1>11 DEF WsClearConn, MainGoes, taskVars, outVars, roomVars
<1>12. CASE WsClose
  BY <1>12 DEF WsClose, MainGoes, taskVars, outVars, roomVars
<1>13. CASE WsNotify
  BY <1>13 DEF WsNotify, MainGoes, linkVars, outVars, roomVars
<1>14. CASE SessionCancels
  BY <1>14 DEF SessionCancels, MainGoes, linkVars, outVars, roomVars
<1>15. CASE SessionWaits
  BY <1>15 DEF SessionWaits, MainGoes, OnlyMain, taskVars, linkVars, outVars, roomVars
<1>16. CASE ClientConnect
  BY <1>16 DEF ClientConnect, MainGoes, taskVars, outVars, roomVars
<1>17. CASE ClientSetConn
  BY <1>17 DEF ClientSetConn, MainGoes, taskVars, outVars, roomVars
<1>18. CASE ClientCloses
  BY <1>18 DEF ClientCloses, MainGoes, taskVars, outVars, roomVars
<1>19. CASE ClientClose
  BY <1>19 DEF ClientClose, MainGoes, taskVars, outVars, roomVars
<1>20. CASE ReadLoopFails
  BY <1>20 DEF ReadLoopFails, ReaderGoes, OnlyReader, outVars, roomVars
<1>21. CASE ReadLoopCloses
  BY <1>21 DEF ReadLoopCloses, ReaderGoes, OnlyReader, outVars, roomVars
<1>22. CASE ReadLoopClears
  BY <1>22 DEF ReadLoopClears, ReaderGoes, OnlyReader, outVars, roomVars
<1>23. CASE ReadLoopNotifies
  BY <1>23 DEF ReadLoopNotifies, ReaderGoes, OnlyReader, outVars, roomVars
<1>24. CASE LkJoin
  BY <1>24 DEF LkJoin, Lk, MainGoes, OnlyLink, taskVars, outVars
<1>25. CASE LkStoreRoom
  BY <1>25 DEF LkStoreRoom, Lk, MainGoes, OnlyLink, taskVars, outVars
<1>26. CASE LkPublish
  BY <1>26 DEF LkPublish, Lk, MainGoes, OnlyLink, taskVars, outVars
<1>27. CASE LkRunReturns
  BY <1>27 DEF LkRunReturns, Lk, MainGoes, OnlyMain, taskVars, linkVars, outVars, roomVars
<1>28. CASE LkDisconnect
  BY <1>28 DEF LkDisconnect, Lk, MainGoes, OnlyLink, taskVars, outVars
<1>29. CASE LkTake
  BY <1>29 DEF LkTake, Lk, MainGoes, OnlyLink, taskVars, outVars
<1>30. CASE LkLeave
  BY <1>30 DEF LkLeave, OnlyLink, taskVars, outVars
<1>31. CASE LkLeft
  BY <1>31 DEF LkLeft, Lk, MainGoes, OnlyLink, taskVars, outVars
<1>32. CASE OnRoomDisconnected
  BY <1>32 DEF OnRoomDisconnected, CallbackOnly, linkVars, outVars
<1>33. CASE FireOnDisconnect
  BY <1>33 DEF FireOnDisconnect, CallbackOnly, linkVars, outVars
<1>34. CASE RoomLost
  BY <1>34 DEF RoomLost, OnlyLink, taskVars, outVars
<1>35. CASE ParticipantLeaves
  BY <1>35 DEF ParticipantLeaves, outVars, roomVars
<1>36. CASE OnTrackSubscribed
  BY <1>36 DEF OnTrackSubscribed, CallbackOnly, linkVars, outVars
<1>37. CASE PeerGoes
  BY <1>37 DEF PeerGoes, taskVars, outVars, roomVars
<1>38. CASE UNCHANGED vars
  BY <1>38 DEF vars, taskVars, linkVars, outVars, roomVars
<1>39. QED
  BY <1>1, <1>2, <1>3, <1>4, <1>5, <1>6, <1>7, <1>8, <1>9, <1>10, <1>11, <1>12,
     <1>13, <1>14, <1>15, <1>16, <1>17, <1>18, <1>19, <1>20, <1>21, <1>22,
     <1>23, <1>24, <1>25, <1>26, <1>27, <1>28, <1>29, <1>30, <1>31, <1>32,
     <1>33, <1>34, <1>35, <1>36, <1>37, <1>38
     DEF Next, Output, Voicebot, Client, Reader, Livekit, Callbacks

(* The closing flag is up while the room is left on purpose. *)
LEMMA ClosingIsMarkedNext ==
  ASSUME Flags, Values, Places, ClosingIsMarked, [Next]_vars PROVE ClosingIsMarked'
<1> USE DEF Flags, Values, Places, ClosingIsMarked
<1>1. CASE TaskRuns
  BY <1>1 DEF TaskRuns, TaskOnly, linkVars, outVars, roomVars
<1>2. CASE IdleStops
  BY <1>2 DEF IdleStops, TaskOnly, linkVars, outVars, roomVars
<1>3. CASE Signal
  BY <1>3 DEF Signal, TaskOnly, linkVars, outVars, roomVars
<1>4. CASE TaskEnds
  BY <1>4 DEF TaskEnds, TaskOnly, linkVars, outVars, roomVars
<1>5. CASE OutputTakes
  BY <1>5 DEF OutputTakes, OutOnly, taskVars, roomVars
<1>6. CASE LkOutputTakes
  BY <1>6 DEF LkOutputTakes, OutOnly, taskVars, roomVars
<1>7. CASE OutputWritten
  BY <1>7 DEF OutputWritten, OutOnly, taskVars, roomVars
<1>8. CASE WsUpgrade
  BY <1>8 DEF WsUpgrade, MainGoes, taskVars, outVars, roomVars
<1>9. CASE WsSetConn
  BY <1>9 DEF WsSetConn, MainGoes, taskVars, outVars, roomVars
<1>10. CASE WsReadFails
  BY <1>10 DEF WsReadFails, MainGoes, OnlyMain, taskVars, linkVars, outVars, roomVars
<1>11. CASE WsClearConn
  BY <1>11 DEF WsClearConn, MainGoes, taskVars, outVars, roomVars
<1>12. CASE WsClose
  BY <1>12 DEF WsClose, MainGoes, taskVars, outVars, roomVars
<1>13. CASE WsNotify
  BY <1>13 DEF WsNotify, MainGoes, linkVars, outVars, roomVars
<1>14. CASE SessionCancels
  BY <1>14 DEF SessionCancels, MainGoes, linkVars, outVars, roomVars
<1>15. CASE SessionWaits
  BY <1>15 DEF SessionWaits, MainGoes, OnlyMain, taskVars, linkVars, outVars, roomVars
<1>16. CASE ClientConnect
  BY <1>16 DEF ClientConnect, MainGoes, taskVars, outVars, roomVars
<1>17. CASE ClientSetConn
  BY <1>17 DEF ClientSetConn, MainGoes, taskVars, outVars, roomVars
<1>18. CASE ClientCloses
  BY <1>18 DEF ClientCloses, MainGoes, taskVars, outVars, roomVars
<1>19. CASE ClientClose
  BY <1>19 DEF ClientClose, MainGoes, taskVars, outVars, roomVars
<1>20. CASE ReadLoopFails
  BY <1>20 DEF ReadLoopFails, ReaderGoes, OnlyReader, outVars, roomVars
<1>21. CASE ReadLoopCloses
  BY <1>21 DEF ReadLoopCloses, ReaderGoes, OnlyReader, outVars, roomVars
<1>22. CASE ReadLoopClears
  BY <1>22 DEF ReadLoopClears, ReaderGoes, OnlyReader, outVars, roomVars
<1>23. CASE ReadLoopNotifies
  BY <1>23 DEF ReadLoopNotifies, ReaderGoes, OnlyReader, outVars, roomVars
<1>24. CASE LkJoin
  BY <1>24 DEF LkJoin, Lk, MainGoes, OnlyLink, taskVars, outVars
<1>25. CASE LkStoreRoom
  BY <1>25 DEF LkStoreRoom, Lk, MainGoes, OnlyLink, taskVars, outVars
<1>26. CASE LkPublish
  BY <1>26 DEF LkPublish, Lk, MainGoes, OnlyLink, taskVars, outVars
<1>27. CASE LkRunReturns
  BY <1>27 DEF LkRunReturns, Lk, MainGoes, OnlyMain, taskVars, linkVars, outVars, roomVars
<1>28. CASE LkDisconnect
  BY <1>28 DEF LkDisconnect, Lk, MainGoes, OnlyLink, taskVars, outVars
<1>29. CASE LkTake
  BY <1>29 DEF LkTake, Lk, MainGoes, OnlyLink, taskVars, outVars
<1>30. CASE LkLeave
  BY <1>30 DEF LkLeave, OnlyLink, taskVars, outVars
<1>31. CASE LkLeft
  BY <1>31 DEF LkLeft, Lk, MainGoes, OnlyLink, taskVars, outVars
<1>32. CASE OnRoomDisconnected
  BY <1>32 DEF OnRoomDisconnected, CallbackOnly, linkVars, outVars
<1>33. CASE FireOnDisconnect
  BY <1>33 DEF FireOnDisconnect, CallbackOnly, linkVars, outVars
<1>34. CASE RoomLost
  BY <1>34 DEF RoomLost, OnlyLink, taskVars, outVars
<1>35. CASE ParticipantLeaves
  BY <1>35 DEF ParticipantLeaves, outVars, roomVars
<1>36. CASE OnTrackSubscribed
  BY <1>36 DEF OnTrackSubscribed, CallbackOnly, linkVars, outVars
<1>37. CASE PeerGoes
  BY <1>37 DEF PeerGoes, taskVars, outVars, roomVars
<1>38. CASE UNCHANGED vars
  BY <1>38 DEF vars, taskVars, linkVars, outVars, roomVars
<1>39. QED
  BY <1>1, <1>2, <1>3, <1>4, <1>5, <1>6, <1>7, <1>8, <1>9, <1>10, <1>11, <1>12,
     <1>13, <1>14, <1>15, <1>16, <1>17, <1>18, <1>19, <1>20, <1>21, <1>22,
     <1>23, <1>24, <1>25, <1>26, <1>27, <1>28, <1>29, <1>30, <1>31, <1>32,
     <1>33, <1>34, <1>35, <1>36, <1>37, <1>38
     DEF Next, Output, Voicebot, Client, Reader, Livekit, Callbacks

-----------------------------------------------------------------------------
(* The invariant holds at first, and every step keeps it. *)
LEMMA Invariance == Spec => []IInv
<1>1. Init => IInv
  <2> SUFFICES ASSUME Init PROVE IInv
    OBVIOUS
  <2>1. Flags
    BY Zenon DEF Init, Flags
  <2>2. Values
    BY SessionAssumption DEF Init, Values
  <2>3. Places /\ WritesUnderLock /\ WsOrder /\ ClientOrder /\ ClosingIsMarked
    BY SessionAssumption
       DEF Init, Places, WritesUnderLock, WsOrder, ClientOrder, ClosingIsMarked
  <2>4. QED
    BY <2>1, <2>2, <2>3 DEF IInv, TypeOK
<1>2. IInv /\ [Next]_vars => IInv'
  BY FlagsNext, ValuesNext, PlacesNext, WritesUnderLockNext, WsOrderNext, ClientOrderNext,
     ClosingIsMarkedNext DEF IInv, TypeOK
<1>3. QED
  BY <1>1, <1>2, PTL DEF Spec

(* Every variable of Session keeps its type, whatever the programs, the     *)
(* amount of speech and the number of tracks.                               *)
THEOREM TypeCorrect == Spec => []TypeOK
<1>1. IInv => TypeOK
  BY DEF IInv
<1>2. QED
  BY <1>1, Invariance, PTL

(* ws takes its connection away before it closes it, with no write under    *)
(* way, and OnDisconnect of ws and client comes once, when the connection   *)
(* is closed and taken away.                                                *)
THEOREM TornDownOnceAndInOrder == Spec => []TornDownInOrder
<1>1. IInv => TornDownInOrder
  BY DEF IInv, TypeOK, Flags, Values, Places, WritesUnderLock, WsOrder, ClientOrder,
         TornDownInOrder
<1>2. QED
  BY <1>1, Invariance, PTL

(* A room that calls back because Disconnect asked it to close never makes  *)
(* livekit call OnDisconnect.                                               *)
THEOREM OwnDisconnectIsSilent == Spec => IntentIsSilent
<1>1. ASSUME IInv, [Next]_vars, callback = "asked"
      PROVE  callback' # "fires"
  <2>1. closing
    BY <1>1 DEF IInv, ClosingIsMarked
  <2>2. CASE OnRoomDisconnected
    BY <1>1, <2>1, <2>2 DEF OnRoomDisconnected
  <2>3. CASE ~OnRoomDisconnected
    <3>1. ASSUME [Next]_vars, ~OnRoomDisconnected, callback = "asked"
          PROVE  callback' # "fires"
      <4>1. CASE TaskRuns
        BY <3>1, <4>1 DEF TaskRuns, TaskOnly, linkVars, outVars, roomVars
      <4>2. CASE IdleStops
        BY <3>1, <4>2 DEF IdleStops, TaskOnly, linkVars, outVars, roomVars
      <4>3. CASE Signal
        BY <3>1, <4>3 DEF Signal, TaskOnly, linkVars, outVars, roomVars
      <4>4. CASE TaskEnds
        BY <3>1, <4>4 DEF TaskEnds, TaskOnly, linkVars, outVars, roomVars
      <4>5. CASE OutputTakes
        BY <3>1, <4>5 DEF OutputTakes, OutOnly, taskVars, roomVars
      <4>6. CASE LkOutputTakes
        BY <3>1, <4>6 DEF LkOutputTakes, OutOnly, taskVars, roomVars
      <4>7. CASE OutputWritten
        BY <3>1, <4>7 DEF OutputWritten, OutOnly, taskVars, roomVars
      <4>8. CASE WsUpgrade
        BY <3>1, <4>8 DEF WsUpgrade, MainGoes, taskVars, outVars, roomVars
      <4>9. CASE WsSetConn
        BY <3>1, <4>9 DEF WsSetConn, MainGoes, taskVars, outVars, roomVars
      <4>10. CASE WsReadFails
        BY <3>1, <4>10 DEF WsReadFails, MainGoes, OnlyMain, taskVars, linkVars, outVars, roomVars
      <4>11. CASE WsClearConn
        BY <3>1, <4>11 DEF WsClearConn, MainGoes, taskVars, outVars, roomVars
      <4>12. CASE WsClose
        BY <3>1, <4>12 DEF WsClose, MainGoes, taskVars, outVars, roomVars
      <4>13. CASE WsNotify
        BY <3>1, <4>13 DEF WsNotify, MainGoes, linkVars, outVars, roomVars
      <4>14. CASE SessionCancels
        BY <3>1, <4>14 DEF SessionCancels, MainGoes, linkVars, outVars, roomVars
      <4>15. CASE SessionWaits
        BY <3>1, <4>15 DEF SessionWaits, MainGoes, OnlyMain, taskVars, linkVars, outVars, roomVars
      <4>16. CASE ClientConnect
        BY <3>1, <4>16 DEF ClientConnect, MainGoes, taskVars, outVars, roomVars
      <4>17. CASE ClientSetConn
        BY <3>1, <4>17 DEF ClientSetConn, MainGoes, taskVars, outVars, roomVars
      <4>18. CASE ClientCloses
        BY <3>1, <4>18 DEF ClientCloses, MainGoes, taskVars, outVars, roomVars
      <4>19. CASE ClientClose
        BY <3>1, <4>19 DEF ClientClose, MainGoes, taskVars, outVars, roomVars
      <4>20. CASE ReadLoopFails
        BY <3>1, <4>20 DEF ReadLoopFails, ReaderGoes, OnlyReader, outVars, roomVars
      <4>21. CASE ReadLoopCloses
        BY <3>1, <4>21 DEF ReadLoopCloses, ReaderGoes, OnlyReader, outVars, roomVars
      <4>22. CASE ReadLoopClears
        BY <3>1, <4>22 DEF ReadLoopClears, ReaderGoes, OnlyReader, outVars, roomVars
      <4>23. CASE ReadLoopNotifies
        BY <3>1, <4>23 DEF ReadLoopNotifies, ReaderGoes, OnlyReader, outVars, roomVars
      <4>24. CASE LkJoin
        BY <3>1, <4>24 DEF LkJoin, Lk, MainGoes, OnlyLink, taskVars, outVars
      <4>25. CASE LkStoreRoom
        BY <3>1, <4>25 DEF LkStoreRoom, Lk, MainGoes, OnlyLink, taskVars, outVars
      <4>26. CASE LkPublish
        BY <3>1, <4>26 DEF LkPublish, Lk, MainGoes, OnlyLink, taskVars, outVars
      <4>27. CASE LkRunReturns
        BY <3>1, <4>27
        DEF LkRunReturns, Lk, MainGoes, OnlyMain, taskVars, linkVars, outVars, roomVars
      <4>28. CASE LkDisconnect
        BY <3>1, <4>28 DEF LkDisconnect, Lk, MainGoes, OnlyLink, taskVars, outVars
      <4>29. CASE LkTake
        BY <3>1, <4>29 DEF LkTake, Lk, MainGoes, OnlyLink, taskVars, outVars
      <4>30. CASE LkLeave
        BY <3>1, <4>30 DEF LkLeave, OnlyLink, taskVars, outVars
      <4>31. CASE LkLeft
        BY <3>1, <4>31 DEF LkLeft, Lk, MainGoes, OnlyLink, taskVars, outVars
      <4>32. CASE FireOnDisconnect
        BY <3>1, <4>32 DEF FireOnDisconnect, CallbackOnly, linkVars, outVars
      <4>33. CASE RoomLost
        BY <3>1, <4>33 DEF RoomLost, OnlyLink, taskVars, outVars
      <4>34. CASE ParticipantLeaves
        BY <3>1, <4>34 DEF ParticipantLeaves, outVars, roomVars
      <4>35. CASE OnTrackSubscribed
        BY <3>1, <4>35 DEF OnTrackSubscribed, CallbackOnly, linkVars, outVars
      <4>36. CASE PeerGoes
        BY <3>1, <4>36 DEF PeerGoes, taskVars, outVars, roomVars
      <4>37. CASE UNCHANGED vars
        BY <3>1, <4>37 DEF vars, roomVars
      <4>38. QED
        BY <3>1, <4>1, <4>2, <4>3, <4>4, <4>5, <4>6, <4>7, <4>8, <4>9, <4>10, <4>11, <4>12,
     <4>13, <4>14, <4>15, <4>16, <4>17, <4>18, <4>19, <4>20, <4>21, <4>22,
     <4>23, <4>24, <4>25, <4>26, <4>27, <4>28, <4>29, <4>30, <4>31, <4>32,
     <4>33, <4>34, <4>35, <4>36, <4>37
           DEF Next, Output, Voicebot, Client, Reader, Livekit, Callbacks
    <3>2. QED
      BY <1>1, <2>3, <3>1
  <2>4. QED
    BY <2>2, <2>3
<1>2. IInv /\ [Next]_vars => [callback = "asked" => callback' # "fires"]_vars
  BY <1>1
<1>3. QED
  BY <1>2, Invariance, PTL DEF Spec, IntentIsSilent
=============================================================================
