-------------------------- MODULE HttpClientProofs --------------------------
(***************************************************************************)
(* Proofs about HttpClient, for any requests, sockets and watchers.        *)
(***************************************************************************)
EXTENDS HttpClient, FiniteSetTheorems, TLAPS

(***************************************************************************)
(* The invariant of the watchers, part by part.                            *)
(***************************************************************************)
Cell == [state : {"free", "live", "deleted"}] \cup
        [state : {"live", "deleted"}, fd : Fds, action : Polls]

Shapes ==
  /\ DOMAIN sockets \subseteq Fds
  /\ \A fd \in DOMAIN sockets :
       sockets[fd] \in [req : Requests, poll : Polls, watcher : Watchers]
  /\ heap \in [Watchers -> Cell]
  /\ conn \in [Requests -> Watchers \cup {Unset}]
  /\ transfer \in [Requests -> {"new", "refused", "running", "finished", "completed"}]
  /\ finished \in Seq(Requests)
  /\ doomed \in Watchers \cup {None}

\* A watcher that is or was in use is never given out again, and that of an
\* open socket is known to no request but the socket's own, which still runs.
Owned ==
  /\ \A fd \in DOMAIN sockets :
       /\ transfer[sockets[fd].req] = "running"
       /\ \A r \in Requests : conn[r] = sockets[fd].watcher => sockets[fd].req = r
  /\ \A r \in Requests : conn[r] # Unset => heap[conn[r]].state # "free"
  /\ doomed # None => heap[doomed].state # "free"

\* curl's messages are about transfers that finished, one for each.
Reported ==
  /\ \A i \in 1 .. Len(finished) : transfer[finished[i]] = "finished"
  /\ \A i, j \in 1 .. Len(finished) : finished[i] = finished[j] => i = j

WatchInv == Shapes /\ Owned /\ Reported /\ WatchersMatchCurl

(***************************************************************************)
(* The watchers and the sockets.                                           *)
(***************************************************************************)
\* The watcher of an open socket is alive and holds the socket.
LEMMA WatcherOf ==
  ASSUME WatchersMatchCurl, NEW fd \in DOMAIN sockets
  PROVE  /\ heap[sockets[fd].watcher].state = "live"
         /\ heap[sockets[fd].watcher].fd = fd
<1>1. heap[sockets[fd].watcher] = [state |-> "live", fd |-> fd, action |-> sockets[fd].poll]
  BY DEF WatchersMatchCurl
<1> QED BY <1>1

LEMMA WatchInit == Init => WatchInv
<1> SUFFICES ASSUME Init PROVE WatchInv
  OBVIOUS
<1>1. /\ sockets = <<>> /\ finished = <<>> /\ callbacks = <<>> /\ doomed = None
      /\ heap = [w \in Watchers |-> [state |-> "free"]]
      /\ transfer = [r \in Requests |-> "new"] /\ conn = [r \in Requests |-> Unset]
  BY DEF Init
<1>2. DOMAIN sockets = {} /\ DOMAIN callbacks = {} /\ Len(finished) = 0
  BY <1>1
<1>3. Shapes
  BY <1>1, <1>2 DEF Shapes, Cell
<1>4. Owned /\ Reported
  BY <1>1, <1>2 DEF Owned, Reported
<1> QED BY <1>2, <1>3, <1>4 DEF WatchInv, WatchersMatchCurl

\* Requests that are sent and that finish.
LEMMA TransferStep ==
  ASSUME WatchInv, NEW r \in Requests, SendRequest(r) \/ SendFails(r)
  PROVE  WatchInv'
<1>1. /\ transfer[r] = "new"
      /\ \E s \in {"running", "refused"} : transfer' = [transfer EXCEPT ![r] = s]
      /\ sockets' = sockets /\ finished' = finished /\ heap' = heap
      /\ callbacks' = callbacks /\ conn' = conn /\ doomed' = doomed
  BY DEF SendRequest, SendFails, watch
<1>2. Shapes' /\ WatchersMatchCurl'
  BY <1>1 DEF WatchInv, Shapes, WatchersMatchCurl
<1>3. \A q \in Requests : q # r => transfer'[q] = transfer[q]
  BY <1>1 DEF WatchInv, Shapes
<1>4. Owned'
  BY <1>1, <1>3 DEF WatchInv, Shapes, Owned
<1>5. Reported'
  <2>1. \A i \in 1 .. Len(finished) : finished[i] \in Requests
    BY DEF WatchInv, Shapes
  <2> QED BY <2>1, <1>1, <1>3 DEF WatchInv, Reported
<1> QED BY <1>2, <1>4, <1>5 DEF WatchInv

LEMMA FinishStep ==
  ASSUME WatchInv, NEW r \in Requests, Finish(r)
  PROVE  WatchInv'
<1>1. /\ transfer[r] = "running" /\ transfer' = [transfer EXCEPT ![r] = "finished"]
      /\ \A fd \in DOMAIN sockets : sockets[fd].req # r
      /\ finished' = Append(finished, r)
      /\ sockets' = sockets /\ heap' = heap
      /\ callbacks' = callbacks /\ conn' = conn /\ doomed' = doomed
  BY DEF Finish, watch
<1>2. Shapes' /\ WatchersMatchCurl'
  BY <1>1 DEF WatchInv, Shapes, WatchersMatchCurl
<1>3. /\ transfer'[r] = "finished"
      /\ \A q \in Requests : q # r => transfer'[q] = transfer[q]
  BY <1>1 DEF WatchInv, Shapes
<1>4. Owned'
  BY <1>1, <1>3 DEF WatchInv, Shapes, Owned
<1>5. Reported'
  <2>1. /\ finished \in Seq(Requests) /\ Len(finished) \in Nat
        /\ Len(finished') = Len(finished) + 1
        /\ finished'[Len(finished) + 1] = r
        /\ \A i \in 1 .. Len(finished) : finished'[i] = finished[i]
    BY <1>1 DEF WatchInv, Shapes
  <2>2. \A i \in 1 .. Len(finished) : finished[i] \in Requests /\ finished[i] # r
    BY <1>1, <2>1 DEF WatchInv, Reported
  <2>3. \A i \in 1 .. Len(finished') : i \in 1 .. Len(finished) \/ i = Len(finished) + 1
    BY <2>1
  <2>4. \A i \in 1 .. Len(finished') : transfer'[finished'[i]] = "finished"
    BY <1>3, <2>1, <2>2, <2>3 DEF WatchInv, Reported
  <2>5. \A i, j \in 1 .. Len(finished') : finished'[i] = finished'[j] => i = j
    BY <2>1, <2>2, <2>3 DEF WatchInv, Reported
  <2> QED BY <2>4, <2>5 DEF Reported
<1> QED BY <1>2, <1>4, <1>5 DEF WatchInv

\* A new socket gets a watcher that nobody knows.
LEMMA OpenStep ==
  ASSUME WatchInv, NEW r \in Requests, NEW fd \in Fds, NEW poll \in Polls,
         OpenSocket(r, fd, poll)
  PROVE  WatchInv'
<1>1. PICK w \in Watchers :
        /\ heap[w].state = "free"
        /\ heap' = [heap EXCEPT ![w] = [state |-> "live", fd |-> fd, action |-> poll]]
        /\ conn' = [conn EXCEPT ![r] = w]
        /\ sockets' = Put(sockets, fd, [req |-> r, poll |-> poll, watcher |-> w])
        /\ callbacks' = Put(callbacks, fd, [who |-> w, events |-> poll])
  BY DEF OpenSocket
<1>2. /\ transfer[r] = "running" /\ fd \notin DOMAIN sockets
      /\ transfer' = transfer /\ finished' = finished /\ doomed' = doomed
  BY DEF OpenSocket
<1>3. /\ DOMAIN sockets' = DOMAIN sockets \cup {fd}
      /\ sockets'[fd] = [req |-> r, poll |-> poll, watcher |-> w]
      /\ \A g \in DOMAIN sockets : sockets'[g] = sockets[g]
      /\ DOMAIN callbacks' = DOMAIN callbacks \cup {fd}
      /\ callbacks'[fd] = [who |-> w, events |-> poll]
      /\ \A g \in DOMAIN callbacks : g # fd => callbacks'[g] = callbacks[g]
  BY <1>1, <1>2 DEF Put
<1>4. /\ heap'[w] = [state |-> "live", fd |-> fd, action |-> poll]
      /\ \A v \in Watchers : v # w => heap'[v] = heap[v]
      /\ conn'[r] = w /\ \A q \in Requests : q # r => conn'[q] = conn[q]
  BY <1>1 DEF WatchInv, Shapes
<1>5. Shapes'
  <2>1. [state |-> "live", fd |-> fd, action |-> poll] \in Cell
    BY DEF Cell
  <2>2. heap' \in [Watchers -> Cell] /\ conn' \in [Requests -> Watchers \cup {Unset}]
    BY <2>1, <1>1 DEF WatchInv, Shapes
  <2>3. \A g \in DOMAIN sockets' :
          sockets'[g] \in [req : Requests, poll : Polls, watcher : Watchers]
    BY <1>3 DEF WatchInv, Shapes
  <2> QED BY <2>2, <2>3, <1>2, <1>3 DEF WatchInv, Shapes
<1>6. \A g \in DOMAIN sockets : g # fd /\ sockets[g].watcher \in Watchers
                                /\ sockets[g].watcher # w /\ sockets[g].req \in Requests
  <2>1. \A g \in DOMAIN sockets : heap[sockets[g].watcher].state = "live"
    BY WatcherOf DEF WatchInv
  <2>2. \A g \in DOMAIN sockets : g # fd /\ sockets[g].watcher \in Watchers
                                  /\ sockets[g].req \in Requests
    BY <1>2 DEF WatchInv, Shapes
  <2> QED BY <2>1, <2>2, <1>1
<1>7. \A q \in Requests : conn[q] # w
  BY <1>1, RequestAssumption DEF WatchInv, Owned
<1>8. doomed # w
  BY <1>1, RequestAssumption DEF WatchInv, Owned
<1>9. Owned'
  <2>1. \A g \in DOMAIN sockets' :
          /\ transfer'[sockets'[g].req] = "running"
          /\ \A q \in Requests : conn'[q] = sockets'[g].watcher => sockets'[g].req = q
    BY <1>2, <1>3, <1>4, <1>6, <1>7 DEF WatchInv, Owned
  <2>2. \A q \in Requests : conn'[q] # Unset => heap'[conn'[q]].state # "free"
    BY <1>4, <1>7 DEF WatchInv, Owned, Shapes
  <2>3. doomed' # None => heap'[doomed'].state # "free"
    BY <1>2, <1>4, <1>8 DEF WatchInv, Owned, Shapes
  <2> QED BY <2>1, <2>2, <2>3 DEF Owned
<1>10. WatchersMatchCurl'
  BY <1>2, <1>3, <1>4, <1>6, <1>8 DEF WatchInv, WatchersMatchCurl
<1>11. Reported'
  BY <1>2 DEF WatchInv, Reported
<1> QED BY <1>5, <1>9, <1>10, <1>11 DEF WatchInv

\* The socket's watcher and the synchronizer learn what is asked now.
LEMMA ChangeStep ==
  ASSUME WatchInv, NEW fd \in Fds, NEW poll \in Polls, ChangeSocket(fd, poll)
  PROVE  WatchInv'
<1>1. PICK w : w = sockets[fd].watcher
  OBVIOUS
<1>2. /\ fd \in DOMAIN sockets
      /\ sockets' = [sockets EXCEPT ![fd].poll = poll]
      /\ heap' = [heap EXCEPT ![w].action = poll]
      /\ conn' = [conn EXCEPT ![sockets[fd].req] = w]
      /\ callbacks' = IF fd \in DOMAIN callbacks
                      THEN [callbacks EXCEPT ![fd].events = poll] ELSE callbacks
      /\ transfer' = transfer /\ finished' = finished /\ doomed' = doomed
  BY <1>1 DEF ChangeSocket
<1>3. PICK r : r = sockets[fd].req
  OBVIOUS
<1>4. /\ w \in Watchers /\ r \in Requests
      /\ sockets[fd] \in [req : Requests, poll : Polls, watcher : Watchers]
  BY <1>1, <1>2, <1>3 DEF WatchInv, Shapes
<1>5. /\ DOMAIN callbacks = DOMAIN sockets /\ w # doomed
      /\ callbacks[fd] = [who |-> w, events |-> sockets[fd].poll]
      /\ heap[w] = [state |-> "live", fd |-> fd, action |-> sockets[fd].poll]
  BY <1>1, <1>2 DEF WatchInv, WatchersMatchCurl
<1>6. /\ DOMAIN sockets' = DOMAIN sockets
      /\ sockets'[fd] = [req |-> r, poll |-> poll, watcher |-> w]
      /\ \A g \in DOMAIN sockets : g # fd => sockets'[g] = sockets[g]
  BY <1>1, <1>2, <1>3, <1>4
<1>7. /\ DOMAIN callbacks' = DOMAIN callbacks
      /\ callbacks'[fd] = [who |-> w, events |-> poll]
      /\ \A g \in DOMAIN callbacks : g # fd => callbacks'[g] = callbacks[g]
  BY <1>2, <1>5
<1>8. /\ heap'[w] = [state |-> "live", fd |-> fd, action |-> poll]
      /\ \A v \in Watchers : v # w => heap'[v] = heap[v]
      /\ conn'[r] = w /\ \A q \in Requests : q # r => conn'[q] = conn[q]
  BY <1>2, <1>3, <1>4, <1>5 DEF WatchInv, Shapes
<1>9. Shapes'
  <2>1. [state |-> "live", fd |-> fd, action |-> poll] \in Cell
    BY DEF Cell
  <2>2. heap' \in [Watchers -> Cell]
    BY <2>1, <1>2, <1>4, <1>8 DEF WatchInv, Shapes
  <2>3. conn' \in [Requests -> Watchers \cup {Unset}]
    BY <1>2, <1>4 DEF WatchInv, Shapes
  <2>4. \A g \in DOMAIN sockets' :
          sockets'[g] \in [req : Requests, poll : Polls, watcher : Watchers]
    BY <1>4, <1>6 DEF WatchInv, Shapes
  <2> QED BY <2>2, <2>3, <2>4, <1>2, <1>6 DEF WatchInv, Shapes
<1>10. \A g \in DOMAIN sockets : g # fd =>
         sockets[g].watcher # w /\ sockets[g].watcher \in Watchers
  <2>1. \A g \in DOMAIN sockets : heap[sockets[g].watcher].fd = g
    BY WatcherOf DEF WatchInv
  <2> QED BY <2>1, <1>5 DEF WatchInv, Shapes
<1>11. Owned'
  <2>1. ASSUME NEW g \in DOMAIN sockets'
        PROVE  /\ transfer'[sockets'[g].req] = "running"
               /\ \A q \in Requests : conn'[q] = sockets'[g].watcher => sockets'[g].req = q
    <3>1. CASE g = fd
      BY <3>1, <1>1, <1>2, <1>3, <1>6, <1>8 DEF WatchInv, Owned
    <3>2. CASE g # fd
      BY <3>2, <1>2, <1>6, <1>8, <1>10 DEF WatchInv, Owned
    <3> QED BY <3>1, <3>2
  <2>2. \A q \in Requests : conn'[q] # Unset => heap'[conn'[q]].state # "free"
    BY <1>8 DEF WatchInv, Owned, Shapes
  <2>3. doomed' # None => heap'[doomed'].state # "free"
    BY <1>2, <1>5, <1>8 DEF WatchInv, Owned, Shapes
  <2> QED BY <2>1, <2>2, <2>3 DEF Owned
<1>12. WatchersMatchCurl'
  <2>1. ASSUME NEW g \in DOMAIN sockets'
        PROVE  /\ callbacks'[g] = [who |-> sockets'[g].watcher, events |-> sockets'[g].poll]
               /\ heap'[sockets'[g].watcher] =
                    [state |-> "live", fd |-> g, action |-> sockets'[g].poll]
               /\ sockets'[g].watcher # doomed'
    <3>1. CASE g = fd
      BY <3>1, <1>2, <1>5, <1>6, <1>7, <1>8
    <3>2. CASE g # fd
      BY <3>2, <1>2, <1>5, <1>6, <1>7, <1>8, <1>10 DEF WatchInv, WatchersMatchCurl
    <3> QED BY <3>1, <3>2
  <2> QED BY <2>1, <1>5, <1>6, <1>7 DEF WatchersMatchCurl
<1>13. Reported'
  BY <1>2 DEF WatchInv, Reported
<1> QED BY <1>9, <1>11, <1>12, <1>13 DEF WatchInv

LEMMA CloseStep ==
  ASSUME WatchInv, NEW fd \in Fds, CloseSocket(fd)
  PROVE  WatchInv'
<1>1. /\ fd \in DOMAIN sockets /\ sockets' = Drop(sockets, fd)
      /\ callbacks' = Drop(callbacks, heap[sockets[fd].watcher].fd)
      /\ heap' = heap /\ conn' = conn
      /\ transfer' = transfer /\ finished' = finished /\ doomed' = doomed
  BY DEF CloseSocket
<1>2. heap[sockets[fd].watcher].fd = fd
  BY <1>1, WatcherOf DEF WatchInv
<1>3. /\ DOMAIN sockets' = DOMAIN sockets \ {fd}
      /\ \A g \in DOMAIN sockets' : sockets'[g] = sockets[g]
      /\ DOMAIN callbacks' = DOMAIN callbacks \ {fd}
      /\ \A g \in DOMAIN callbacks' : callbacks'[g] = callbacks[g]
  BY <1>1, <1>2 DEF Drop
<1>4. Shapes'
  BY <1>1, <1>3 DEF WatchInv, Shapes
<1>5. Owned' /\ Reported'
  BY <1>1, <1>3 DEF WatchInv, Owned, Reported
<1>6. WatchersMatchCurl'
  BY <1>1, <1>3 DEF WatchInv, WatchersMatchCurl
<1> QED BY <1>4, <1>5, <1>6 DEF WatchInv

\* What _checkForCompleted deletes belongs to no open socket.
LEMMA DeletedKeeps ==
  ASSUME WatchInv
  PROVE  /\ Deleted \in [Watchers -> Cell]
         /\ \A fd \in DOMAIN sockets : Deleted[sockets[fd].watcher] = heap[sockets[fd].watcher]
         /\ \A w \in Watchers : heap[w].state # "free" => Deleted[w].state # "free"
<1>1. \A w \in Watchers : heap[w] \in Cell /\ [heap[w] EXCEPT !.state = "deleted"] \in Cell
  BY DEF WatchInv, Shapes, Cell
<1>2. \A w \in Watchers : [heap[w] EXCEPT !.state = "deleted"].state = "deleted"
  BY <1>1 DEF Cell
<1>3. \A fd \in DOMAIN sockets : sockets[fd].watcher \in Watchers /\ sockets[fd].watcher # doomed
  BY DEF WatchInv, Shapes, WatchersMatchCurl
<1> QED BY <1>1, <1>2, <1>3 DEF Deleted

LEMMA ReapDoneStep ==
  ASSUME WatchInv, ReapDone
  PROVE  WatchInv'
<1>1. /\ heap' = Deleted /\ doomed' = None /\ sockets' = sockets /\ finished' = finished
      /\ callbacks' = callbacks /\ conn' = conn /\ transfer' = transfer
  BY DEF ReapDone, curl
<1>2. Shapes'
  BY <1>1, DeletedKeeps DEF WatchInv, Shapes
<1>3. Owned' /\ Reported'
  BY <1>1, DeletedKeeps DEF WatchInv, Shapes, Owned, Reported
<1>4. WatchersMatchCurl'
  <2>1. \A fd \in DOMAIN sockets : sockets[fd].watcher # None
    BY RequestAssumption DEF WatchInv, Shapes
  <2> QED BY <2>1, <1>1, DeletedKeeps DEF WatchInv, WatchersMatchCurl
<1> QED BY <1>2, <1>3, <1>4 DEF WatchInv

\* The request curl finished has no open socket left, so the watcher it knows
\* has none either.
LEMMA ReapStep ==
  ASSUME WatchInv, ReapNext \/ ReapUnset
  PROVE  WatchInv'
<1>1. PICK r : r = Head(finished)
  OBVIOUS
<1>2. /\ finished # <<>> /\ finished' = Tail(finished)
      /\ transfer' = [transfer EXCEPT ![r] = "completed"]
      /\ heap' = Deleted /\ sockets' = sockets /\ callbacks' = callbacks /\ conn' = conn
      /\ doomed' = IF conn[r] = Unset THEN None ELSE conn[r]
  BY <1>1 DEF ReapNext, ReapUnset, Complete
<1>3. /\ finished \in Seq(Requests) /\ r = finished[1] /\ 1 \in 1 .. Len(finished)
      /\ r \in Requests
  BY <1>1, <1>2 DEF WatchInv, Shapes
<1>4. transfer[r] = "finished"
  BY <1>3 DEF WatchInv, Reported
<1>5. \A fd \in DOMAIN sockets : /\ sockets[fd].req # r
                                 /\ sockets[fd].watcher # None
                                 /\ sockets[fd].watcher # conn[r]
                                 /\ sockets[fd].req \in Requests
  BY <1>3, <1>4, RequestAssumption DEF WatchInv, Shapes, Owned
<1>6. \A q \in Requests : q # r => transfer'[q] = transfer[q]
  BY <1>2 DEF WatchInv, Shapes
<1>7. Shapes'
  BY <1>2, <1>3, DeletedKeeps DEF WatchInv, Shapes
<1>8. Owned'
  <2>1. doomed' # None => doomed' \in Watchers /\ heap[doomed'].state # "free"
    BY <1>2, <1>3 DEF WatchInv, Shapes, Owned
  <2>2. \A q \in Requests : conn[q] # Unset => conn[q] \in Watchers
    BY DEF WatchInv, Shapes
  <2> QED BY <2>1, <2>2, <1>2, <1>5, <1>6, DeletedKeeps DEF WatchInv, Owned
<1>9. WatchersMatchCurl'
  BY <1>2, <1>5, DeletedKeeps DEF WatchInv, WatchersMatchCurl
<1>10. Reported'
  <2>1. /\ Len(finished') = Len(finished) - 1 /\ Len(finished) \in Nat
        /\ \A i \in 1 .. Len(finished') : finished'[i] = finished[i + 1]
    BY <1>2, <1>3
  <2>2. \A i \in 1 .. Len(finished') : i + 1 \in 1 .. Len(finished) /\ i + 1 # 1
    BY <2>1
  <2>3. \A i \in 1 .. Len(finished') : finished'[i] # r /\ finished'[i] \in Requests
    BY <2>1, <2>2, <1>3 DEF WatchInv, Reported
  <2>4. \A i \in 1 .. Len(finished') : transfer'[finished'[i]] = "finished"
    BY <2>1, <2>2, <2>3, <1>6 DEF WatchInv, Reported
  <2>5. ASSUME NEW i \in 1 .. Len(finished'), NEW j \in 1 .. Len(finished'),
               finished'[i] = finished'[j]
        PROVE  i = j
    <3>1. i + 1 = j + 1
      BY <2>1, <2>2, <2>5 DEF WatchInv, Reported
    <3> QED BY <3>1
  <2> QED BY <2>4, <2>5 DEF Reported
<1> QED BY <1>7, <1>8, <1>9, <1>10 DEF WatchInv

\* The other actions leave sockets, watchers and requests alone.
LEMMA OtherWatchStep ==
  ASSUME WatchInv, UNCHANGED <<transfer, sockets, finished, watch, doomed>>
  PROVE  WatchInv'
BY DEF WatchInv, Shapes, Owned, Reported, WatchersMatchCurl, watch

LEMMA WatchStep == WatchInv /\ [Next]_vars => WatchInv'
<1> SUFFICES ASSUME WatchInv, [Next]_vars PROVE WatchInv'
  OBVIOUS
<1>1. CASE \E r \in Requests : SendRequest(r) \/ SendFails(r) \/ Finish(r)
  BY <1>1, TransferStep, FinishStep
<1>2. CASE \E r \in Requests, fd \in Fds, poll \in Polls : OpenSocket(r, fd, poll)
  BY <1>2, OpenStep
<1>3. CASE \E fd \in Fds, poll \in Polls : ChangeSocket(fd, poll)
  BY <1>3, ChangeStep
<1>4. CASE \E fd \in Fds : CloseSocket(fd)
  BY <1>4, CloseStep
<1>5. CASE \E ms \in {-1, 0, 200, 1000} : SetTimer(ms)
  BY <1>5, OtherWatchStep DEF SetTimer
<1>6. CASE Sent \/ Report \/ CallTimer \/ TimerDone \/ CallWatcher \/ WatcherDone
  BY <1>6, OtherWatchStep DEF Sent, Report, CallTimer, TimerDone, CallWatcher, WatcherDone,
                              curl
<1>7. CASE ReapCrashes
  BY <1>7, OtherWatchStep DEF ReapCrashes, curl
<1>8. CASE ReapNext \/ ReapUnset \/ ReapDone
  BY <1>8, ReapStep, ReapDoneStep
<1>9. CASE UNCHANGED vars
  BY <1>9, OtherWatchStep DEF vars, curl
<1> QED BY <1>1, <1>2, <1>3, <1>4, <1>5, <1>6, <1>7, <1>8, <1>9 DEF Next

LEMMA WatchInvariant == Spec => []WatchInv
BY WatchInit, WatchStep, PTL DEF Spec

\* The synchronizer watches what curl has open, with a live watcher: nothing
\* that _checkForCompleted deletes is registered any more, for any number of
\* requests, sockets and completions in one call.
THEOREM WatchersMatchCurlCorrect == Spec => []WatchersMatchCurl
<1>1. WatchInv => WatchersMatchCurl
  BY DEF WatchInv
<1> QED BY WatchInvariant, <1>1, PTL

(***************************************************************************)
(* The handlers.                                                           *)
(***************************************************************************)
\* Whoever waits for a running request has a handler, or is just sending it.
Awaited ==
  /\ pc = "sending" => current \in Requests
  /\ \A r \in WithHandler :
       transfer[r] \in {"running", "finished"} =>
         r \in handlers \/ (pc = "sending" /\ current = r)

HandlerInv == Awaited /\ AnswersHandled

LEMMA HandlerInit == Init => HandlerInv
BY RequestAssumption DEF Init, HandlerInv, Awaited, AnswersHandled

LEMMA HandlerStep == HandlerInv /\ WatchInv /\ [Next]_vars => HandlerInv'
<1> SUFFICES ASSUME HandlerInv, WatchInv, [Next]_vars PROVE HandlerInv'
  OBVIOUS
<1> USE RequestAssumption DEF HandlerInv, Awaited, AnswersHandled
<1>1. ASSUME NEW r \in Requests, SendRequest(r) \/ SendFails(r) PROVE HandlerInv'
  <2>1. \A q \in WithHandler : q \in Requests /\ (q # r => transfer'[q] = transfer[q])
    BY <1>1 DEF SendRequest, SendFails, WatchInv, Shapes
  <2>2. pc = "idle" /\ UNCHANGED client
    BY <1>1 DEF SendRequest, SendFails
  <2>3. CASE SendRequest(r)
    BY <2>1, <2>2, <2>3 DEF SendRequest, client
  <2>4. CASE SendFails(r)
    <3>1. transfer'[r] = "refused" /\ pc' = pc
      BY <2>4 DEF SendFails, WatchInv, Shapes
    <3> QED BY <2>1, <2>2, <3>1 DEF client
  <2> QED BY <1>1, <2>3, <2>4
<1>2. ASSUME NEW r \in Requests, Finish(r) PROVE HandlerInv'
  BY <1>2 DEF Finish, client, WatchInv, Shapes
<1>3. ASSUME NEW r \in Requests, NEW fd \in Fds, NEW poll \in Polls, OpenSocket(r, fd, poll)
      PROVE  HandlerInv'
  BY <1>3 DEF OpenSocket, client
<1>4. ASSUME NEW fd \in Fds, NEW poll \in Polls, ChangeSocket(fd, poll) PROVE HandlerInv'
  BY <1>4 DEF ChangeSocket, client
<1>5. ASSUME NEW fd \in Fds, CloseSocket(fd) PROVE HandlerInv'
  BY <1>5 DEF CloseSocket, client
<1>6. ASSUME NEW ms \in Int, SetTimer(ms) PROVE HandlerInv'
  BY <1>6 DEF SetTimer, client
<1>7. CASE Sent
  BY <1>7 DEF Sent, curl
<1>8. CASE Report
  BY <1>8 DEF Report, curl, client
<1>9. CASE CallTimer \/ TimerDone
  BY <1>9 DEF CallTimer, TimerDone, curl, client
<1>10. CASE CallWatcher \/ WatcherDone
  BY <1>10 DEF CallWatcher, WatcherDone, curl, client
<1>11. CASE ReapCrashes \/ ReapDone
  BY <1>11 DEF ReapCrashes, ReapDone, curl, client
<1>12. CASE ReapNext \/ ReapUnset
  <2>1. PICK r : r = Head(finished)
    OBVIOUS
  <2>2. /\ pc = "reaping" /\ finished # <<>> /\ pc' \in {"reaping", "crashed"}
        /\ transfer' = [transfer EXCEPT ![r] = "completed"]
        /\ completed' = completed \cup {r}
        /\ answered' = answered \cup ({r} \cap handlers)
        /\ handlers' = handlers \ {r}
    BY <1>12, <2>1 DEF ReapNext, ReapUnset, Complete
  <2>3. r \in Requests /\ transfer[r] = "finished"
    <3>1. finished \in Seq(Requests) /\ r = finished[1] /\ 1 \in 1 .. Len(finished)
      BY <2>1, <2>2 DEF WatchInv, Shapes
    <3> QED BY <3>1 DEF WatchInv, Reported
  <2>4. r \in WithHandler => r \in handlers
    BY <2>2, <2>3
  <2> QED BY <2>2, <2>3, <2>4 DEF WatchInv, Shapes
<1>13. CASE UNCHANGED vars
  BY <1>13 DEF vars, curl, client
<1> QED BY <1>1, <1>2, <1>3, <1>4, <1>5, <1>6, <1>7, <1>8, <1>9, <1>10, <1>11, <1>12, <1>13
        DEF Next

\* A response that somebody waits for finds its handler, although it is entered
\* only after curl has begun with the request.
THEOREM AnswersHandledCorrect == Spec => []AnswersHandled
<1>1. HandlerInv => AnswersHandled
  BY DEF HandlerInv
<1> QED BY HandlerInit, HandlerStep, WatchInvariant, <1>1, PTL DEF Spec

(***************************************************************************)
(* The types.  A batch is a sequence of callbacks that are ready;          *)
(* what waits to be deleted is a watcher that is still alive, because no   *)
(* two requests share one and a request is completed once.                 *)
(***************************************************************************)
\* What the batch is made of.
LEMMA ReportType ==
  ASSUME WatchInv, Report
  PROVE  batch' \in Seq(Watchers \cup {Timer})
<1> DEFINE W == Watchers \cup {Timer}
<1>1. DOMAIN callbacks = DOMAIN sockets /\ DOMAIN sockets \subseteq Fds
      /\ \A fd \in DOMAIN callbacks : callbacks[fd].who \in Watchers
  <2>1. DOMAIN callbacks = DOMAIN sockets /\ DOMAIN sockets \subseteq Fds
    BY DEF WatchInv, Shapes, WatchersMatchCurl
  <2>2. ASSUME NEW fd \in DOMAIN callbacks PROVE callbacks[fd].who \in Watchers
    <3>1. /\ callbacks[fd] = [who |-> sockets[fd].watcher, events |-> sockets[fd].poll]
          /\ sockets[fd] \in [req : Requests, poll : Polls, watcher : Watchers]
      BY <2>1 DEF WatchInv, Shapes, WatchersMatchCurl
    <3>2. callbacks[fd].who = sockets[fd].watcher
      BY <3>1
    <3> QED BY <3>1, <3>2
  <2> QED BY <2>1, <2>2
<1>2. IsFiniteSet(Sources) /\ Sources \subseteq W
  <2>1. IsFiniteSet(DOMAIN callbacks)
    BY <1>1, RequestAssumption, FS_Subset
  <2>2. IsFiniteSet({callbacks[fd].who : fd \in DOMAIN callbacks})
    <3> DEFINE f == [fd \in DOMAIN callbacks |-> callbacks[fd].who]
               I == {f[fd] : fd \in DOMAIN callbacks}
    <3>1. f \in Surjection(DOMAIN callbacks, I)
      BY DEF Surjection
    <3>2. IsFiniteSet(I)
      <4> HIDE DEF f, I
      <4> QED BY <2>1, <3>1, FS_Surjection
    <3>3. I = {callbacks[fd].who : fd \in DOMAIN callbacks}
      OBVIOUS
    <3> QED BY <3>2, <3>3
  <2>3. IsFiniteSet(IF timerfd # "off" THEN {Timer} ELSE {})
    BY FS_EmptySet, FS_Singleton
  <2>4. IsFiniteSet(Sources)
    BY <2>2, <2>3, FS_Union DEF Sources
  <2>5. Sources \subseteq W
    BY <1>1 DEF Sources
  <2> QED BY <2>4, <2>5
<1>3. PICK ready \in SUBSET Sources \ {{}} : batch' \in Batches(ready)
  BY DEF Report
<1>4. Cardinality(ready) \in Nat
  BY <1>2, <1>3, FS_Subset, FS_CardinalityType
<1>5. PICK n \in 1 .. 2 * Cardinality(ready) : batch' \in [1 .. n -> ready]
  BY <1>3 DEF Batches
<1>6. n \in Nat /\ ready \subseteq W
  BY <1>2, <1>3, <1>4
<1>7. PICK b : b = batch'
  OBVIOUS
<1>8. b \in [1 .. n -> W]
  BY <1>5, <1>6, <1>7
<1>9. b \in Seq(W)
  <2> HIDE DEF W
  <2> QED BY <1>6, <1>8
<1> QED BY <1>7, <1>9

\* No two requests know the same watcher, and the one that a request curl
\* still has knows is alive and not about to be deleted.
Kept ==
  /\ \A r, q \in Requests : conn[r] = conn[q] /\ conn[r] # Unset => r = q
  /\ \A r \in Requests : transfer[r] = "new" => conn[r] = Unset
  /\ \A r \in Requests : transfer[r] \in {"running", "finished"} /\ conn[r] # Unset =>
       heap[conn[r]].state = "live" /\ conn[r] # doomed
  /\ doomed # None => heap[doomed].state = "live"

Plain ==
  /\ pc \in {"idle", "sending", "timer", "watcher", "reaping", "crashed"}
  /\ current \in Requests \cup Watchers \cup {None}
  /\ batch \in Seq(Watchers \cup {Timer})
  /\ timerfd \in {"off", "running", "expired"}
  /\ handlers \subseteq WithHandler
  /\ answered \subseteq completed /\ completed \subseteq Requests

\* The plain variables.
LEMMA PlainNext == Plain /\ HandlerInv /\ WatchInv /\ [Next]_vars => Plain'
<1> SUFFICES ASSUME Plain, HandlerInv, WatchInv, [Next]_vars PROVE Plain'
  OBVIOUS
<1> USE DEF Plain
<1>1. ASSUME NEW r \in Requests, SendRequest(r) \/ SendFails(r) \/ Finish(r) PROVE Plain'
  BY <1>1 DEF SendRequest, SendFails, Finish, client
<1>2. ASSUME NEW r \in Requests, NEW fd \in Fds, NEW poll \in Polls, OpenSocket(r, fd, poll)
      PROVE  Plain'
  BY <1>2 DEF OpenSocket, client
<1>3. ASSUME NEW fd \in Fds, NEW poll \in Polls, ChangeSocket(fd, poll) PROVE Plain'
  BY <1>3 DEF ChangeSocket, client
<1>4. ASSUME NEW fd \in Fds, CloseSocket(fd) PROVE Plain'
  BY <1>4 DEF CloseSocket, client
<1>5. ASSUME NEW ms \in Int, SetTimer(ms) PROVE Plain'
  BY <1>5 DEF SetTimer, client
<1>6. CASE Sent
  BY <1>6 DEF Sent, curl
<1>7. CASE Report
  BY <1>7, ReportType DEF Report, curl, client
<1>8. CASE CallTimer \/ CallWatcher
  <2>1. /\ batch # <<>> /\ batch' = Tail(batch)
        /\ pc' \in {"timer", "watcher", "crashed"}
        /\ \/ current' = current
           \/ current' = Head(batch) /\ Head(batch) # Timer
        /\ timerfd' \in {"off", "running", "expired"} /\ UNCHANGED client
    <3>1. CASE CallTimer
      BY <3>1 DEF CallTimer
    <3>2. CASE CallWatcher
      BY <3>2 DEF CallWatcher, curl
    <3> QED BY <1>8, <3>1, <3>2
  <2>2. batch' \in Seq(Watchers \cup {Timer}) /\ Head(batch) \in Watchers \cup {Timer}
    BY <2>1
  <2> QED BY <2>1, <2>2 DEF client
<1>9. CASE TimerDone \/ WatcherDone \/ ReapCrashes \/ ReapDone
  BY <1>9 DEF TimerDone, WatcherDone, ReapCrashes, ReapDone, curl, client
<1>10. CASE ReapNext \/ ReapUnset
  <2>1. Head(finished) \in Requests
    BY <1>10 DEF ReapNext, ReapUnset, WatchInv, Shapes
  <2> QED BY <1>10, <2>1 DEF ReapNext, ReapUnset, Complete
<1>11. CASE UNCHANGED vars
  BY <1>11 DEF vars, curl, client
<1> QED BY <1>1, <1>2, <1>3, <1>4, <1>5, <1>6, <1>7, <1>8, <1>9, <1>10, <1>11 DEF Next

\* What waits to be deleted is alive.
LEMMA KeptNext == Kept /\ WatchInv /\ WatchInv' /\ [Next]_vars => Kept'
<1> SUFFICES ASSUME Kept, WatchInv, WatchInv', [Next]_vars PROVE Kept'
  OBVIOUS
<1>a. Shapes /\ Owned /\ Reported /\ WatchersMatchCurl
  BY DEF WatchInv
<1>1. ASSUME UNCHANGED <<transfer, conn, heap, doomed>> PROVE Kept'
  BY <1>1 DEF Kept
<1>2. ASSUME NEW r \in Requests, SendRequest(r) \/ SendFails(r) PROVE Kept'
  <2>1. /\ transfer[r] = "new" /\ UNCHANGED <<conn, heap, doomed>>
        /\ \E s \in {"running", "refused"} : transfer' = [transfer EXCEPT ![r] = s]
    BY <1>2 DEF SendRequest, SendFails, watch
  <2>2. /\ \A q \in Requests : q # r => transfer'[q] = transfer[q]
        /\ conn[r] = Unset /\ transfer'[r] # "new"
    BY <1>a, <2>1 DEF Shapes, Kept
  <2> QED BY <2>1, <2>2 DEF Kept
<1>3. ASSUME NEW r \in Requests, Finish(r) PROVE Kept'
  <2>1. /\ transfer[r] = "running" /\ UNCHANGED <<conn, heap, doomed>>
        /\ transfer' = [transfer EXCEPT ![r] = "finished"]
    BY <1>3 DEF Finish, watch
  <2>2. /\ \A q \in Requests : q # r => transfer'[q] = transfer[q]
        /\ transfer'[r] = "finished"
    BY <1>a, <2>1 DEF Shapes
  <2> QED BY <2>1, <2>2 DEF Kept
<1>4. ASSUME NEW r \in Requests, NEW fd \in Fds, NEW poll \in Polls, OpenSocket(r, fd, poll)
      PROVE  Kept'
  <2>1. PICK w \in Watchers :
          /\ heap[w].state = "free" /\ transfer[r] = "running"
          /\ heap' = [heap EXCEPT ![w] = [state |-> "live", fd |-> fd, action |-> poll]]
          /\ conn' = [conn EXCEPT ![r] = w]
          /\ transfer' = transfer /\ doomed' = doomed
    BY <1>4 DEF OpenSocket
  <2>2. /\ \A q \in Requests : conn[q] # w
        /\ doomed # w /\ w # Unset /\ w # None
    BY <1>a, <2>1, RequestAssumption DEF Owned, Shapes
  <2>3. /\ heap'[w].state = "live"
        /\ \A v \in Watchers : v # w => heap'[v] = heap[v]
        /\ conn'[r] = w /\ \A q \in Requests : q # r => conn'[q] = conn[q]
        /\ \A q \in Requests : conn[q] \in Watchers \cup {Unset}
        /\ doomed \in Watchers \cup {None}
    BY <1>a, <2>1 DEF Shapes
  <2>4. \A q, p \in Requests : conn'[q] = conn'[p] /\ conn'[q] # Unset => q = p
    BY <2>2, <2>3 DEF Kept
  <2>5. \A q \in Requests : transfer'[q] = "new" => conn'[q] = Unset
    BY <2>1, <2>3 DEF Kept
  <2>6. ASSUME NEW q \in Requests, transfer'[q] \in {"running", "finished"}, conn'[q] # Unset
        PROVE  heap'[conn'[q]].state = "live" /\ conn'[q] # doomed'
    <3>1. CASE q = r
      BY <2>1, <2>2, <2>3, <3>1
    <3>2. CASE q # r
      BY <2>1, <2>2, <2>3, <2>6, <3>2 DEF Kept
    <3> QED BY <3>1, <3>2
  <2>7. doomed' # None => heap'[doomed'].state = "live"
    BY <2>1, <2>2, <2>3 DEF Kept
  <2> QED BY <2>4, <2>5, <2>6, <2>7 DEF Kept
<1>5. ASSUME NEW fd \in Fds, NEW poll \in Polls, ChangeSocket(fd, poll) PROVE Kept'
  <2>1. PICK w, r : w = sockets[fd].watcher /\ r = sockets[fd].req
    OBVIOUS
  <2>2. /\ fd \in DOMAIN sockets
        /\ heap' = [heap EXCEPT ![w].action = poll]
        /\ conn' = [conn EXCEPT ![r] = w]
        /\ transfer' = transfer /\ doomed' = doomed
    BY <1>5, <2>1 DEF ChangeSocket
  <2>3. /\ w \in Watchers /\ r \in Requests /\ w # doomed /\ transfer[r] = "running"
        /\ \A q \in Requests : conn[q] = w => q = r
        /\ heap[w] = [state |-> "live", fd |-> fd, action |-> sockets[fd].poll]
    BY <1>a, <2>1, <2>2 DEF Shapes, Owned, WatchersMatchCurl
  <2>4. /\ heap'[w].state = "live"
        /\ \A v \in Watchers : v # w => heap'[v] = heap[v]
        /\ conn'[r] = w /\ \A q \in Requests : q # r => conn'[q] = conn[q]
        /\ \A q \in Requests : conn[q] \in Watchers \cup {Unset}
        /\ doomed \in Watchers \cup {None}
    BY <1>a, <2>2, <2>3 DEF Shapes
  <2>5. \A q, p \in Requests : conn'[q] = conn'[p] /\ conn'[q] # Unset => q = p
    BY <2>3, <2>4 DEF Kept
  <2>6. \A q \in Requests : transfer'[q] = "new" => conn'[q] = Unset
    BY <2>2, <2>3, <2>4 DEF Kept
  <2>7. ASSUME NEW q \in Requests, transfer'[q] \in {"running", "finished"}, conn'[q] # Unset
        PROVE  heap'[conn'[q]].state = "live" /\ conn'[q] # doomed'
    <3>1. CASE q = r
      BY <2>2, <2>3, <2>4, <3>1
    <3>2. CASE q # r
      BY <2>2, <2>3, <2>4, <2>7, <3>2 DEF Kept
    <3> QED BY <3>1, <3>2
  <2>8. doomed' # None => heap'[doomed'].state = "live"
    BY <2>2, <2>3, <2>4 DEF Kept
  <2> QED BY <2>5, <2>6, <2>7, <2>8 DEF Kept
<1>6. ASSUME NEW fd \in Fds, CloseSocket(fd) PROVE Kept'
  BY <1>1, <1>6 DEF CloseSocket
<1>7. ASSUME NEW ms \in Int, SetTimer(ms) PROVE Kept'
  BY <1>1, <1>7 DEF SetTimer, watch
<1>8. CASE Sent \/ Report \/ CallTimer \/ TimerDone \/ CallWatcher \/ WatcherDone \/ ReapCrashes
  BY <1>1, <1>8 DEF Sent, Report, CallTimer, TimerDone, CallWatcher, WatcherDone,
                    ReapCrashes, watch, curl
<1>9. \A w \in Watchers : w # doomed => Deleted[w] = heap[w]
  BY DEF Deleted
<1>10. CASE ReapDone
  <2>1. heap' = Deleted /\ doomed' = None /\ UNCHANGED <<transfer, conn>>
    BY <1>10 DEF ReapDone, curl
  <2>2. \A q \in Requests : conn[q] # Unset => conn[q] \in Watchers /\ conn[q] # None
    BY <1>a, RequestAssumption DEF Shapes
  <2> QED BY <1>9, <2>1, <2>2 DEF Kept
<1>11. CASE ReapNext \/ ReapUnset
  <2>1. PICK r : r = Head(finished)
    OBVIOUS
  <2>2. /\ finished # <<>> /\ heap' = Deleted /\ conn' = conn
        /\ transfer' = [transfer EXCEPT ![r] = "completed"]
        /\ doomed' = IF conn[r] = Unset THEN None ELSE conn[r]
    BY <1>11, <2>1 DEF ReapNext, ReapUnset, Complete
  <2>3. r \in Requests /\ transfer[r] = "finished"
    <3>1. r = finished[1] /\ 1 \in 1 .. Len(finished) /\ r \in Requests
      BY <1>a, <2>1, <2>2 DEF Shapes
    <3> QED BY <1>a, <3>1 DEF Reported
  <2>4. /\ \A q \in Requests : conn[q] # Unset => conn[q] \in Watchers /\ conn[q] # None
        /\ \A q \in Requests : q # r => transfer'[q] = transfer[q]
        /\ transfer'[r] = "completed"
    BY <1>a, <2>2, <2>3, RequestAssumption DEF Shapes
  <2>5. ASSUME NEW q \in Requests, transfer'[q] \in {"running", "finished"}, conn'[q] # Unset
        PROVE  heap'[conn'[q]].state = "live" /\ conn'[q] # doomed'
    <3>1. q # r /\ transfer[q] = transfer'[q] /\ conn[q] # Unset
      BY <2>2, <2>4, <2>5
    <3>2. heap[conn[q]].state = "live" /\ conn[q] # doomed
      BY <2>5, <3>1 DEF Kept
    <3>3. conn[q] # conn[r]
      BY <2>3, <3>1 DEF Kept
    <3> QED BY <1>9, <2>2, <2>4, <3>1, <3>2, <3>3
  <2>6. doomed' # None => heap'[doomed'].state = "live"
    <3> SUFFICES ASSUME doomed' # None PROVE heap'[doomed'].state = "live"
      OBVIOUS
    <3>1. conn[r] # Unset /\ doomed' = conn[r]
      BY <2>2
    <3>2. heap[conn[r]].state = "live" /\ conn[r] # doomed
      BY <2>3, <3>1 DEF Kept
    <3> QED BY <1>9, <2>2, <2>3, <2>4, <3>1, <3>2
  <2> QED BY <2>2, <2>3, <2>4, <2>5, <2>6 DEF Kept
<1>12. CASE UNCHANGED vars
  BY <1>1, <1>12 DEF vars, curl, watch
<1> QED BY <1>2, <1>3, <1>4, <1>5, <1>6, <1>7, <1>8, <1>10, <1>11, <1>12 DEF Next

\* Every variable keeps its type, and no watcher is deleted twice.
THEOREM TypeCorrect == Spec => []TypeOK
<1>1. Init => Plain /\ Kept
  <2> SUFFICES ASSUME Init PROVE Plain /\ Kept
    OBVIOUS
  <2>1. <<>> \in Seq(Watchers \cup {Timer})
    OBVIOUS
  <2>2. Plain
    BY <2>1 DEF Init, Plain
  <2>3. Kept
    BY DEF Init, Kept
  <2> QED BY <2>2, <2>3
<1>2. Plain /\ Kept /\ WatchInv => TypeOK
  <2> SUFFICES ASSUME Plain, Kept, WatchInv PROVE TypeOK
    OBVIOUS
  <2>1. \A w \in Watchers : heap[w].state \in {"free", "live", "deleted"}
    BY DEF WatchInv, Shapes, Cell
  <2>2. DOMAIN sockets \subseteq Fds /\ DOMAIN callbacks \subseteq Fds
    BY DEF WatchInv, Shapes, WatchersMatchCurl
  <2>3. doomed = None \/ doomed \in {w \in Watchers : Live(w)}
    BY DEF WatchInv, Shapes, Kept, Live
  <2> QED BY <2>1, <2>2, <2>3 DEF WatchInv, Shapes, Plain, TypeOK
<1> QED
  BY <1>1, <1>2, PlainNext, KeptNext, HandlerInit, HandlerStep, WatchInvariant, PTL DEF Spec
=============================================================================
