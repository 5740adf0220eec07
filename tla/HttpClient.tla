----------------------------- MODULE HttpClient -----------------------------
(***************************************************************************)
(* The light sensor's HTTP client: libcurl's multi interface driven by the *)
(* synchronizer.  curl asks through _socketFunc which sockets are to be    *)
(* watched; each gets a SocketWatcher, a callback of the synchronizer,     *)
(* which calls curl back when its socket is ready and then completes the   *)
(* requests curl has finished, deleting their watchers - itself, maybe, or *)
(* another one of the same batch of events.                                *)
(*                                                                         *)
(* curl is external: in every call it may open, change and close the       *)
(* sockets of any running transfer, finish it once its sockets are closed, *)
(* and ask for a timer.  Everything runs on the main thread; requests are  *)
(* sent by commands, between two batches.                                  *)
(***************************************************************************)
EXTENDS Integers, Sequences, FiniteSets

CONSTANTS
  Requests,   \* each is sent once
  WithHandler,   \* those whose response somebody waits for
  Fds,        \* the sockets curl opens
  Watchers    \* the SocketWatchers that can be allocated

VARIABLES
  pc,         \* what the main thread is doing
  current,    \* the request being sent, or the watcher being called
  batch,      \* epoll_wait's events: the callbacks still to be called
  transfer,   \* curl's view of each request
  sockets,    \* curl's open sockets: request, action and assigned watcher
  finished,   \* curl's queue of CURLMSG_DONE messages
  timerfd,    \* off, running, or expired and reported by the batch
  heap,       \* whether each watcher is allocated, its _sockfd and _action
  callbacks,  \* the synchronizer's: watcher and events of each socket
  conn,       \* ConnParam::socketWatcher of each request
  doomed,     \* toBeDeleted
  handlers,   \* _respHandlers
  completed,  \* requests reported to the client
  answered    \* those whose handler was called

curl   == <<transfer, sockets, finished, timerfd>>
watch  == <<heap, callbacks, conn>>
client == <<handlers, completed, answered>>
vars   == <<pc, current, batch, curl, watch, doomed, client>>

None  == "none"
Unset == "unset"   \* an uninitialized pointer
Timer == "timer"
Polls == {{"in"}, {"out"}, {"in", "out"}}   \* CURL_POLL_IN, _OUT, _INOUT

ASSUME RequestAssumption ==
  /\ WithHandler \subseteq Requests /\ Watchers \cap {None, Unset, Timer} = {}
  /\ IsFiniteSet(Fds)   \* a process has a limited number of descriptors

Put(f, x, y) == [z \in DOMAIN f \cup {x} |-> IF z = x THEN y ELSE f[z]]
Drop(f, x)   == [z \in DOMAIN f \ {x} |-> f[z]]

Init ==
  /\ pc = "idle" /\ current = None
  /\ batch = <<>>
  /\ transfer = [r \in Requests |-> "new"]
  /\ sockets = <<>> /\ finished = <<>>
  /\ timerfd = "off"
  /\ heap = [w \in Watchers |-> [state |-> "free"]]
  /\ callbacks = <<>>
  /\ conn = [r \in Requests |-> Unset]
  /\ doomed = None
  /\ handlers = {} /\ completed = {} /\ answered = {}

Live(w) == heap[w].state = "live"
----------------------------------------------------------------------------
(***************************************************************************)
(* _sendCloudRequest and initRequest, up to the call of curl.              *)
(***************************************************************************)
SendRequest(r) ==
  /\ pc = "idle" /\ batch = <<>> /\ transfer[r] = "new"
  /\ transfer' = [transfer EXCEPT ![r] = "running"]
  /\ pc' = "sending" /\ current' = r
  /\ UNCHANGED <<batch, sockets, finished, timerfd, watch, doomed, client>>

\* curl_easy_init or curl_multi_add_handle failed: nobody is told.
SendFails(r) ==
  /\ pc = "idle" /\ batch = <<>> /\ transfer[r] = "new"
  /\ transfer' = [transfer EXCEPT ![r] = "refused"]
  /\ UNCHANGED <<pc, current, batch, sockets, finished, timerfd, watch, doomed, client>>

SentReaps ==   \* mutant: what curl finished is reaped before the handler is known
  /\ pc = "sending"
  /\ IF finished = <<>>
     THEN pc' = "idle" /\ UNCHANGED <<finished, completed, answered>>
          /\ handlers' = handlers \cup ({current} \cap WithHandler)
     ELSE /\ finished' = Tail(finished)
          /\ completed' = completed \cup {Head(finished)}
          /\ answered' = answered \cup ({Head(finished)} \cap handlers)
          /\ handlers' = handlers \ {Head(finished)}
          /\ UNCHANGED pc
  /\ UNCHANGED <<current, batch, transfer, sockets, timerfd, watch, doomed>>
\* curl returned: only now the handler is entered.
Sent ==
  /\ pc = "sending"
  /\ handlers' = handlers \cup ({current} \cap WithHandler)
  /\ pc' = "idle" /\ current' = None
  /\ UNCHANGED <<batch, curl, watch, doomed, completed, answered>>

----------------------------------------------------------------------------
(***************************************************************************)
(* What curl does while it is called, through the client's callbacks.      *)
(***************************************************************************)
InCurl == pc \in {"sending", "timer", "watcher"}

\* _socketFunc for a socket without a watcher; the update that comes before
\* the synchronizer's append finds nothing.
OpenSocket(r, fd, poll) ==
  /\ InCurl /\ transfer[r] = "running" /\ fd \notin DOMAIN sockets
  /\ \E w \in Watchers :
       /\ heap[w].state = "free"
       /\ heap' = [heap EXCEPT ![w] = [state |-> "live", fd |-> fd, action |-> poll]]
       /\ conn' = [conn EXCEPT ![r] = w]
       /\ sockets' = Put(sockets, fd, [req |-> r, poll |-> poll, watcher |-> w])
       /\ callbacks' = Put(callbacks, fd, [who |-> w, events |-> poll])
  /\ UNCHANGED <<pc, current, batch, transfer, finished, timerfd, doomed, client>>

ChangeSocketOnly(fd, poll) ==   \* mutant: the synchronizer is not updated
  /\ InCurl /\ fd \in DOMAIN sockets /\ sockets[fd].poll # poll
  /\ sockets' = [sockets EXCEPT ![fd].poll = poll]
  /\ heap' = [heap EXCEPT ![sockets[fd].watcher].action = poll]
  /\ conn' = [conn EXCEPT ![sockets[fd].req] = sockets[fd].watcher]
  /\ UNCHANGED <<pc, current, batch, transfer, finished, timerfd, callbacks, doomed, client>>
\* _socketFunc for a socket that has one.
ChangeSocket(fd, poll) ==
  /\ InCurl /\ fd \in DOMAIN sockets /\ sockets[fd].poll # poll
  /\ sockets' = [sockets EXCEPT ![fd].poll = poll]
  /\ LET w == sockets[fd].watcher IN
       /\ heap' = [heap EXCEPT ![w].action = poll]
       /\ conn' = [conn EXCEPT ![sockets[fd].req] = w]
       /\ callbacks' = IF fd \in DOMAIN callbacks
                       THEN [callbacks EXCEPT ![fd].events = poll] ELSE callbacks
  /\ UNCHANGED <<pc, current, batch, transfer, finished, timerfd, doomed, client>>

\* _socketFunc with CURL_POLL_REMOVE: the watcher stays allocated.
CloseSocket(fd) ==
  /\ InCurl /\ fd \in DOMAIN sockets
  /\ callbacks' = Drop(callbacks, heap[sockets[fd].watcher].fd)
  /\ sockets' = Drop(sockets, fd)
  /\ UNCHANGED <<pc, current, batch, transfer, finished, timerfd, heap, conn, doomed, client>>

Finish(r) ==
  /\ InCurl /\ transfer[r] = "running"
  /\ \A fd \in DOMAIN sockets : sockets[fd].req # r
  /\ transfer' = [transfer EXCEPT ![r] = "finished"]
  /\ finished' = Append(finished, r)
  /\ UNCHANGED <<pc, current, batch, sockets, timerfd, watch, doomed, client>>

\* _multiTimerFunc and TimerFD::setTime.  Zero, which asks to be called at
\* once, disarms the timerfd; a second and more, and the -1 that takes the
\* timer back, are invalid nanoseconds and leave it as it was.
SetTimer(ms) ==
  /\ InCurl
  /\ timerfd' = CASE ms = 0 -> "off"
                  [] ms \in 1 .. 999 -> "running"
                  [] OTHER -> timerfd
  /\ UNCHANGED <<pc, current, batch, transfer, sockets, finished, watch, doomed, client>>

----------------------------------------------------------------------------
(***************************************************************************)
(* Synchronizer::synchronize: the batch and its raw pointers.              *)
(***************************************************************************)
\* Each ready callback once, or twice when its socket can be read and
\* written; in any order.
Sources == {callbacks[fd].who : fd \in DOMAIN callbacks}
             \cup (IF timerfd # "off" THEN {Timer} ELSE {})
Twice == {callbacks[fd].who : fd \in {f \in DOMAIN callbacks :
                                       callbacks[f].events = {"in", "out"}}}
Batches(ready) ==
  {b \in UNION {[1 .. n -> ready] : n \in 1 .. 2 * Cardinality(ready)} :
     /\ \A s \in ready : \E i \in DOMAIN b : b[i] = s
     /\ \A i, j \in DOMAIN b : i < j /\ b[i] = b[j] => j = i + 1 /\ b[i] \in Twice}

Report ==
  /\ pc = "idle" /\ batch = <<>>
  /\ \E ready \in SUBSET Sources \ {{}} :
       /\ batch' \in Batches(ready)
       /\ timerfd' = IF Timer \in ready THEN "expired" ELSE timerfd
  /\ UNCHANGED <<pc, current, transfer, sockets, finished, watch, doomed, client>>

\* TimerFD::read calls back whatever ::read returned.  A timer that an earlier
\* call of the batch set again has nothing to read and goes on running, unless
\* it has expired again.
CallTimer ==
  /\ pc = "idle" /\ batch # <<>> /\ Head(batch) = Timer
  /\ batch' = Tail(batch)
  /\ timerfd' \in IF timerfd = "running" THEN {"running", "off"} ELSE {"off"}
  /\ pc' = "timer"
  /\ UNCHANGED <<current, transfer, sockets, finished, watch, doomed, client>>

\* onTimer looks at nothing curl finished.
TimerDone ==
  /\ pc = "timer"
  /\ pc' = "idle"
  /\ UNCHANGED <<current, batch, curl, watch, doomed, client>>

\* The watcher may be one that an earlier call of the batch deleted.
CallWatcher ==
  /\ pc = "idle" /\ batch # <<>> /\ Head(batch) # Timer
  /\ batch' = Tail(batch)
  /\ current' = Head(batch)
  /\ pc' = IF Live(Head(batch)) THEN "watcher" ELSE "crashed"
  /\ UNCHANGED <<curl, watch, doomed, client>>

\* curl_multi_socket_action returned.
WatcherDone ==
  /\ pc = "watcher"
  /\ pc' = "reaping"
  /\ UNCHANGED <<current, batch, curl, watch, doomed, client>>

----------------------------------------------------------------------------
(***************************************************************************)
(* _checkForCompleted                                                      *)
(***************************************************************************)
Deleted == [w \in Watchers |-> IF w = doomed THEN [heap[w] EXCEPT !.state = "deleted"]
                                             ELSE heap[w]]

\* The loop reads _app of the watcher it runs in, which an earlier round may
\* have deleted.
ReapCrashes ==
  /\ pc = "reaping" /\ ~Live(current)
  /\ pc' = "crashed"
  /\ UNCHANGED <<current, batch, curl, watch, doomed, client>>

\* The request is reported, with its handler if there is one, and deleted;
\* its watcher waits for the next round.
Complete(r) ==
  /\ transfer' = [transfer EXCEPT ![r] = "completed"]
  /\ completed' = completed \cup {r}
  /\ answered' = answered \cup ({r} \cap handlers)
  /\ handlers' = handlers \ {r}

ReapNext ==
  /\ pc = "reaping" /\ Live(current) /\ finished # <<>>
  /\ conn[Head(finished)] # Unset
  /\ heap' = Deleted
  /\ doomed' = conn[Head(finished)]
  /\ finished' = Tail(finished)
  /\ Complete(Head(finished))
  /\ UNCHANGED <<pc, current, batch, sockets, timerfd, callbacks, conn>>

\* A request that never had a socket: socketWatcher was never set, and is
\* deleted unless it happens to be null.
ReapUnset ==
  /\ pc = "reaping" /\ Live(current) /\ finished # <<>>
  /\ conn[Head(finished)] = Unset
  /\ heap' = Deleted
  /\ doomed' = None
  /\ finished' = Tail(finished)
  /\ Complete(Head(finished))
  /\ pc' \in {"reaping", "crashed"}
  /\ UNCHANGED <<current, batch, sockets, timerfd, callbacks, conn>>

ReapDoneKeeps ==   \* mutant: toBeDeleted is not reset
  /\ pc = "reaping" /\ Live(current) /\ finished = <<>>
  /\ heap' = Deleted
  /\ pc' = "idle" /\ current' = None
  /\ UNCHANGED <<batch, curl, callbacks, conn, doomed, client>>
ReapDone ==
  /\ pc = "reaping" /\ Live(current) /\ finished = <<>>
  /\ heap' = Deleted
  /\ doomed' = None
  /\ pc' = "idle" /\ current' = None
  /\ UNCHANGED <<batch, curl, callbacks, conn, client>>

----------------------------------------------------------------------------
Next ==
  \/ \E r \in Requests : SendRequest(r) \/ SendFails(r) \/ Finish(r)
  \/ \E r \in Requests, fd \in Fds, poll \in Polls : OpenSocket(r, fd, poll)
  \/ \E fd \in Fds, poll \in Polls : ChangeSocket(fd, poll)
  \/ \E fd \in Fds : CloseSocket(fd)
  \/ \E ms \in {-1, 0, 200, 1000} : SetTimer(ms)
  \/ Sent \/ Report \/ CallTimer \/ TimerDone \/ CallWatcher \/ WatcherDone
  \/ ReapCrashes \/ ReapNext \/ ReapUnset \/ ReapDone

Spec == Init /\ [][Next]_vars
----------------------------------------------------------------------------
TypeOK ==
  /\ pc \in {"idle", "sending", "timer", "watcher", "reaping", "crashed"}
  /\ current \in Requests \cup Watchers \cup {None}
  /\ batch \in Seq(Watchers \cup {Timer})
  /\ transfer \in [Requests -> {"new", "refused", "running", "finished", "completed"}]
  /\ DOMAIN sockets \subseteq Fds /\ DOMAIN callbacks \subseteq Fds
  /\ finished \in Seq(Requests) /\ timerfd \in {"off", "running", "expired"}
  /\ \A w \in Watchers : heap[w].state \in {"free", "live", "deleted"}
  /\ conn \in [Requests -> Watchers \cup {Unset}]
  /\ doomed = None \/ doomed \in {w \in Watchers : Live(w)}
  /\ handlers \subseteq WithHandler
  /\ answered \subseteq completed /\ completed \subseteq Requests

\* The synchronizer watches exactly the sockets curl has open, each for what
\* curl asked, and with the watcher curl was assigned, which is alive: what
\* _checkForCompleted deletes is never registered, whatever sockets a
\* transfer used and however many requests complete in one call.
WatchersMatchCurl ==
  /\ DOMAIN callbacks = DOMAIN sockets
  /\ \A fd \in DOMAIN sockets :
       LET s == sockets[fd] IN
         /\ callbacks[fd] = [who |-> s.watcher, events |-> s.poll]
         /\ heap[s.watcher] = [state |-> "live", fd |-> fd, action |-> s.poll]
         /\ s.watcher # doomed

\* A response somebody waits for finds its handler, although the handler is
\* entered only after the request was sent.
AnswersHandled == completed \cap WithHandler \subseteq answered
=============================================================================
