------------------------------- MODULE Launch -------------------------------
(* A runtime from launch() to the end of its threads: the launcher that      *)
(* binds, spawns workers and waits for their reports, its rollback when any  *)
(* part fails, the acceptor thread of each listener, the wake descriptor and *)
(* loop of each io_uring worker, and ShutdownHandle::shutdown called from    *)
(* several threads. Connections and regions are what crosses the threads.    *)
EXTENDS Integers, Sequences, SequencesExt, FiniteSets

CONSTANT LaunchSetups
  \* [n: workers, listeners: their kinds, queue: accept_queue_capacity,
  \*  chunk: conn_chunk_size, peers, faults, panics, callers: threads that call
  \*  shutdown, tick: tick_timeout_us > 0, threads, calls: of register_region]

VARIABLES
  lsetup,
  launcher,   \* where launch_inner is, and "ok" or "err" when it returned
  listening,  \* the listener it is about to commit
  worker,     \* where each worker's thread is
  startup,    \* the startup channel, bounded by the number of workers
  heard,      \* the reports of success the launcher has received
  flag,       \* shutdown_flag
  wake,       \* the eventfd of each worker is not zero
  reading,    \* eventfd_armed: a read of it is in the ring
  live,       \* merged_accept_live
  armed,      \* merged_accept_armed, by worker
  fd,         \* listening sockets
  closes,     \* ghost: how often each was closed
  closed,     \* ListenerHandle.closed
  acceptor,   \* the acceptor thread of each listener
  chan,       \* the accept channel of each worker
  conn,       \* where each accepted connection is
  shutting,   \* the calls of shutdown(), by thread: the step it is at
  budget      \* the faults and panics that may still happen

launchVars == <<lsetup, launcher, listening, worker, startup, heard, flag, wake, reading, live,
                armed, fd, closes, closed, acceptor, chan, conn, shutting, budget>>

Workers == 1 .. lsetup.n
Listeners == 1 .. Len(lsetup.listeners)
IsMerged(l) == lsetup.listeners[l] = "merged"
ListenerFds(l) == IF IsMerged(l) THEN {<<l, w>> : w \in Workers} ELSE {<<l, 1>>}
AllFds == UNION {ListenerFds(l) : l \in Listeners}
MergedFds == UNION {ListenerFds(l) : l \in {k \in Listeners : IsMerged(k)}}
Peers == 1 .. lsetup.peers
Callers == 1 .. lsetup.callers

(* Binding order: listener by listener, worker by worker. *)
BoundBefore(f, g) == f[1] < g[1] \/ (f[1] = g[1] /\ f[2] < g[2])

NoAcceptor == [at |-> "none", alive |-> {}, count |-> 0, peer |-> 0, tried |-> 0]

InitLaunch ==
  /\ lsetup \in LaunchSetups
  /\ launcher = "bind" /\ listening = 1 /\ heard = 0 /\ startup = <<>>
  /\ flag = FALSE /\ live = FALSE
  /\ worker = [w \in Workers |-> "none"]
  /\ wake = [w \in Workers |-> FALSE]
  /\ reading = [w \in Workers |-> FALSE]
  /\ armed = [w \in Workers |-> FALSE]
  /\ fd = [f \in AllFds |-> "none"]
  /\ closes = [f \in AllFds |-> 0]
  /\ closed = [l \in Listeners |-> FALSE]
  /\ acceptor = [l \in Listeners |-> NoAcceptor]
  /\ chan = [w \in Workers |-> <<>>]
  /\ conn = [p \in Peers |-> <<"outside", 0>>]
  /\ shutting = [c \in Callers |-> 0]
  /\ budget = [faults |-> lsetup.faults, panics |-> lsetup.panics]

Fault == budget.faults > 0 /\ budget' = [budget EXCEPT !.faults = @ - 1]
Panic == budget.panics > 0 /\ budget' = [budget EXCEPT !.panics = @ - 1]

(* The descriptors in fs are shut down and closed: a thread blocked in       *)
(* accept4 on one of them returns.                                           *)
CloseFds(fs) ==
  /\ fd' = [f \in AllFds |-> IF f \in fs THEN "shut" ELSE fd[f]]
  /\ closes' = [f \in AllFds |-> IF f \in fs THEN closes[f] + 1 ELSE closes[f]]

(* A close without the shutdown leaves the thread where it is. *)
CloseFdsOnly(fs) ==
  /\ fd' = [f \in AllFds |-> IF f \in fs THEN "closed" ELSE fd[f]]
  /\ closes' = [f \in AllFds |-> IF f \in fs THEN closes[f] + 1 ELSE closes[f]]

(* rollback_workers, up to its joins. *)
Rollback ==
  /\ flag' = TRUE
  /\ wake' = [w \in Workers |-> TRUE]
  /\ launcher' = "join"

(* ---------------------------- the launcher ----------------------------- *)

(* The sockets of the merged listeners, bound before any worker exists.      *)
BindMerged ==
  /\ launcher = "bind"
  /\ \/ /\ fd' = [f \in AllFds |-> IF f \in MergedFds THEN "bound" ELSE "none"]
        /\ launcher' = "spawn"
        /\ UNCHANGED <<closes, flag, wake, budget>>
     \/ \E f \in MergedFds :
          /\ Fault
          /\ CloseFdsOnly({g \in MergedFds : BoundBefore(g, f)})
          /\ Rollback
  /\ UNCHANGED <<lsetup, listening, worker, startup, heard, reading, live, armed, closed, acceptor,
                 chan, conn, shutting>>

SpawnWorker ==
  /\ launcher = "spawn"
  /\ LET w == CHOOSE v \in Workers : worker[v] = "none" /\ \A u \in Workers : u < v => worker[u] # "none"
     IN \/ /\ worker' = [worker EXCEPT ![w] = "setup"]
           /\ launcher' = IF w = lsetup.n THEN "gate" ELSE "spawn"
           /\ UNCHANGED <<flag, wake, budget>>
        \/ Fault /\ Rollback /\ UNCHANGED worker
  /\ UNCHANGED <<lsetup, listening, startup, heard, reading, live, armed, fd, closes, closed,
                 acceptor, chan, conn, shutting>>

(* The loop over startup_rx. Its arm for a disconnected channel is never     *)
(* taken: LauncherHeard says why.                                            *)
RecvStartupOneIsEnough ==
  /\ launcher = "gate" /\ startup # <<>>
  /\ startup' = Tail(startup)
  /\ IF Head(startup) = "ok"
     THEN /\ heard' = heard + 1
          /\ launcher' = "listen"
          /\ UNCHANGED <<flag, wake>>
     ELSE Rollback /\ UNCHANGED heard
  /\ UNCHANGED <<lsetup, listening, worker, reading, live, armed, fd, closes, closed, acceptor,
                 chan, conn, shutting, budget>>

RecvStartup ==
  /\ launcher = "gate" /\ startup # <<>>
  /\ startup' = Tail(startup)
  /\ IF Head(startup) = "ok"
     THEN /\ heard' = heard + 1
          /\ launcher' = IF heard + 1 = lsetup.n THEN "listen" ELSE "gate"
          /\ UNCHANGED <<flag, wake>>
     ELSE Rollback /\ UNCHANGED heard
  /\ UNCHANGED <<lsetup, listening, worker, reading, live, armed, fd, closes, closed, acceptor,
                 chan, conn, shutting, budget>>

(* The listeners pushed so far and not yet closed: what close_listeners      *)
(* closes, with the socket the launcher still holds itself.                  *)
Pushed == {l \in Listeners : l < listening /\ ~closed[l]}

CloseListeners(own, left) ==
  LET gone == UNION {ListenerFds(l) : l \in Pushed} \union own IN
  /\ fd' = [f \in AllFds |-> CASE f \in gone -> "shut" [] f \in left -> "listening" [] OTHER -> fd[f]]
  /\ closes' = [f \in AllFds |-> IF f \in gone THEN closes[f] + 1 ELSE closes[f]]
  /\ closed' = [l \in Listeners |-> closed[l] \/ l < listening]

(* The next listener is committed. A merged one only has to listen; another  *)
(* gets its socket and its acceptor thread. Each of the three can fail; the  *)
(* sockets of a merged one that listen by then are left as they are.         *)
CommitListener ==
  /\ launcher = "listen" /\ listening <= Len(lsetup.listeners)
  /\ LET l == listening
         fs == ListenerFds(l) IN
     \/ /\ fd' = [f \in AllFds |-> IF f \in fs THEN "listening" ELSE fd[f]]
        /\ acceptor' = IF IsMerged(l) THEN acceptor
                       ELSE [acceptor EXCEPT ![l] = [@ EXCEPT !.at = "accept", !.alive = Workers]]
        /\ listening' = listening + 1
        /\ UNCHANGED <<launcher, flag, wake, closes, closed, budget>>
     \/ /\ Fault
        /\ \E f \in fs : CloseListeners({}, {g \in fs : BoundBefore(g, f)})
        /\ Rollback
        /\ UNCHANGED <<acceptor, listening>>
     \/ /\ ~IsMerged(l)
        /\ Fault
        /\ CloseListeners(fs, {})
        /\ Rollback
        /\ UNCHANGED <<acceptor, listening>>
  /\ UNCHANGED <<lsetup, worker, startup, heard, reading, live, armed, chan, conn, shutting>>

(* The merged sockets go live, the workers are told, the handle is returned. *)
GoLive ==
  /\ launcher = "listen" /\ listening > Len(lsetup.listeners)
  /\ launcher' = "ok"
  /\ live' = (MergedFds # {})
  /\ wake' = IF MergedFds # {} THEN [w \in Workers |-> TRUE] ELSE wake
  /\ UNCHANGED <<lsetup, listening, worker, startup, heard, flag, reading, armed, fd, closes,
                 closed, acceptor, chan, conn, shutting, budget>>

(* rollback_workers has joined every thread; launch_inner returns the error. *)
JoinWorkers ==
  /\ launcher = "join"
  /\ \A w \in Workers : worker[w] \in {"none", "exited"}
  /\ launcher' = "err"
  /\ UNCHANGED <<lsetup, listening, worker, startup, heard, flag, wake, reading, live, armed, fd,
                 closes, closed, acceptor, chan, conn, shutting, budget>>

(* ------------------------------ a worker ------------------------------- *)

(* The driver is built and prepare_run arms the eventfd read and sets the    *)
(* eventfd, for a first iteration at once; or either fails, or the handler's *)
(* constructor panics.                                                       *)
SetupWorker(w) ==
  /\ worker[w] = "setup"
  /\ \/ /\ worker' = [worker EXCEPT ![w] = "ready"]
        /\ reading' = [reading EXCEPT ![w] = TRUE]
        /\ wake' = [wake EXCEPT ![w] = TRUE]
        /\ UNCHANGED budget
     \/ /\ Fault
        /\ worker' = [worker EXCEPT ![w] = "failing"]
        /\ UNCHANGED <<reading, wake>>
     \/ /\ Panic
        /\ worker' = [worker EXCEPT ![w] = "panicking"]
        /\ UNCHANGED <<reading, wake>>
  /\ UNCHANGED <<lsetup, launcher, listening, startup, heard, flag, live, armed, fd, closes, closed,
                 acceptor, chan, conn, shutting>>

(* startup_tx.send blocks while the channel is full. *)
Report(w) ==
  /\ worker[w] \in {"ready", "failing"}
  /\ Len(startup) < lsetup.n
  /\ startup' = Append(startup, IF worker[w] = "ready" THEN "ok" ELSE "failed")
  /\ worker' = [worker EXCEPT ![w] = IF @ = "ready" THEN "blocked" ELSE "exited"]
  /\ UNCHANGED <<lsetup, launcher, listening, heard, flag, wake, reading, live, armed, fd, closes,
                 closed, acceptor, chan, conn, shutting, budget>>

(* The connections that die with worker w: those in its channel are lost, a  *)
(* descriptor nobody owns; its own are closed.                               *)
ConnsAfter(w) ==
  [p \in Peers |-> CASE conn[p] = <<"queued", w>> -> <<"lost", 0>>
                     [] conn[p] = <<"served", w>> -> <<"closed", 0>>
                     [] OTHER -> conn[p]]

(* User code of the worker panics; the driver and the receivers are dropped  *)
(* by the unwinding.                                                         *)
PanicWorker(w) ==
  /\ worker[w] \in {"blocked", "work"}
  /\ Panic
  /\ worker' = [worker EXCEPT ![w] = "panicking"]
  /\ conn' = ConnsAfter(w)
  /\ chan' = [chan EXCEPT ![w] = <<>>]
  /\ UNCHANGED <<lsetup, launcher, listening, startup, heard, flag, wake, reading, live, armed, fd,
                 closes, closed, acceptor, shutting>>

(* try_send of the panic: reported if there is room, else it is left to the  *)
(* join; once launch has returned the channel is disconnected.               *)
EndPanicSilent(w) ==
  /\ worker[w] = "panicking"
  /\ worker' = [worker EXCEPT ![w] = "exited"]
  /\ UNCHANGED <<lsetup, launcher, listening, startup, heard, flag, wake, reading, live, armed, fd,
                 closes, closed, acceptor, chan, conn, shutting, budget>>

EndPanic(w) ==
  /\ worker[w] = "panicking"
  /\ worker' = [worker EXCEPT ![w] = "exited"]
  /\ startup' = IF launcher \notin {"ok", "err"} /\ Len(startup) < lsetup.n
                THEN Append(startup, "failed") ELSE startup
  /\ UNCHANGED <<lsetup, launcher, listening, heard, flag, wake, reading, live, armed, fd, closes,
                 closed, acceptor, chan, conn, shutting, budget>>

(* handle_eventfd_read, when the read has completed: the accepted            *)
(* connections are installed, the merged accepts are armed once live, and    *)
(* the read is armed again unless the flag is up.                            *)
HandleEventfdRead(w) ==
  IF reading[w] /\ wake[w]
  THEN /\ wake' = [wake EXCEPT ![w] = FALSE]
       /\ reading' = [reading EXCEPT ![w] = ~flag]
       /\ armed' = [armed EXCEPT ![w] = @ \/ live]
       /\ chan' = [chan EXCEPT ![w] = <<>>]
       /\ conn' = [p \in Peers |-> IF conn[p] = <<"queued", w>> THEN <<"served", w>> ELSE conn[p]]
  ELSE UNCHANGED <<wake, reading, armed, chan, conn>>

(* submit_and_wait returns: for the eventfd, for other completions, or at    *)
(* the tick timeout. What has completed is handled.                          *)
WaitReturns(w) ==
  /\ worker[w] = "blocked"
  /\ worker' = [worker EXCEPT ![w] = "check"]
  /\ HandleEventfdRead(w)
  /\ UNCHANGED <<lsetup, launcher, listening, startup, heard, flag, live, fd, closes, closed,
                 acceptor, shutting, budget>>

Woken(w) == reading[w] /\ wake[w] /\ WaitReturns(w)

Tick(w) == lsetup.tick /\ WaitReturns(w)

(* The check for shutdown, made only here. *)
LoopGoesOn(w) ==
  /\ worker[w] = "check" /\ ~flag
  /\ worker' = [worker EXCEPT ![w] = "apply"]
  /\ UNCHANGED <<lsetup, launcher, listening, startup, heard, flag, wake, reading, live, armed, fd,
                 closes, closed, acceptor, chan, conn, shutting, budget>>

LoopExits(w) ==
  /\ worker[w] = "check" /\ flag
  /\ worker' = [worker EXCEPT ![w] = "exited"]
  /\ conn' = ConnsAfter(w)
  /\ chan' = [chan EXCEPT ![w] = <<>>]
  /\ UNCHANGED <<lsetup, launcher, listening, startup, heard, flag, wake, reading, live, armed, fd,
                 closes, closed, acceptor, shutting, budget>>

(* The rest of the iteration. If it queued SQEs, flush() enters the kernel   *)
(* and the second drain_completions handles what has completed by then.      *)
FinishIteration(w) ==
  /\ worker[w] = "work"
  /\ worker' = [worker EXCEPT ![w] = "blocked"]
  /\ HandleEventfdRead(w) \/ UNCHANGED <<wake, reading, armed, chan, conn>>
  /\ UNCHANGED <<lsetup, launcher, listening, startup, heard, flag, live, fd, closes, closed,
                 acceptor, shutting, budget>>

NextPeer == CHOOSE p \in Peers : conn[p] = <<"outside", 0>>

(* The worker's receiver still exists. *)
Receiving(w) == worker[w] \notin {"panicking", "exited"}

(* A multishot accept of the worker's own socket completes. The connection   *)
(* stays, or goes to a less loaded peer if that has room for it.             *)
MergedAccept(w) ==
  /\ worker[w] = "blocked" /\ armed[w]
  /\ \E p \in Peers : conn[p] = <<"outside", 0>>
  /\ \E l \in Listeners : IsMerged(l) /\ fd[<<l, w>>] = "listening"
  /\ worker' = [worker EXCEPT ![w] = "check"]
  /\ \/ conn' = [conn EXCEPT ![NextPeer] = <<"served", w>>] /\ UNCHANGED <<chan, wake>>
     \/ \E v \in Workers \ {w} :
          /\ Receiving(v) /\ Len(chan[v]) < lsetup.queue
          /\ chan' = [chan EXCEPT ![v] = Append(@, NextPeer)]
          /\ conn' = [conn EXCEPT ![NextPeer] = <<"queued", v>>]
          /\ wake' = [wake EXCEPT ![v] = TRUE]
  /\ UNCHANGED <<lsetup, launcher, listening, startup, heard, flag, reading, live, armed, fd, closes,
                 closed, acceptor, shutting, budget>>

(* ----------------------------- an acceptor ----------------------------- *)

(* accept4 returns a connection; it goes to the worker of its chunk first.   *)
(* EINTR, EMFILE and an aborted peer only make the thread call it again.     *)
Accept(l) ==
  /\ acceptor[l].at = "accept" /\ fd[<<l, 1>>] = "listening"
  /\ \E p \in Peers : conn[p] = <<"outside", 0>>
  /\ conn' = [conn EXCEPT ![NextPeer] = <<"held", l>>]
  /\ acceptor' = [acceptor EXCEPT ![l] = [@ EXCEPT !.at = "dispatch", !.peer = NextPeer, !.tried = 0]]
  /\ UNCHANGED <<lsetup, launcher, listening, worker, startup, heard, flag, wake, reading, live,
                 armed, fd, closes, closed, chan, shutting, budget>>

(* accept4 fails for good: the socket was shut down, or a fatal error. The   *)
(* thread ends, closing the socket if nobody has.                            *)
EndAcceptor(l) ==
  /\ acceptor' = [acceptor EXCEPT ![l].at = "exited"]
  /\ closed' = [closed EXCEPT ![l] = TRUE]
  /\ CloseFdsOnly(IF closed[l] THEN {} ELSE ListenerFds(l))

AcceptFails(l) ==
  /\ acceptor[l].at = "accept"
  /\ \/ fd[<<l, 1>>] = "shut" /\ UNCHANGED budget
     \/ fd[<<l, 1>>] = "listening" /\ Fault
  /\ EndAcceptor(l)
  /\ UNCHANGED <<lsetup, launcher, listening, worker, startup, heard, flag, wake, reading, live,
                 armed, chan, conn, shutting>>

(* The worker the next try_send of the loop goes to. *)
Primary(l) == (acceptor[l].count \div lsetup.chunk) % lsetup.n
TargetOf(l) == 1 + ((Primary(l) + acceptor[l].tried) % lsetup.n)

(* One turn of the loop over the workers: queued, full, dead or known dead.  *)
(* After the last the connection is given up; with no worker alive the      *)
(* thread ends.                                                              *)
TrySendConnTo(l, unsent) ==
  /\ acceptor[l].at = "dispatch"
  /\ LET a == acceptor[l]
         w == TargetOf(l)
         dead == w \in a.alive /\ ~Receiving(w)
         alive == IF dead THEN a.alive \ {w} ELSE a.alive
         last == a.tried + 1 = lsetup.n
     IN IF w \in a.alive /\ ~dead /\ Len(chan[w]) < lsetup.queue
        THEN /\ chan' = [chan EXCEPT ![w] = Append(@, a.peer)]
             /\ conn' = [conn EXCEPT ![a.peer] = <<"queued", w>>]
             /\ acceptor' = [acceptor EXCEPT ![l].at = "wake"]
             /\ UNCHANGED <<closed, fd, closes>>
        ELSE IF dead /\ alive = {}
        THEN /\ conn' = [conn EXCEPT ![a.peer] = <<"closed", 0>>]
             /\ EndAcceptor(l)
             /\ UNCHANGED chan
        ELSE /\ acceptor' = [acceptor EXCEPT ![l] =
                  [a EXCEPT !.alive = alive, !.tried = @ + 1, !.at = IF last THEN "accept" ELSE @]]
             /\ conn' = IF last THEN [conn EXCEPT ![a.peer] = unsent] ELSE conn
             /\ UNCHANGED <<chan, closed, fd, closes>>
  /\ UNCHANGED <<lsetup, launcher, listening, worker, startup, heard, flag, wake, reading, live,
                 armed, shutting, budget>>

TrySendConnForgotten(l) == TrySendConnTo(l, <<"held", l>>)

(* Every worker was full: the connection is closed. *)
TrySendConn(l) == TrySendConnTo(l, <<"closed", 0>>)

(* The worker that got the connection is woken, after it was queued. *)
WakeTargetNot(l) ==
  /\ acceptor[l].at = "wake"
  /\ acceptor' = [acceptor EXCEPT ![l] = [@ EXCEPT !.at = "accept", !.count = @ + 1]]
  /\ UNCHANGED <<lsetup, launcher, listening, worker, startup, heard, flag, wake, reading, live,
                 armed, fd, closes, closed, chan, conn, shutting, budget>>

WakeTarget(l) ==
  /\ acceptor[l].at = "wake"
  /\ wake' = [wake EXCEPT ![TargetOf(l)] = TRUE]
  /\ acceptor' = [acceptor EXCEPT ![l] = [@ EXCEPT !.at = "accept", !.count = @ + 1]]
  /\ UNCHANGED <<lsetup, launcher, listening, worker, startup, heard, flag, reading, live, armed,
                 fd, closes, closed, chan, conn, shutting, budget>>

(* ------------------------------ shutdown() ----------------------------- *)

(* The flag; then each listener, unless somebody has closed it; then the     *)
(* wakes. Two threads may be in it, and Drop calls it again.                 *)
BeginShutdown(c) ==
  /\ launcher = "ok" /\ shutting[c] = 0
  /\ flag' = TRUE
  /\ shutting' = [shutting EXCEPT ![c] = 1]
  /\ UNCHANGED <<lsetup, launcher, listening, worker, startup, heard, wake, reading, live, armed,
                 fd, closes, closed, acceptor, chan, conn, budget>>

ShutListenerTwice(c) ==
  /\ shutting[c] \in Listeners
  /\ shutting' = [shutting EXCEPT ![c] = @ + 1]
  /\ closed' = [closed EXCEPT ![shutting[c]] = TRUE]
  /\ CloseFds(ListenerFds(shutting[c]))
  /\ UNCHANGED <<lsetup, launcher, listening, worker, startup, heard, flag, wake, reading, live,
                 armed, acceptor, chan, conn, budget>>

ShutListenerCloseOnly(c) ==
  /\ shutting[c] \in Listeners
  /\ shutting' = [shutting EXCEPT ![c] = @ + 1]
  /\ closed' = [closed EXCEPT ![shutting[c]] = TRUE]
  /\ CloseFdsOnly(IF closed[shutting[c]] THEN {} ELSE ListenerFds(shutting[c]))
  /\ UNCHANGED <<lsetup, launcher, listening, worker, startup, heard, flag, wake, reading, live,
                 armed, acceptor, chan, conn, budget>>

ShutListener(c) ==
  /\ shutting[c] \in Listeners
  /\ shutting' = [shutting EXCEPT ![c] = @ + 1]
  /\ closed' = [closed EXCEPT ![shutting[c]] = TRUE]
  /\ CloseFds(IF closed[shutting[c]] THEN {} ELSE ListenerFds(shutting[c]))
  /\ UNCHANGED <<lsetup, launcher, listening, worker, startup, heard, flag, wake, reading, live,
                 armed, acceptor, chan, conn, budget>>

WakeWorkers(c) ==
  /\ shutting[c] = Len(lsetup.listeners) + 1
  /\ shutting' = [shutting EXCEPT ![c] = @ + 1]
  /\ wake' = [w \in Workers |-> TRUE]
  /\ UNCHANGED <<lsetup, launcher, listening, worker, startup, heard, flag, reading, live, armed,
                 fd, closes, closed, acceptor, chan, conn, budget>>

(* Everything but LoopExits, PanicWorker and the step from "apply" to        *)
(* "work", which also concern the region channel of the worker.              *)
LaunchStep ==
  \/ BindMerged \/ SpawnWorker \/ RecvStartup \/ CommitListener \/ GoLive \/ JoinWorkers
  \/ \E w \in Workers : SetupWorker(w) \/ Report(w) \/ EndPanic(w)
  \/ \E w \in Workers : WaitReturns(w) \/ LoopGoesOn(w) \/ FinishIteration(w) \/ MergedAccept(w)
  \/ \E l \in Listeners : Accept(l) \/ AcceptFails(l) \/ TrySendConn(l) \/ WakeTarget(l)
  \/ \E c \in Callers : BeginShutdown(c) \/ ShutListener(c) \/ WakeWorkers(c)

(* ------------------------------ properties ----------------------------- *)

LaunchTypeOK ==
  /\ launcher \in {"bind", "spawn", "gate", "listen", "join", "ok", "err"}
  /\ worker \in [Workers -> {"none", "setup", "ready", "failing", "blocked", "check", "apply", "work",
                             "panicking", "exited"}]
  /\ Len(startup) <= lsetup.n /\ Range(startup) \subseteq {"ok", "failed"}
  /\ fd \in [AllFds -> {"none", "bound", "listening", "shut", "closed"}]
  /\ {flag, live} \union Range(wake) \union Range(reading) \union Range(closed) \subseteq BOOLEAN
  /\ \A w \in Workers : Len(chan[w]) <= lsetup.queue

(* No peer can connect before every worker has finished its set-up, and a    *)
(* launch that failed leaves no worker thread and no socket of its acceptors *)
(* behind (the gate and rollback of launch_inner).                           *)
GateHolds ==
  /\ (\E f \in AllFds : fd[f] = "listening") => heard = lsetup.n
  /\ launcher = "err" =>
       /\ \A w \in Workers : worker[w] \in {"none", "exited"}
       /\ \A l \in Listeners : ~IsMerged(l) => fd[<<l, 1>>] \in {"none", "shut", "closed"}

(* The launcher waits for a report only while some worker can still make     *)
(* one: every worker reports before it drops its sender.                     *)
LauncherHeard ==
  launcher = "gate" /\ startup = <<>> => \E w \in Workers : worker[w] # "exited"

(* However rollback, acceptor threads and concurrent calls of shutdown()     *)
(* interleave, a listening socket is closed at most once, so never a         *)
(* descriptor number that was reused meanwhile.                              *)
ClosedOnce == \A f \in AllFds : closes[f] <= 1

(* An accepted connection has one owner: the acceptor that is dispatching    *)
(* it, the channel of one worker, or a worker. It is lost only in the        *)
(* channel of a worker that ended.                                           *)
ConnsOwned ==
  \A p \in Peers :
    /\ \A l \in Listeners : conn[p] = <<"held", l>> <=> acceptor[l].at = "dispatch" /\ acceptor[l].peer = p
    /\ \A w \in Workers : conn[p] = <<"queued", w>> <=> p \in ToSet(chan[w])
    /\ conn[p] = <<"lost", 0>> => \E w \in Workers : ~Receiving(w)

(* A queued connection is not forgotten: while the flag is down its worker   *)
(* has an armed read of an eventfd that is set, or is about to be set by the *)
(* acceptor that queued it.                                                  *)
QueuedSeen ==
  \A w \in Workers :
    chan[w] # <<>> /\ ~flag =>
      /\ reading[w]
      /\ wake[w] \/ \E l \in Listeners : acceptor[l].at = "wake" /\ TargetOf(l) = w

(* The runtime's threads never lose a connection, a socket or a report. *)
LaunchSound == LaunchTypeOK /\ GateHolds /\ LauncherHeard /\ ClosedOnce /\ ConnsOwned /\ QueuedSeen

(* launch() returns: with the handles, or with the error of the first worker *)
(* that failed once the others were told and joined (worker.rs, startup      *)
(* gate).                                                                    *)
LaunchReturns == (launcher = "spawn") ~> (launcher \in {"ok", "err"})

(* Once the shutdown flag is set, by shutdown() or by a rollback, every      *)
(* worker that was started and every acceptor thread ends.                   *)
ThreadsEnd ==
  flag ~> /\ \A w \in Workers : worker[w] \in {"none", "exited"}
          /\ \A l \in Listeners : acceptor[l].at \in {"none", "exited"}
=============================================================================
