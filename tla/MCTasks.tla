------------------------------- MODULE MCTasks -------------------------------
(* What tasks run on, checked side by side: the threads of a runtime from    *)
(* launch to shutdown, the executor of a worker, and the bounded channel     *)
(* with two senders and a receiver. A behaviour is one of its part; the      *)
(* others keep an initial state.                                             *)
EXTENDS Executor, Mpsc, Regions

CONSTANTS s1, s2, MaxWorkers

VARIABLE part

mcVars == <<part, vars, channelVars, launchVars, regionVars>>

MCSenders == {s1, s2}
NoConnTask == {}
OneConnTask == {s1}

L(n, listeners, peers, faults, panics, callers) ==
  [n |-> n, listeners |-> listeners, queue |-> 1, chunk |-> 1, peers |-> peers, faults |-> faults,
   panics |-> panics, callers |-> callers, tick |-> TRUE, threads |-> 0, calls |-> 0]
Calls(setup, threads, calls) == [setup EXCEPT !.threads = threads, !.calls = calls]

(* A client-only runtime: nothing but workers. *)
Bare(n, faults, callers) == L(n, <<>>, 0, faults, 0, callers)

MCLaunchSetups ==
  {L(1, <<"merged", "acceptor">>, 1, 1, 0, 1), L(2, <<"merged">>, 1, 0, 0, 1),
   L(2, <<"acceptor">>, 1, 0, 1, 1), L(1, <<"acceptor">>, 2, 1, 0, 2),
   Calls(Bare(2, 0, 0), 1, 3), Calls(Bare(2, 1, 0), 1, 1), Calls(Bare(1, 0, 1), 2, 2)}

QuietRuntime == {Bare(1, 0, 0)}

(* Four workers, three of which panic once they run. *)
PanickingWorkers == {L(4, <<>>, 0, 0, 3, 0), Bare(1, 0, 0)}

(* tick_timeout_us = 0: a worker blocks until something completes. *)
NoTickTimeout == {[Bare(1, 0, 1) EXCEPT !.tick = FALSE], Bare(1, 0, 0)}

IdleRuntime == lsetup \in {L(1, <<"acceptor">>, 2, 1, 0, 2), Bare(1, 0, 0)}

MCInit ==
  /\ Init /\ InitChannel /\ InitRegions
  /\ part \in {"executor", "channel", "runtime"}
  /\ part = "runtime" \/ IdleRuntime

MCNext ==
  \/ part = "executor" /\ Next /\ UNCHANGED <<part, channelVars, launchVars, regionVars>>
  \/ part = "channel" /\ ChannelNext /\ UNCHANGED <<part, vars, launchVars, regionVars>>
  \/ part = "runtime" /\ RegionsNext /\ UNCHANGED <<part, vars, channelVars>>

MCSpec == MCInit /\ [][MCNext]_mcVars

(* The fairness of FairSpec and of DrainingSpec, each in its part. *)
Turn(A) == part = "executor" /\ A /\ UNCHANGED <<part, channelVars, launchVars, regionVars>>
ChannelTurn(A) == part = "channel" /\ A /\ UNCHANGED <<part, vars, launchVars, regionVars>>

(* A thread that can go on does, the tick timeout fires, and a completed     *)
(* eventfd read ends the wait. Calls of shutdown() and accepts may not come. *)
RuntimeTurn(A) == part = "runtime" /\ A /\ UNCHANGED <<part, vars, channelVars>>
LauncherTurn == BindMerged \/ SpawnWorker \/ RecvStartup \/ CommitListener \/ GoLive \/ JoinWorkers
StartTurn(w) == SetupWorker(w) \/ Report(w) \/ EndPanic(w)
LoopTurn(w) == Woken(w) \/ Tick(w) \/ LoopGoesOn(w) \/ FinishIteration(w)
AcceptorTurn(l) == AcceptFails(l) \/ TrySendConn(l) \/ WakeTarget(l)
WorkerTurn(w) ==
  \/ (StartTurn(w) \/ LoopTurn(w)) /\ UNCHANGED regionVars
  \/ ApplyControl(w) \/ ControlApplied(w) \/ (LoopExits(w) /\ WorkerEnds(w))
FairRuntime ==
  /\ WF_mcVars(RuntimeTurn(LauncherTurn /\ UNCHANGED regionVars))
  /\ \A w \in 1 .. MaxWorkers : WF_mcVars(RuntimeTurn(w \in Workers /\ WorkerTurn(w)))
  /\ \A l \in {1, 2} : WF_mcVars(RuntimeTurn(l \in Listeners /\ AcceptorTurn(l) /\ UNCHANGED regionVars))
  /\ \A c \in {1, 2} :
       /\ WF_mcVars(RuntimeTurn(c \in Callers /\ (ShutListener(c) \/ WakeWorkers(c)) /\ UNCHANGED regionVars))
       /\ WF_mcVars(RuntimeTurn(c \in Threads /\ (BroadcastSend(c) \/ BroadcastWake(c) \/ CollectAck(c))))

MCFairSpec ==
  /\ MCSpec
  /\ WF_mcVars(Turn(CollectOne)) /\ WF_mcVars(Turn(EndCollect)) /\ WF_mcVars(Turn(BeginPass))
  /\ WF_mcVars(Turn(Visit)) /\ WF_mcVars(Turn(Return)) /\ WF_mcVars(Turn(EndTeardown)) /\ WF_mcVars(Turn(EndPass))
  /\ \A s \in Senders : WF_mcVars(ChannelTurn(task[s] = "Ready" /\ SendPoll(s)))
  /\ WF_mcVars(ChannelTurn(Recv))
  /\ FairRuntime
=============================================================================
