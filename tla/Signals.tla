------------------------------ MODULE Signals ------------------------------
(***************************************************************************)
(* The signals that are given once: cancellation tokens                    *)
(* (ringline/src/runtime/cancellation.rs) and oneshot channels (oneshot of *)
(* runtime/channel.rs), awaited by tasks that select over or join several  *)
(* of them (runtime/select.rs, runtime/join.rs).                           *)
(*                                                                         *)
(* A token is the shared state of its handles; children are weak.  A       *)
(* future of g.futures awaits a token or is the receiver of a oneshot, and *)
(* belongs to the task that polls it; reg is the task it registered.       *)
(***************************************************************************)
EXTENDS Naturals, Sequences, FiniteSets, SequencesExt, FiniteSetsExt

CONSTANTS SignalSetups

(* A setup: how many tokens and oneshots, how many futures may be made,    *)
(* and whether the tasks select or join.                                   *)
ASSUME SignalsAssumption ==
  \A s \in SignalSetups :
    /\ DOMAIN s = {"tokens", "shots", "futures", "how"}
    /\ s.how \in {"select", "join"}

VARIABLES gsetup, g

signalVars == <<gsetup, g>>

SignalTasks == {1, 2}
Tokens == 1 .. gsetup.tokens
Shots == 1 .. gsetup.shots

(* Token 1 is the root. *)
InitSignals ==
  /\ gsetup \in SignalSetups
  /\ g = [tokens |-> [k \in Tokens |-> [parent |-> 0, handle |-> k = 1, cancelled |-> FALSE,
                                        waiters |-> <<>>, children |-> <<>>]],
          shots |-> [c \in Shots |-> [value |-> "none", waiter |-> 0, closed |-> FALSE, sender |-> TRUE,
                                      receiver |-> TRUE, held |-> TRUE, got |-> 0]],
          made |-> 1, futures |-> <<>>, ready |-> {}]

Waiting(x) == {f \in DOMAIN x.futures : x.futures[f].st = "waiting"}

(* The strong count of a token's state is not zero. *)
TokenAlive(x, k) ==
  x.tokens[k].handle \/ \E f \in Waiting(x) : x.futures[f].kind = "token" /\ x.futures[f].of = k

-----------------------------------------------------------------------------
(* Tokens. *)

(* cancel_state: the waiters are woken, then the children that are alive   *)
(* are cancelled, each with its own.                                       *)
CancelState(x, k) ==
  LET Below[d \in Nat] ==
        IF d = 0 THEN {k}
        ELSE {c \in Tokens : /\ TokenAlive(x, c) /\ ~x.tokens[c].cancelled
                             /\ \E p \in Below[d - 1] : Contains(x.tokens[p].children, c)}
      all == IF x.tokens[k].cancelled THEN {} ELSE UNION {Below[d] : d \in 0 .. gsetup.tokens}
  IN [x EXCEPT !.tokens = [c \in Tokens |->
                             IF c \notin all THEN x.tokens[c]
                             ELSE [x.tokens[c] EXCEPT !.cancelled = TRUE, !.waiters = <<>>, !.children = <<>>]],
               !.ready = @ \union UNION {ToSet(x.tokens[c].waiters) : c \in all}]

(* child_token: a cancelled parent gives a cancelled child; otherwise the  *)
(* children that are gone make room.                                       *)
ChildToken(x, p) ==
  LET c == x.made + 1
      born == [x EXCEPT !.made = c, !.tokens[c].handle = TRUE, !.tokens[c].parent = p]
  IN IF x.tokens[p].cancelled THEN CancelState(born, c)
     ELSE [born EXCEPT !.tokens[p].children = Append(SelectSeq(@, LAMBDA d : TokenAlive(x, d)), c)]

(* CancelledFuture::poll. *)
PollToken(x, f) ==
  LET z == x.futures[f] IN
  IF x.tokens[z.of].cancelled THEN [x EXCEPT !.futures[f].st = "done"]
  ELSE IF z.reg # 0 THEN x
  ELSE [x EXCEPT !.tokens[z.of].waiters = Append(@, z.task), !.futures[f].reg = z.task]

(* Mutant: a dropped future removes every entry of its task. *)
DropTokenAll(x, f) ==
  LET z == x.futures[f] IN
  [x EXCEPT !.tokens[z.of].waiters = SelectSeq(@, LAMBDA w : w # z.reg), !.futures[f].st = "dropped"]

(* Drop of a CancelledFuture: one entry of its task goes, and the last     *)
(* takes its place.                                                        *)
DropToken(x, f) ==
  LET z == x.futures[f]
      w == x.tokens[z.of].waiters
      i == Min({j \in DOMAIN w : w[j] = z.reg})
      left == Front([w EXCEPT ![i] = Last(w)])
  IN [x EXCEPT !.futures[f].st = "dropped",
               !.tokens[z.of].waiters = IF x.tokens[z.of].cancelled \/ ~Contains(w, z.reg) THEN w ELSE left]

-----------------------------------------------------------------------------
(* Oneshots. *)

WakeShot(x, c) ==
  [x EXCEPT !.shots[c].waiter = 0, !.ready = @ \union ({x.shots[c].waiter} \ {0})]

(* Drop of a Sender that has not sent. *)
DropShotSender(x, c) == WakeShot([x EXCEPT !.shots[c].sender = FALSE, !.shots[c].closed = TRUE], c)

(* Sender::send: without a receiver the value comes back, and the sender   *)
(* is dropped unsent.                                                      *)
SendShot(x, c) ==
  IF x.shots[c].receiver THEN WakeShot([x EXCEPT !.shots[c].sender = FALSE, !.shots[c].value = "some"], c)
  ELSE DropShotSender(x, c)

TakeShot(x, c) == [x EXCEPT !.shots[c].value = "none", !.shots[c].got = @ + 1]

PollShot(x, f) ==
  LET z == x.futures[f]
      s == x.shots[z.of]
      done == [x EXCEPT !.futures[f].st = "done"]
  IN CASE s.value = "some" -> TakeShot(done, z.of)
       [] s.value = "none" /\ s.closed -> done
       [] OTHER -> [x EXCEPT !.shots[z.of].waiter = z.task]

DropShot(x, f) == [x EXCEPT !.futures[f].st = "dropped", !.shots[x.futures[f].of].receiver = FALSE]

-----------------------------------------------------------------------------
(* What a task awaits. *)

PollFuture(x, f) == IF x.futures[f].kind = "token" THEN PollToken(x, f) ELSE PollShot(x, f)

DropSignal(x, f) == IF x.futures[f].kind = "token" THEN DropToken(x, f) ELSE DropShot(x, f)

Done(x, f) == x.futures[f].st = "done"

(* Select polls in order up to the first that is ready, and what is left   *)
(* is dropped with it.                                                     *)
Select(x, own) ==
  LET fs == SetToSortSeq(own, <)
      y == FoldLeft(LAMBDA z, f : IF \E d \in own : Done(z, d) THEN z ELSE PollFuture(z, f), x, fs)
  IN IF \E d \in own : Done(y, d)
     THEN FoldLeft(LAMBDA z, f : IF Done(z, f) THEN z ELSE DropSignal(z, f), y, fs)
     ELSE y

(* Join polls each of its futures that is not done. *)
Join(x, own) == FoldLeft(PollFuture, x, SetToSortSeq(own, <))

-----------------------------------------------------------------------------
SignalBecomes(x) == g' = x /\ UNCHANGED gsetup

OwnFutures(t) == {f \in Waiting(g) : g.futures[f].task = t}

(* A task makes a future and will poll it. *)
Await(t, kind, of) ==
  /\ Len(g.futures) < gsetup.futures
  /\ \A f \in DOMAIN g.futures : g.futures[f].task = t => g.futures[f].st = "waiting"
  /\ SignalBecomes([g EXCEPT
       !.futures = Append(@, [kind |-> kind, of |-> of, task |-> t, reg |-> 0, st |-> "waiting"]),
       !.shots = IF kind = "shot" THEN [@ EXCEPT ![of].held = FALSE] ELSE @,
       !.ready = @ \union {t}])

AwaitToken(t, k) == g.tokens[k].handle /\ Await(t, "token", k)
AwaitShot(t, c) == g.shots[c].held /\ Await(t, "shot", c)

PollSignals(t) ==
  /\ OwnFutures(t) # {} /\ t \in g.ready
  /\ LET x == [g EXCEPT !.ready = @ \ {t}]
     IN SignalBecomes(IF gsetup.how = "select" THEN Select(x, OwnFutures(t)) ELSE Join(x, OwnFutures(t)))

(* Something else polls the task. *)
OtherPoll(t) == OwnFutures(t) # {} /\ t \notin g.ready /\ SignalBecomes([g EXCEPT !.ready = @ \union {t}])

(* The task drops a future before it is ready. *)
DropEarly(f) == f \in Waiting(g) /\ SignalBecomes(DropSignal(g, f))

MakeChild(p) == g.tokens[p].handle /\ g.made < gsetup.tokens /\ SignalBecomes(ChildToken(g, p))
CancelToken(k) == g.tokens[k].handle /\ ~g.tokens[k].cancelled /\ SignalBecomes(CancelState(g, k))

(* The last handle of a token goes; its children are forgotten when no     *)
(* future holds its state either.                                          *)
DropHandle(k) == g.tokens[k].handle /\ SignalBecomes([g EXCEPT !.tokens[k].handle = FALSE])

Send(c) == g.shots[c].sender /\ SignalBecomes(SendShot(g, c))
DropUnsent(c) == g.shots[c].sender /\ SignalBecomes(DropShotSender(g, c))

(* Receiver::try_recv, before the receiver is awaited. *)
TryRecvShot(c) == g.shots[c].held /\ g.shots[c].value = "some" /\ SignalBecomes(TakeShot(g, c))

SignalNext ==
  \/ \E t \in SignalTasks :
       \/ \E k \in Tokens : AwaitToken(t, k)
       \/ \E c \in Shots : AwaitShot(t, c)
       \/ PollSignals(t) \/ OtherPoll(t)
  \/ \E f \in DOMAIN g.futures : DropEarly(f)
  \/ \E k \in Tokens : MakeChild(k) \/ CancelToken(k) \/ DropHandle(k)
  \/ \E c \in Shots : Send(c) \/ DropUnsent(c) \/ TryRecvShot(c)

SignalSpec == InitSignals /\ [][SignalNext]_signalVars

-----------------------------------------------------------------------------
Given(z) ==
  IF z.kind = "token" THEN g.tokens[z.of].cancelled
  ELSE g.shots[z.of].value = "some" \/ g.shots[z.of].closed

(* Whoever awaits a signal is polled once it is given, however its futures *)
(* are selected, joined, dropped and made again: its task is ready, or the *)
(* signal knows to wake it, once for every future that asked.  A token     *)
(* follows its parent (cancel_state, Sender::send, the drops).             *)
SignalsReachTasks ==
  /\ \A f \in Waiting(g) : LET z == g.futures[f] IN
       \/ z.task \in g.ready
       \/ ~Given(z) /\ (\/ z.kind = "token" /\ Contains(g.tokens[z.of].waiters, z.task)
                        \/ z.kind = "shot" /\ (g.shots[z.of].waiter = z.task \/ g.shots[z.of].got > 0))
  /\ \A k \in Tokens, t \in SignalTasks :
       ~g.tokens[k].cancelled =>
         Cardinality({i \in DOMAIN g.tokens[k].waiters : g.tokens[k].waiters[i] = t})
           = Cardinality({f \in Waiting(g) : LET z == g.futures[f] IN z.kind = "token" /\ z.of = k /\ z.reg = t})
  /\ \A k \in Tokens : LET p == g.tokens[k].parent IN
       p # 0 /\ TokenAlive(g, k) => (g.tokens[p].cancelled => g.tokens[k].cancelled)
  /\ \A c \in Shots : g.shots[c].got <= 1

Ancestors(k) ==
  LET Up[d \in Nat] == IF d = 0 THEN {k} ELSE {g.tokens[c].parent : c \in Up[d - 1] \ {0}}
  IN UNION {Up[d] : d \in 1 .. gsetup.tokens} \ {0}

(* cancel: "All tasks awaiting cancelled() on this token or any descendant *)
(* are woken" (cancellation.rs:75): a token is cancelled with any of its   *)
(* ancestors.                                                              *)
CancelReachesDescendants ==
  \A k \in Tokens : TokenAlive(g, k) => \A p \in Ancestors(k) : g.tokens[p].cancelled => g.tokens[k].cancelled
=============================================================================
