---------------------------- MODULE MCUringSend ----------------------------
(***************************************************************************)
(* UringSend on small instances.  Each scenario makes one group of         *)
(* interesting cases happen; together they take every action.              *)
(***************************************************************************)
EXTENDS UringSend

Scenario(tls, apis, sends, occupants, refusals) ==
  [tls |-> tls, apis |-> apis, sends |-> sends, occupants |-> occupants, refusals |-> refusals]

(* On plain text: every send; the slot reused by a second connection; one     *)
(* refused push; and up to the retry caps, three refusals of a send and four  *)
(* of a POLLOUT.  Then TLS: two sends and a half-close against the            *)
(* close_notify deadline; the slot passing between TLS and plain text; and    *)
(* the retry caps.                                                            *)
MCScenarios ==
  {Scenario({FALSE}, {"send", "bounded", "parts", "chain", "shutdown"}, 2, 1, 0),
   Scenario({FALSE}, {"bounded", "chain", "shutdown"}, 2, 2, 0),
   Scenario({FALSE}, {"send", "parts"}, 2, 2, 0),
   Scenario({FALSE}, {"send", "parts", "chain"}, 2, 1, 1),
   Scenario({FALSE}, {"send", "shutdown"}, 2, 1, 1),
   Scenario({FALSE}, {"send", "bounded"}, 1, 1, 4),
   Scenario({FALSE}, {"send"}, 2, 1, 4),
   Scenario({FALSE}, {"parts"}, 2, 1, 3),
   Scenario({TRUE}, {"bounded", "shutdown"}, 2, 1, 0),
   Scenario({TRUE, FALSE}, {"bounded"}, 1, 2, 1),
   Scenario({TRUE}, {"bounded"}, 1, 1, 4)}

(* A zero-copy send followed by a chain. *)
MCPartsThenChain == {Scenario({FALSE}, {"parts", "chain"}, 2, 1, 0)}

(* A chain with a send queued behind it. *)
MCChainThenSend == {Scenario({FALSE}, {"send", "chain"}, 2, 1, 0)}
=============================================================================
