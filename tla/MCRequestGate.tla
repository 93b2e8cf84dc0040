--------------------------- MODULE MCRequestGate ---------------------------
(***************************************************************************)
(* Instances of RequestGate for TLC: a metered key, and an admin key that  *)
(* expires; who is created when and what is limited is set per run.        *)
(***************************************************************************)
EXTENDS RequestGate, TLC

CONSTANTS metered, admin

TheKeys      == {metered, admin}
TheLimit     == (metered :> 2) @@ (admin :> 1)
TheQuota     == [k \in TheKeys |-> NoQuota]
TheKeyEnd    == (metered :> 9) @@ (admin :> 2)

OneKey       == {metered}
OneLimit     == metered :> 9
OneQuota     == metered :> 1
OneKeyEnd    == metered :> 9

\* What the quota depends on when no limit is ever reached: neither the windows nor their history.
QuotaView == <<keyVars, dayCount, expiry, usage, req, now, arrivals, faults, served>>

\* What windows and secrets depend on when no key has a quota and all are of administrators:
\* neither rows nor the quota counter, nor whether a path is one of theirs; of a request that was
\* resolved not its secret, and of one that was let through not its key.
WindowView ==
    LET seen(q) == IF q.pc \in {"serve", "record"} THEN <<q.pc, q.worker, q.dead>>
                   ELSE IF q.pc = "rate" THEN <<q.pc, q.worker, q.dead, q.key>>
                   ELSE <<q.pc, q.worker, q.dead, q.key, q.gen>>
    IN  <<keyVars, windowCount, local, [t \in Reqs |-> seen(req[t])],
          now, arrivals, passed, passedLocal>>

Symm == Permutations(Reqs) \cup Permutations(Workers)

=============================================================================
