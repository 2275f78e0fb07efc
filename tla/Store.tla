-------------------------------- MODULE Store --------------------------------
(***************************************************************************)
(* What DatabaseService promises its callers: a unit of work - a statement,  *)
(* or a transaction of several - takes effect at once and whole, or not at   *)
(* all.  One answered with a result has taken effect; a transaction that is  *)
(* answered with an error has not, for a single statement nobody knows.      *)
(***************************************************************************)
EXTENDS FiniteSets

CONSTANTS Request

VARIABLES
  kind,     \* the unit of work each request has asked for
  effect,   \* which of its writes the tables show
  outcome   \* what has become of it

vars == <<kind, effect, outcome>>

Kind == {"statement", "transaction"}
Ends == {"ok", "error", "lost"}

\* The writes of a unit: one, or the two of a transaction.
Whole(k) == CASE k = "statement"   -> {1}
              [] k = "transaction" -> {1, 2}
              [] OTHER             -> {}

Start(r, k) ==
  /\ outcome[r] = "none"
  /\ outcome' = [outcome EXCEPT ![r] = "pending"]
  /\ kind' = [kind EXCEPT ![r] = k]
  /\ UNCHANGED effect

Allowed(r, end, shown) ==
  /\ end = "ok" => shown = Whole(kind[r])
  /\ end = "error" /\ kind[r] = "transaction" => shown = {}

Finish(r, end) ==
  /\ outcome[r] = "pending"
  /\ \E shown \in {{}, Whole(kind[r])} :
       Allowed(r, end, shown) /\ effect' = [effect EXCEPT ![r] = shown]
  /\ outcome' = [outcome EXCEPT ![r] = end]
  /\ UNCHANGED kind

\* The process ends: of what was pending some has taken effect.
Crash ==
  \E applied \in SUBSET {r \in Request : outcome[r] = "pending"} :
    /\ outcome' = [r \in Request |->
         IF outcome[r] = "pending" THEN "lost" ELSE outcome[r]]
    /\ effect' = [r \in Request |->
         IF r \in applied THEN Whole(kind[r]) ELSE effect[r]]
    /\ UNCHANGED kind

Forget(r) ==
  /\ outcome[r] \in Ends
  /\ outcome' = [outcome EXCEPT ![r] = "none"]
  /\ kind' = [kind EXCEPT ![r] = "none"]
  /\ effect' = [effect EXCEPT ![r] = {}]

-----------------------------------------------------------------------------
Init == /\ kind = [r \in Request |-> "none"]
        /\ effect = [r \in Request |-> {}]
        /\ outcome = [r \in Request |-> "none"]

Next == \/ \E r \in Request : \/ \E k \in Kind : Start(r, k)
                              \/ \E end \in {"ok", "error"} : Finish(r, end)
                              \/ Forget(r)
        \/ Crash

Spec == Init /\ [][Next]_vars
=============================================================================
