------------------------------ MODULE AvRefusal ------------------------------
(***************************************************************************)
(* AvStore with two history variables for the routes that are handed a     *)
(* location rather than a resource id.                                     *)
(*                                                                         *)
(* `owed` is, for a blocked resource, every spelling its row has had since *)
(* the block was imposed: the locations a fetch has to refuse, whether the *)
(* row is still there or not.  It is reset when an unblock begins, because *)
(* from then on the operator no longer asks for the refusal.               *)
(*                                                                         *)
(* `open` holds the workers whose fetch was for a location that was not    *)
(* refused at some instant since the fetch began.                          *)
(***************************************************************************)
EXTENDS AvStore

VARIABLES owed, open

refusalVars == <<vars, owed, open>>

\* An unblock of this resource, or of all of them, is under way.
Lifting(i) ==
    \E m \in Moderators :
        \/ At(m, "remove") /\ proc[m].id = i
        \/ proc[m].at \in {"forget_each", "clear_all"}

SpellingSet(row) ==
    IF row = None THEN {} ELSE {row.location, row.canonical} \ {None}

Fetching(w) ==
    proc[w].at \in {"recorded", "joined", "admit"} /\ proc[w].id = None

KeepAccount ==
    /\ owed' = [i \in Ids |->
                   IF i \notin BlockedResources' \/ Lifting(i)' THEN {}
                   ELSE owed[i] \cup SpellingSet(resources[i])']
    /\ open' = {w \in Workers :
                   Fetching(w)' /\ (w \in open \/ ~Refused(proc[w].loc)')}

RefusalInit ==
    /\ Init
    /\ owed = [i \in Ids |-> {}]
    /\ open = {}

RefusalNext == Next /\ KeepAccount

RefusalSpec == RefusalInit /\ [][RefusalNext]_refusalVars

\* No worker takes the row of a blocked resource from a block that has yet to record
\* all its spellings, nor puts another in its place while one records.
Orderly ==
    \A i \in BlockedResources :
        resources'[i] # resources[i] /\ (\A m \in Moderators : proc'[m] = proc[m]) =>
            /\ \A l \in SpellingSet(resources[i]) : <<i, l>> \in blockedLocs
            /\ \/ resources'[i] = None
               \/ \A m \in Moderators : At(m, "record") => proc[m].id # i

OrderlySpec == RefusalInit /\ [][RefusalNext /\ Orderly]_refusalVars

(***************************************************************************)
(* The block outlives the local copy: every spelling a blocked resource    *)
(* was held under since the block is refused, at every instant until an    *)
(* unblock begins, whichever statement of the block the process dies at,   *)
(* and whoever purges the row once it is recorded (block.rs: "That         *)
(* resource can be purged later, [...] and a block that quietly stops      *)
(* applying once the file is cleaned up is not a block").  The spellings   *)
(* therefore have to be recorded before the row that is the only other     *)
(* trace of them is deleted.  Under RefusalSpec, where a purge may come    *)
(* before the block has recorded them, it does not hold.                   *)
(***************************************************************************)
RefusalHolds ==
    \A i \in BlockedResources : \A l \in owed[i] : Refused(l)

(***************************************************************************)
(* What a fetch is let through to was, at some instant since the fetch     *)
(* began, a location that is not refused.                                  *)
(***************************************************************************)
FetchWasOpen == \A w \in Workers : At(w, "admit") => w \in open
=============================================================================
