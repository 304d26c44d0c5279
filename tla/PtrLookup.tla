------------------------------ MODULE PtrLookup ------------------------------
(***************************************************************************)
(* Reverse DNS for the devices a scan could not name (discovery/rdns.py).  *)
(* A pool of threads takes the addresses one by one and asks the resolvers *)
(* in order until one has a name.  A resolver that fails to reply several  *)
(* times in a row is left out of the rest of the pass; one that replies,   *)
(* though it knows no name, is not.  The strikes are shared by the         *)
(* threads, and looked at before a question, not while it is under way.    *)
(***************************************************************************)
EXTENDS Naturals, FiniteSets

CONSTANTS
    Addresses,     \* addresses of the pass, taken in order
    Resolvers,   \* length of the list; the last is the system's
    Workers,     \* threads
    Strikes      \* _DEAD_STRIKES

ASSUME PtrBounds ==
    /\ Addresses \in Nat /\ Resolvers \in Nat \ {0} /\ Strikes \in Nat \ {0}
    /\ IsFiniteSet(Workers)

Servers == 1..Resolvers
\* Knows the names, replies without one, never replies, or sometimes does.
Manners == {"names", "empty", "silent", "flaky"}

VARIABLES
    manner,      \* what each resolver is
    taken,     \* addresses handed to a thread
    job,       \* address and resolver of each thread; address 0 when it has none
    asking,    \* whether its question is under way
    strikes,   \* consecutive questions without a reply
    named,     \* addresses that got a name
    unheard    \* questions each resolver left without a reply (history)

ptrVars == <<manner, taken, job, asking, strikes, named, unheard>>

PtrInit ==
    /\ manner \in [Servers -> Manners]
    /\ taken = 0 /\ named = {}
    /\ job = [w \in Workers |-> <<0, 0>>] /\ asking = [w \in Workers |-> FALSE]
    /\ strikes = [r \in Servers |-> 0] /\ unheard = [r \in Servers |-> 0]

IsDead(r) == strikes[r] >= Strikes
Moves(w, j) == job' = [job EXCEPT ![w] = j]

Take(w) ==
    /\ job[w][1] = 0 /\ taken < Addresses
    /\ taken' = taken + 1 /\ Moves(w, <<taken', 1>>)
    /\ UNCHANGED <<manner, asking, strikes, named, unheard>>
\* Mutant of StepsOver: a dead resolver ends the search instead of being left out of it.
DeadEnds(w) ==
    /\ job[w][1] # 0 /\ ~asking[w] /\ job[w][2] =< Resolvers /\ IsDead(job[w][2])
    /\ Moves(w, <<job[w][1], Resolvers + 1>>)
    /\ UNCHANGED <<manner, taken, asking, strikes, named, unheard>>
StepsOver(w) ==
    /\ job[w][1] # 0 /\ ~asking[w] /\ job[w][2] =< Resolvers /\ IsDead(job[w][2])
    /\ Moves(w, <<job[w][1], job[w][2] + 1>>)
    /\ UNCHANGED <<manner, taken, asking, strikes, named, unheard>>
Ask(w) ==
    /\ job[w][1] # 0 /\ ~asking[w] /\ job[w][2] =< Resolvers /\ ~IsDead(job[w][2])
    /\ asking' = [asking EXCEPT ![w] = TRUE]
    /\ UNCHANGED <<manner, taken, job, strikes, named, unheard>>

NoReply(w) ==
    /\ asking[w] /\ manner[job[w][2]] \in {"silent", "flaky"}
    /\ asking' = [asking EXCEPT ![w] = FALSE]
    /\ strikes' = [strikes EXCEPT ![job[w][2]] = @ + 1]
    /\ unheard' = [unheard EXCEPT ![job[w][2]] = @ + 1]
    /\ Moves(w, <<job[w][1], job[w][2] + 1>>)
    /\ UNCHANGED <<manner, taken, named>>
\* Any reply clears the strikes; a name ends the search.
Reply(w) ==
    /\ asking[w] /\ manner[job[w][2]] # "silent"
    /\ asking' = [asking EXCEPT ![w] = FALSE]
    /\ strikes' = [strikes EXCEPT ![job[w][2]] = 0]
    /\ \/ manner[job[w][2]] # "empty" /\ Moves(w, <<0, 0>>) /\ named' = named \cup {job[w][1]}
       \/ manner[job[w][2]] # "names" /\ Moves(w, <<job[w][1], job[w][2] + 1>>) /\ UNCHANGED named
    /\ UNCHANGED <<manner, taken, unheard>>
GivesUp(w) ==
    /\ job[w][1] # 0 /\ job[w][2] > Resolvers
    /\ Moves(w, <<0, 0>>)
    /\ UNCHANGED <<manner, taken, asking, strikes, named, unheard>>

PtrNext == \E w \in Workers :
    Take(w) \/ StepsOver(w) \/ Ask(w) \/ NoReply(w) \/ Reply(w) \/ GivesUp(w)
PtrSpec == PtrInit /\ [][PtrNext]_ptrVars
-----------------------------------------------------------------------------
PtrTypeOK ==
    /\ taken \in 0..Addresses /\ named \subseteq 1..taken
    /\ \A w \in Workers : /\ job[w] \in (0..Addresses) \X (0..(Resolvers + 1))
                          /\ asking[w] => job[w][2] \in Servers

\* A resolver that never replies costs the pass no more than its strikes and one question
\* of every other thread, however many addresses there are; one that always replies is
\* never left out, so that an address it can name is named, whatever the others do.
DeadCostBounded ==
    /\ PtrTypeOK
    /\ \A r \in Servers : manner[r] = "silent" => unheard[r] < Strikes + Cardinality(Workers)
    /\ \A t \in 1..taken :
          (\E r \in Servers : manner[r] = "names") /\ (\A w \in Workers : job[w][1] # t) => t \in named
=============================================================================
