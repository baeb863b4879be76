--------------------------- MODULE NeighborViews ---------------------------
(***************************************************************************)
(* The tracker's bounded neighbor views of one broadcast                   *)
(* (tracker/src/neighbor-views.ts).  The two Maps of the code, views and   *)
(* watchers, are two relations that every operation must keep in step.     *)
(* Every operation is synchronous; TrackerHub calls them.                  *)
(*                                                                         *)
(* fill samples at random until it has seen enough peers with room or has  *)
(* spent a budget of at least 64 candidates.  The model lets it see every  *)
(* member, which is what it does in an audience of up to 64.               *)
(***************************************************************************)
EXTENDS Naturals, FiniteSets

CONSTANTS
  Peers,
  ViewSize \* NeighborViews.size

ASSUME ViewAssumption ==
  /\ IsFiniteSet(Peers)
  /\ ViewSize \in Nat \ {0}

VARIABLES
  registered, \* members: the peers known to the views
  sees,       \* views: <<p, q>> if p sees q
  seenBy      \* watchers: <<q, p>> if q is seen by p

viewVars == <<registered, sees, seenBy>>

View(p)     == {q \in Peers : <<p, q>> \in sees}
Watchers(p) == {q \in Peers : <<p, q>> \in seenBy}
HasRoom(p)  == Cardinality(View(p)) < ViewSize
Flip(links) == {<<e[2], e[1]>> : e \in links}

ViewsInit == registered = {} /\ sees = {} /\ seenBy = {}

-----------------------------------------------------------------------------
(* fill(p) in a broadcast with the members `known` *)

Candidates(p, known) == known \ ({p} \cup View(p))

\* A mutant of Additions: full peers are never a fallback.
AdditionsWithRoom(p, known) ==
  LET roomy  == {c \in Candidates(p, known) : HasRoom(c)}
      wanted == ViewSize - Cardinality(View(p))
  IN  {A \in SUBSET roomy : Cardinality(A) <= wanted /\ (Cardinality(A) = wanted \/ A = roomy)}

\* The sets of peers that fill may add to the view of p: as many as it wants,
\* and full ones only when those with room do not suffice.
Additions(p, known) ==
  LET all    == Candidates(p, known)
      wanted == ViewSize - Cardinality(View(p))
  IN  {A \in SUBSET all :
         /\ Cardinality(A) <= wanted
         /\ Cardinality(A) = wanted \/ A = all
         /\ (\A c \in A : HasRoom(c)) \/ {c \in all : HasRoom(c)} \subseteq A}

\* Peers that see p in return, and the full ones that drop a neighbor for it.
Reciprocal(p, A) == {c \in A : <<c, p>> \notin sees}
Crowded(p, A)    == {c \in Reciprocal(p, A) : ~HasRoom(c)}

\* The sets of links that may be evicted: a random neighbor of each.
Evictions(p, A) ==
  {E \in SUBSET {e \in sees : e[1] \in Crowded(p, A)} :
     \A c \in Crowded(p, A) : Cardinality({e \in E : e[1] = c}) = 1}

\* Link p with the peers of A both ways, unlink the evicted pairs.
Relink(p, known, A, E) ==
  LET links == ({p} \X A) \cup (A \X {p})
  IN  /\ registered' = known
      /\ sees' = (sees \ E) \cup links
      /\ seenBy' = (seenBy \ Flip(E)) \cup links

\* A mutant of Leave: the neighbors of p are still watched by it.
LeaveWatching(p) ==
  /\ registered' = registered \ {p}
  /\ sees' = {e \in sees : e[1] # p /\ ~(e[2] = p /\ e[1] \in Watchers(p))}
  /\ seenBy' = {e \in seenBy : e[1] # p}

\* leave(p): its neighbors are no longer watched by it, its watchers no longer
\* see it.
Leave(p) ==
  /\ registered' = registered \ {p}
  /\ sees' = {e \in sees : e[1] # p /\ ~(e[2] = p /\ e[1] \in Watchers(p))}
  /\ seenBy' = {e \in seenBy : e[1] # p /\ ~(e[2] = p /\ e[1] \in View(p))}

\* removeBroadcast, and a restart of the tracker.
ForgetViews == registered' = {} /\ sees' = {} /\ seenBy' = {}

-----------------------------------------------------------------------------
\* Nobody sees itself, a stranger, or more than ViewSize peers, and the two
\* Maps describe the same links, however fills, evictions and departures mix:
\* a watcher forgotten in one of them is never told that its neighbor left.
ViewsInSync ==
  /\ sees \subseteq registered \X registered
  /\ seenBy = Flip(sees)
  /\ \A p \in Peers : p \notin View(p) /\ Cardinality(View(p)) <= ViewSize
=============================================================================
