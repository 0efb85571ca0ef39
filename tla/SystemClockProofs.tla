------------------------- MODULE SystemClockProofs -------------------------
(***************************************************************************)
(* Theorems about the system clock.  For every number of alarms and every  *)
(* width of the tick counter, as long as no callback stops the alarm       *)
(* alt_tick visits next: the list stays a ring, and an alarm rings on its  *)
(* tick.  For every clock rate, time and sleep: the time of day advances   *)
(* with the ticks, and a sleep is never short.  For every set of calls:    *)
(* the profiler counts each of them, in memory of its own.                 *)
(***************************************************************************)
EXTENDS SystemClock, SequenceTheorems, FiniteSetTheorems, WellFoundedInduction, TLAPS

-----------------------------------------------------------------------------
(* The list, as a pair of link functions: who is in it, that it is a ring  *)
(* through Root, and that positions rise along it, so that the node after  *)
(* x is the nearest above x and only the last one leads back to Root.      *)
Links == [Node -> Node \union {NULL}]

In(nx, x) == x = Root \/ (nx[x] # NULL /\ nx[x] # x)

Ringed(nx, pv) ==
  \A x \in Node : In(nx, x) => /\ nx[x] \in Node /\ pv[x] \in Node
                               /\ In(nx, nx[x]) /\ In(nx, pv[x])
                               /\ pv[nx[x]] = x /\ nx[pv[x]] = x

Ordered(nx, pos) ==
  /\ \A a \in Alarm : In(nx, a) => pos[Root] < pos[a]
  /\ \A x \in Node : In(nx, x) /\ nx[x] # Root => pos[x] < pos[nx[x]]
  /\ \A x, y \in Node : In(nx, x) /\ In(nx, y) /\ pos[x] = pos[y] => x = y
  /\ \A x, y \in Node : In(nx, x) /\ In(nx, y) /\ pos[x] < pos[y]
                          => nx[x] # Root /\ pos[nx[x]] <= pos[y]

LEMMA Nodes == /\ Root \in Node /\ Alarm \subseteq Node /\ NULL \notin Node /\ Root \notin Alarm
               /\ \A x \in Node : x # Root => x \in Alarm
  BY AlarmAssumption DEF Node

(* What alt_llist_insert does to the list, link by link.                   *)
Inserts(nx, pv, nx2, pv2, a) ==
  /\ nx \in Links /\ pv \in Links /\ Ringed(nx, pv)
  /\ a \in Alarm /\ ~In(nx, a)
  /\ nx2 = [nx EXCEPT ![a] = nx[Root], ![Root] = a]
  /\ pv2 = [pv EXCEPT ![a] = Root, ![nx[Root]] = a]

LEMMA InsertLinks ==
  ASSUME NEW nx, NEW pv, NEW nx2, NEW pv2, NEW a, Inserts(nx, pv, nx2, pv2, a)
  PROVE  /\ nx2 \in Links /\ pv2 \in Links
         /\ \A x \in Node : nx2[x] = IF x = Root THEN a ELSE IF x = a THEN nx[Root] ELSE nx[x]
         /\ \A x \in Node : pv2[x] = IF x = nx[Root] THEN a ELSE IF x = a THEN Root ELSE pv[x]
         /\ nx[Root] \in Node /\ In(nx, nx[Root]) /\ nx[Root] # a /\ a # Root
<1>1. nx[Root] \in Node /\ In(nx, nx[Root]) /\ nx[Root] # a /\ a # Root /\ a \in Node /\ Root \in Node
  BY Nodes DEF Inserts, Ringed, In
<1>2. nx2 \in Links /\ pv2 \in Links
  BY <1>1 DEF Links, Inserts
<1>3. \A x \in Node : nx2[x] = IF x = Root THEN a ELSE IF x = a THEN nx[Root] ELSE nx[x]
  BY <1>1 DEF Links, Inserts
<1>4. \A x \in Node : pv2[x] = IF x = nx[Root] THEN a ELSE IF x = a THEN Root ELSE pv[x]
  BY <1>1 DEF Links, Inserts
<1> QED BY <1>1, <1>2, <1>3, <1>4

LEMMA InsertKeepsRing ==
  ASSUME NEW nx, NEW pv, NEW nx2, NEW pv2, NEW a, Inserts(nx, pv, nx2, pv2, a)
  PROVE  /\ \A x \in Node : In(nx2, x) <=> In(nx, x) \/ x = a
         /\ Ringed(nx2, pv2)
<1>1. /\ \A x \in Node : nx2[x] = IF x = Root THEN a ELSE IF x = a THEN nx[Root] ELSE nx[x]
      /\ \A x \in Node : pv2[x] = IF x = nx[Root] THEN a ELSE IF x = a THEN Root ELSE pv[x]
      /\ nx[Root] \in Node /\ In(nx, nx[Root]) /\ nx[Root] # a /\ a # Root
  BY InsertLinks
<1>2. \A x \in Node : In(nx2, x) <=> In(nx, x) \/ x = a
  BY <1>1, Nodes DEF In, Inserts
<1>5. Ringed(nx, pv) /\ a \in Alarm /\ ~In(nx, a)
  BY DEF Inserts
<1>3. ASSUME NEW x \in Node, In(nx2, x)
      PROVE  /\ nx2[x] \in Node /\ pv2[x] \in Node
             /\ In(nx2, nx2[x]) /\ In(nx2, pv2[x])
             /\ pv2[nx2[x]] = x /\ nx2[pv2[x]] = x
  <2>1. a \in Node /\ Root \in Node /\ In(nx, Root)
    BY <1>5, Nodes DEF In
  <2>2. CASE x = a
    <3>1. nx2[x] = nx[Root] /\ pv2[x] = Root
      BY <1>1, <2>1, <2>2
    <3> QED BY <1>1, <1>2, <2>1, <2>2, <3>1
  <2>3. CASE x = Root
    <3>1. nx2[x] = a
      BY <1>1, <2>1, <2>3
    <3>2. pv[Root] \in Node /\ In(nx, pv[Root]) /\ nx[pv[Root]] = Root
      BY <1>5, <2>1 DEF Ringed
    <3>3. CASE nx[Root] = Root
      BY <1>1, <1>2, <2>1, <2>3, <3>1, <3>3
    <3>4. CASE nx[Root] # Root
      <4>1. pv2[x] = pv[Root] /\ pv[Root] # Root /\ pv[Root] # a
        BY <1>1, <1>5, <2>1, <2>3, <3>2, <3>4
      <4> QED BY <1>1, <1>2, <2>1, <2>3, <3>1, <3>2, <4>1
    <3> QED BY <3>3, <3>4
  <2>4. CASE x # a /\ x # Root
    <3>1. /\ In(nx, x) /\ nx[x] \in Node /\ pv[x] \in Node /\ In(nx, nx[x]) /\ In(nx, pv[x])
          /\ pv[nx[x]] = x /\ nx[pv[x]] = x
      <4>1. In(nx, x)
        BY <1>2, <1>3, <2>4
      <4> QED BY <1>5, <4>1 DEF Ringed
    <3>2. nx2[x] = nx[x] /\ nx[x] # a /\ pv[x] # a
      BY <1>1, <1>5, <2>4, <3>1
    <3>3. In(nx2, nx2[x]) /\ pv2[nx2[x]] = x
      <4>1. nx[x] # nx[Root]
        BY <1>5, <2>1, <2>4, <3>1 DEF Ringed
      <4> QED BY <1>1, <1>2, <3>1, <3>2, <4>1
    <3>4. In(nx2, pv2[x]) /\ nx2[pv2[x]] = x /\ pv2[x] \in Node
      <4>1. CASE x = nx[Root]
        BY <1>1, <1>2, <2>1, <2>4, <4>1
      <4>2. CASE x # nx[Root]
        <5>1. pv2[x] = pv[x] /\ pv[x] # Root
          BY <1>1, <2>4, <3>1, <4>2
        <5> QED BY <1>1, <1>2, <3>1, <3>2, <5>1
      <4> QED BY <4>1, <4>2
    <3> QED BY <3>1, <3>2, <3>3, <3>4
  <2> QED BY <2>2, <2>3, <2>4
<1>4. Ringed(nx2, pv2)
  BY <1>3 DEF Ringed
<1> QED BY <1>2, <1>4

(* The new node takes the position of Root, which moves down by one.       *)
LEMMA InsertKeepsOrder ==
  ASSUME NEW nx, NEW pv, NEW nx2, NEW pv2, NEW a, Inserts(nx, pv, nx2, pv2, a),
         NEW pos \in [Node -> Int], Ordered(nx, pos)
  PROVE  \E pos2 \in [Node -> Int] :
           /\ Ordered(nx2, pos2)
           /\ \A x \in Alarm : x # a => pos2[x] = pos[x]
<1> DEFINE pos2 == [pos EXCEPT ![a] = pos[Root], ![Root] = pos[Root] - 1]
<1>1. /\ \A x \in Node : nx2[x] = IF x = Root THEN a ELSE IF x = a THEN nx[Root] ELSE nx[x]
      /\ nx[Root] \in Node /\ In(nx, nx[Root]) /\ nx[Root] # a /\ a # Root
  BY InsertLinks
<1>2. \A x \in Node : In(nx2, x) <=> In(nx, x) \/ x = a
  BY InsertKeepsRing
<1>12. Ringed(nx, pv) /\ a \in Alarm /\ ~In(nx, a)
  BY DEF Inserts
<1>3. a \in Node /\ Root \in Node /\ In(nx, Root)
  BY <1>12, Nodes DEF In
<1>4. \A x \in Node : /\ pos[x] \in Int
                      /\ pos2[x] = IF x = Root THEN pos[Root] - 1 ELSE IF x = a THEN pos[Root] ELSE pos[x]
  BY <1>1, <1>3
<1>5. pos2 \in [Node -> Int]
  BY <1>3
<1> HIDE DEF pos2
<1>6. \A x \in Node : In(nx, x) /\ x # Root => pos[Root] < pos[x]
  BY Nodes DEF Ordered
<1>7. \A x \in Alarm : In(nx2, x) => pos2[Root] < pos2[x]
  BY <1>1, <1>2, <1>3, <1>4, <1>6, Nodes
<1>8. \A x, y \in Node : In(nx2, x) /\ In(nx2, y) /\ pos2[x] = pos2[y] => x = y
  <2> SUFFICES ASSUME NEW x \in Node, NEW y \in Node, In(nx2, x), In(nx2, y), pos2[x] = pos2[y], x # y
               PROVE  FALSE
    OBVIOUS
  <2>1. x \notin {a, Root} \/ y \notin {a, Root}
    BY <1>1, <1>3, <1>4
  <2>2. CASE x \notin {a, Root} /\ y \notin {a, Root}
    BY <1>2, <1>4, <2>2 DEF Ordered
  <2>3. CASE x \in {a, Root} /\ y \notin {a, Root}
    BY <1>1, <1>2, <1>3, <1>4, <1>6, <2>3
  <2>4. CASE y \in {a, Root} /\ x \notin {a, Root}
    BY <1>1, <1>2, <1>3, <1>4, <1>6, <2>4
  <2> QED BY <2>1, <2>2, <2>3, <2>4
<1>9. ASSUME NEW x \in Node, NEW y \in Node, In(nx2, x), In(nx2, y), pos2[x] < pos2[y]
      PROVE  nx2[x] # Root /\ pos2[nx2[x]] <= pos2[y]
  <2>1. y # Root
    BY <1>2, <1>3, <1>4, <1>6, <1>1, <1>9
  <2>2. CASE x = Root
    <3>1. nx2[x] = a
      BY <1>1, <1>3, <2>2
    <3>2. pos2[a] <= pos2[y]
      BY <1>1, <1>2, <1>3, <1>4, <1>6, <1>9, <2>1
    <3> QED BY <1>1, <3>1, <3>2
  <2>3. CASE x = a
    <3>1. In(nx, y) /\ y # a /\ pos[Root] < pos[y] /\ pos2[y] = pos[y] /\ nx2[x] = nx[Root]
      BY <1>1, <1>2, <1>3, <1>4, <1>6, <1>9, <1>12, <2>1, <2>3
    <3>2. nx[Root] # Root /\ pos[nx[Root]] <= pos[y]
      BY <1>3, <3>1 DEF Ordered
    <3> QED BY <1>1, <1>4, <3>1, <3>2
  <2>4. CASE x # Root /\ x # a
    <3>1. In(nx, x) /\ pos2[x] = pos[x] /\ pos[Root] < pos[x] /\ nx2[x] = nx[x]
      BY <1>1, <1>2, <1>4, <1>6, <1>9, <2>4
    <3>2. y # a /\ In(nx, y) /\ pos2[y] = pos[y]
      BY <1>1, <1>2, <1>3, <1>4, <1>9, <1>12, <2>1, <3>1
    <3>3. nx[x] # Root /\ pos[nx[x]] <= pos[y]
      BY <1>9, <3>1, <3>2 DEF Ordered
    <3>4. nx[x] \in Node /\ In(nx, nx[x]) /\ nx[x] # a
      BY <1>12, <3>1 DEF Ringed
    <3> QED BY <1>4, <3>1, <3>2, <3>3, <3>4
  <2> QED BY <2>2, <2>3, <2>4
<1>13. ASSUME NEW x \in Node, In(nx2, x), nx2[x] # Root
       PROVE  pos2[x] < pos2[nx2[x]]
  <2>1. CASE x = Root
    BY <1>1, <1>3, <1>4, <2>1
  <2>2. CASE x = a
    <3>1. nx2[x] = nx[Root] /\ nx[Root] # Root /\ pos[Root] < pos[nx[Root]]
      BY <1>1, <1>3, <1>6, <1>13, <2>2
    <3> QED BY <1>1, <1>3, <1>4, <2>2, <3>1
  <2>3. CASE x # Root /\ x # a
    <3>1. In(nx, x) /\ nx2[x] = nx[x] /\ nx[x] # Root
      BY <1>1, <1>2, <1>13, <2>3
    <3>2. pos[x] < pos[nx[x]] /\ nx[x] \in Node /\ nx[x] # a
      BY <1>12, <3>1 DEF Ordered, Ringed
    <3> QED BY <1>4, <2>3, <3>1, <3>2
  <2> QED BY <2>1, <2>2, <2>3
<1>10. Ordered(nx2, pos2)
  BY <1>7, <1>8, <1>9, <1>13 DEF Ordered
<1>11. \A x \in Alarm : x # a => pos2[x] = pos[x]
  BY <1>4, Nodes
<1> QED BY <1>5, <1>10, <1>11

(* What alt_llist_remove does to a listed node.                            *)
Removes(nx, pv, nx2, pv2, a) ==
  /\ nx \in Links /\ pv \in Links /\ Ringed(nx, pv)
  /\ a \in Alarm /\ In(nx, a)
  /\ nx2 = [nx EXCEPT ![pv[a]] = nx[a], ![a] = a]
  /\ pv2 = [pv EXCEPT ![nx[a]] = pv[a], ![a] = a]

LEMMA RemoveLinks ==
  ASSUME NEW nx, NEW pv, NEW nx2, NEW pv2, NEW a, Removes(nx, pv, nx2, pv2, a)
  PROVE  /\ nx2 \in Links /\ pv2 \in Links
         /\ \A x \in Node : nx2[x] = IF x = a THEN a ELSE IF x = pv[a] THEN nx[a] ELSE nx[x]
         /\ \A x \in Node : pv2[x] = IF x = a THEN a ELSE IF x = nx[a] THEN pv[a] ELSE pv[x]
         /\ nx[a] \in Node /\ In(nx, nx[a]) /\ nx[a] # a
         /\ pv[a] \in Node /\ In(nx, pv[a]) /\ pv[a] # a
         /\ a \in Node /\ a # Root /\ nx[pv[a]] = a /\ pv[nx[a]] = a
<1>1. a \in Node /\ a # Root
  BY Nodes DEF Removes
<1>2. /\ nx[a] \in Node /\ In(nx, nx[a]) /\ pv[a] \in Node /\ In(nx, pv[a])
      /\ nx[pv[a]] = a /\ pv[nx[a]] = a
  BY <1>1 DEF Removes, Ringed
<1>3. nx[a] # a /\ pv[a] # a
  BY <1>1, <1>2 DEF Removes, In
<1>4. nx2 \in Links /\ pv2 \in Links
  BY <1>1, <1>2 DEF Links, Removes
<1>5. \A x \in Node : nx2[x] = IF x = a THEN a ELSE IF x = pv[a] THEN nx[a] ELSE nx[x]
  BY <1>1, <1>2, <1>3 DEF Links, Removes
<1>6. \A x \in Node : pv2[x] = IF x = a THEN a ELSE IF x = nx[a] THEN pv[a] ELSE pv[x]
  BY <1>1, <1>2, <1>3 DEF Links, Removes
<1> QED BY <1>1, <1>2, <1>3, <1>4, <1>5, <1>6

LEMMA RemoveKeepsRing ==
  ASSUME NEW nx, NEW pv, NEW nx2, NEW pv2, NEW a, Removes(nx, pv, nx2, pv2, a),
         NEW pos \in [Node -> Int], Ordered(nx, pos)
  PROVE  /\ \A x \in Node : In(nx2, x) <=> In(nx, x) /\ x # a
         /\ Ringed(nx2, pv2)
<1>1. /\ \A x \in Node : nx2[x] = IF x = a THEN a ELSE IF x = pv[a] THEN nx[a] ELSE nx[x]
      /\ \A x \in Node : pv2[x] = IF x = a THEN a ELSE IF x = nx[a] THEN pv[a] ELSE pv[x]
      /\ nx[a] \in Node /\ In(nx, nx[a]) /\ nx[a] # a
      /\ pv[a] \in Node /\ In(nx, pv[a]) /\ pv[a] # a
      /\ a \in Node /\ a # Root /\ nx[pv[a]] = a /\ pv[nx[a]] = a
  BY RemoveLinks
<1>2. Ringed(nx, pv)
  BY DEF Removes
<1>3. pv[a] = nx[a] => pv[a] = Root
  <2> SUFFICES ASSUME pv[a] = nx[a], pv[a] # Root PROVE FALSE
    OBVIOUS
  <2>1. pos[pv[a]] < pos[a] /\ pos[a] < pos[nx[a]]
    BY <1>1 DEF Ordered, Removes
  <2> QED BY <1>1, <2>1
<1>4. ASSUME NEW x \in Node
      PROVE  In(nx2, x) <=> In(nx, x) /\ x # a
  <2>1. CASE x = a
    BY <1>1, <2>1 DEF In
  <2>2. CASE x = pv[a] /\ x # a
    <3>1. nx2[x] = nx[a]
      BY <1>1, <2>2
    <3>2. x = Root \/ nx2[x] # x
      BY <1>3, <2>2, <3>1
    <3>3. nx2[x] # NULL
      BY <1>1, <3>1, Nodes
    <3> QED BY <1>1, <2>2, <3>2, <3>3 DEF In
  <2>3. CASE x # pv[a] /\ x # a
    BY <1>1, <2>3 DEF In
  <2> QED BY <2>1, <2>2, <2>3
<1>5. ASSUME NEW x \in Node, In(nx2, x)
      PROVE  /\ nx2[x] \in Node /\ pv2[x] \in Node
             /\ In(nx2, nx2[x]) /\ In(nx2, pv2[x])
             /\ pv2[nx2[x]] = x /\ nx2[pv2[x]] = x
  <2>1. In(nx, x) /\ x # a
    BY <1>4, <1>5
  <2>2. /\ nx[x] \in Node /\ pv[x] \in Node /\ In(nx, nx[x]) /\ In(nx, pv[x])
        /\ pv[nx[x]] = x /\ nx[pv[x]] = x
    BY <1>2, <2>1 DEF Ringed
  <2>3. nx2[x] \in Node /\ In(nx2, nx2[x]) /\ pv2[nx2[x]] = x
    <3>1. CASE x = pv[a]
      BY <1>1, <1>4, <2>1, <3>1
    <3>2. CASE x # pv[a]
      <4>1. nx2[x] = nx[x] /\ nx[x] # a /\ nx[x] # nx[a]
        BY <1>1, <2>1, <2>2, <3>2
      <4> QED BY <1>1, <1>4, <2>2, <4>1
    <3> QED BY <3>1, <3>2
  <2>4. pv2[x] \in Node /\ In(nx2, pv2[x]) /\ nx2[pv2[x]] = x
    <3>1. CASE x = nx[a]
      BY <1>1, <1>4, <2>1, <3>1
    <3>2. CASE x # nx[a]
      <4>1. pv2[x] = pv[x] /\ pv[x] # a /\ pv[x] # pv[a]
        BY <1>1, <2>1, <2>2, <3>2
      <4> QED BY <1>1, <1>4, <2>2, <4>1
    <3> QED BY <3>1, <3>2
  <2> QED BY <2>3, <2>4
<1>6. Ringed(nx2, pv2)
  BY <1>5 DEF Ringed
<1> QED BY <1>4, <1>6

(* The other nodes keep their positions.                                   *)
LEMMA RemoveKeepsOrder ==
  ASSUME NEW nx, NEW pv, NEW nx2, NEW pv2, NEW a, Removes(nx, pv, nx2, pv2, a),
         NEW pos \in [Node -> Int], Ordered(nx, pos)
  PROVE  Ordered(nx2, pos)
<1>1. /\ \A x \in Node : nx2[x] = IF x = a THEN a ELSE IF x = pv[a] THEN nx[a] ELSE nx[x]
      /\ nx[a] \in Node /\ In(nx, nx[a]) /\ nx[a] # a
      /\ pv[a] \in Node /\ In(nx, pv[a]) /\ pv[a] # a
      /\ a \in Node /\ a # Root /\ nx[pv[a]] = a
  BY RemoveLinks
<1>2. \A x \in Node : In(nx2, x) <=> In(nx, x) /\ x # a
  BY RemoveKeepsRing
<1>3. In(nx, a) /\ \A x \in Node : pos[x] \in Int
  BY DEF Removes
<1>4. \A x \in Alarm : In(nx2, x) => pos[Root] < pos[x]
  BY <1>2, Nodes DEF Ordered
<1>5. \A x, y \in Node : In(nx2, x) /\ In(nx2, y) /\ pos[x] = pos[y] => x = y
  BY <1>2 DEF Ordered
<1>6. pos[pv[a]] < pos[a]
  BY <1>1 DEF Ordered
<1>7. ASSUME NEW x \in Node, In(nx2, x), nx2[x] # Root
      PROVE  pos[x] < pos[nx2[x]]
  <2>1. In(nx, x) /\ x # a
    BY <1>2, <1>7
  <2>2. CASE x = pv[a]
    <3>1. nx2[x] = nx[a]
      BY <1>1, <2>1, <2>2
    <3>2. pos[a] < pos[nx[a]]
      BY <1>1, <1>3, <1>7, <3>1 DEF Ordered
    <3> QED BY <1>1, <1>3, <1>6, <2>2, <3>1, <3>2
  <2>3. CASE x # pv[a]
    BY <1>1, <1>7, <2>1, <2>3 DEF Ordered
  <2> QED BY <2>2, <2>3
<1>8. ASSUME NEW x \in Node, NEW y \in Node, In(nx2, x), In(nx2, y), pos[x] < pos[y]
      PROVE  nx2[x] # Root /\ pos[nx2[x]] <= pos[y]
  <2>1. In(nx, x) /\ x # a /\ In(nx, y) /\ y # a
    BY <1>2, <1>8
  <2>2. nx[x] # Root /\ pos[nx[x]] <= pos[y]
    BY <1>8, <2>1 DEF Ordered
  <2>3. CASE x = pv[a]
    <3>1. nx[x] = a /\ nx2[x] = nx[a]
      BY <1>1, <2>1, <2>3
    <3>2. pos[a] # pos[y]
      BY <1>1, <1>3, <2>1 DEF Ordered
    <3>3. pos[a] < pos[y]
      BY <1>1, <1>3, <2>2, <3>1, <3>2
    <3>4. nx[a] # Root /\ pos[nx[a]] <= pos[y]
      BY <1>1, <1>3, <2>1, <3>3 DEF Ordered
    <3> QED BY <3>1, <3>4
  <2>4. CASE x # pv[a]
    BY <1>1, <2>1, <2>2, <2>4
  <2> QED BY <2>3, <2>4
<1> QED BY <1>4, <1>5, <1>7, <1>8 DEF Ordered

(* Either change leaves a node that points to itself doing so both ways.   *)
LoopsBack(nx, pv) == \A a \in Alarm : nx[a] = a => pv[a] = a

LEMMA InsertLoops ==
  ASSUME NEW nx, NEW pv, NEW nx2, NEW pv2, NEW a, Inserts(nx, pv, nx2, pv2, a), LoopsBack(nx, pv)
  PROVE  LoopsBack(nx2, pv2)
<1>1. /\ \A x \in Node : nx2[x] = IF x = Root THEN a ELSE IF x = a THEN nx[Root] ELSE nx[x]
      /\ \A x \in Node : pv2[x] = IF x = nx[Root] THEN a ELSE IF x = a THEN Root ELSE pv[x]
      /\ nx[Root] \in Node /\ In(nx, nx[Root]) /\ nx[Root] # a /\ a # Root
  BY InsertLinks
<1>2. ASSUME NEW b \in Alarm, nx2[b] = b
      PROVE  pv2[b] = b
  <2>1. b \in Node /\ b # Root
    BY Nodes
  <2>2. nx[b] = b /\ b # a
    BY <1>1, <1>2, <2>1
  <2>3. b # nx[Root]
    BY <1>1, <2>1, <2>2 DEF In
  <2> QED BY <1>1, <2>1, <2>2, <2>3 DEF LoopsBack
<1> QED BY <1>2 DEF LoopsBack

LEMMA RemoveLoops ==
  ASSUME NEW nx, NEW pv, NEW nx2, NEW pv2, NEW a, Removes(nx, pv, nx2, pv2, a), LoopsBack(nx, pv),
         NEW pos \in [Node -> Int], Ordered(nx, pos)
  PROVE  LoopsBack(nx2, pv2)
<1>1. /\ \A x \in Node : nx2[x] = IF x = a THEN a ELSE IF x = pv[a] THEN nx[a] ELSE nx[x]
      /\ \A x \in Node : pv2[x] = IF x = a THEN a ELSE IF x = nx[a] THEN pv[a] ELSE pv[x]
      /\ In(nx, nx[a]) /\ In(nx, pv[a])
  BY RemoveLinks
<1>2. \A x \in Node : In(nx2, x) <=> In(nx, x) /\ x # a
  BY RemoveKeepsRing
<1>3. ASSUME NEW b \in Alarm, nx2[b] = b
      PROVE  pv2[b] = b
  <2>1. b \in Node /\ b # Root
    BY Nodes
  <2>2. ~In(nx2, b)
    BY <1>3, <2>1 DEF In
  <2>3. CASE b = a
    BY <1>1, <2>1, <2>3
  <2>4. CASE b # a
    <3>1. ~In(nx, b)
      BY <1>2, <2>1, <2>2, <2>4
    <3>2. b # nx[a] /\ b # pv[a]
      BY <1>1, <3>1
    <3> QED BY <1>1, <1>3, <2>1, <2>4, <3>2 DEF LoopsBack
  <2> QED BY <2>3, <2>4
<1> QED BY <1>3 DEF LoopsBack

(* Unlinking a node that is not in the list changes nothing.               *)
LEMMA RemoveNothing ==
  ASSUME NEW nx \in Links, NEW pv \in Links, LoopsBack(nx, pv),
         NEW a \in Alarm, ~In(nx, a), nx[a] # NULL
  PROVE  /\ [nx EXCEPT ![pv[a]] = nx[a], ![a] = a] = nx
         /\ [pv EXCEPT ![nx[a]] = pv[a], ![a] = a] = pv
<1>1. a \in Node /\ nx[a] = a /\ pv[a] = a
  BY Nodes DEF In, LoopsBack
<1> QED BY <1>1 DEF Links

-----------------------------------------------------------------------------
(* Words.  What is left of an alarm set to time t at tick n, with its      *)
(* rollover flag r.                                                        *)
LeftOf(t, n, r) == t - n + (IF r /\ n # 0 THEN Wrap ELSE 0)

LEMMA WrapIs ==
  ASSUME NEW x \in 0 .. 2 * Wrap - 1
  PROVE  x % Wrap = IF x < Wrap THEN x ELSE x - Wrap
<1>1. Wrap \in Nat /\ Wrap > 2
  BY AlarmAssumption
<1>2. CASE x < Wrap
  BY <1>1, <1>2
<1>3. CASE ~(x < Wrap)
  BY <1>1, <1>3
<1> QED BY <1>2, <1>3

(* An alarm set k ticks ahead has k ticks left, on either side of a wrap.  *)
LEMMA AheadTime ==
  ASSUME NEW n \in Word, NEW k \in 1 .. Wrap - 1, NEW due, due = (n + k) % Wrap
  PROVE  due \in Word /\ LeftOf(due, n, due < n) = k /\ (n = 0 => ~(due < n))
<1>1. Wrap \in Nat /\ Wrap > 2
  BY AlarmAssumption
<1>2. n + k \in 0 .. 2 * Wrap - 1 /\ n \in Nat /\ n < Wrap /\ k \in Nat
  BY <1>1 DEF Word
<1>3. due = IF n + k < Wrap THEN n + k ELSE n + k - Wrap
  <2>1. \A x \in 0 .. 2 * Wrap - 1 : x % Wrap = IF x < Wrap THEN x ELSE x - Wrap
    BY WrapIs
  <2> QED BY <1>1, <1>2, <2>1
<1> QED BY <1>1, <1>2, <1>3 DEF Word, LeftOf

LEMMA TickTime ==
  ASSUME NEW n \in Word, NEW t \in Word, NEW r \in BOOLEAN, n = 0 => ~r,
         LeftOf(t, n, r) \in 1 .. Wrap - 1
  PROVE  /\ (n + 1) % Wrap \in Word
         /\ LeftOf(t, (n + 1) % Wrap, r) = LeftOf(t, n, r) - 1
<1>1. Wrap \in Nat /\ Wrap > 2
  BY AlarmAssumption
<1>2. n + 1 \in 0 .. 2 * Wrap - 1 /\ n \in Nat /\ n < Wrap /\ t \in Nat /\ t < Wrap
  BY <1>1 DEF Word
<1>3. (n + 1) % Wrap = IF n + 1 < Wrap THEN n + 1 ELSE 0
  BY <1>1, <1>2, WrapIs
<1>4. CASE r
  BY <1>1, <1>2, <1>3, <1>4 DEF Word, LeftOf
<1>5. CASE ~r
  BY <1>1, <1>2, <1>3, <1>5 DEF Word, LeftOf
<1> QED BY <1>4, <1>5

(* alt_tick's test finds exactly the alarms with nothing left.             *)
LEMMA ExpiredIs ==
  ASSUME NEW a \in Alarm, time[a] \in Word, _alt_nticks \in Word, rollover[a] \in BOOLEAN,
         LeftOf(time[a], _alt_nticks, rollover[a]) \in 0 .. Wrap - 1
  PROVE  /\ LeftOf(time[a], _alt_nticks, Rolled(a)) = LeftOf(time[a], _alt_nticks, rollover[a])
         /\ Expired(a) <=> LeftOf(time[a], _alt_nticks, rollover[a]) = 0
         /\ Expired(a) => time[a] = _alt_nticks /\ ~Rolled(a)
         /\ _alt_nticks = 0 => ~Rolled(a)
<1>1. Wrap \in Nat /\ Wrap > 2 /\ time[a] \in Nat /\ time[a] < Wrap /\ _alt_nticks \in Nat /\ _alt_nticks < Wrap
  BY AlarmAssumption DEF Word
<1>2. CASE rollover[a]
  BY <1>1, <1>2 DEF LeftOf, Rolled, Expired
<1>3. CASE ~rollover[a]
  BY <1>1, <1>3 DEF LeftOf, Rolled, Expired
<1> QED BY <1>2, <1>3

LEMMA LeftIs ==
  ASSUME NEW a \in Alarm
  PROVE  /\ Left(a) = IF In(next, a) THEN LeftOf(time[a], _alt_nticks, rollover[a]) ELSE NULL
         /\ Left(a)' = IF In(next', a) THEN LeftOf(time'[a], _alt_nticks', rollover'[a]) ELSE NULL
  BY Nodes DEF Left, LeftOf, Linked, Rolled, In

-----------------------------------------------------------------------------
(* The inductive invariant.  While alt_tick walks the list, Place is where *)
(* it goes on; an alarm with something left to do for this tick, to ring   *)
(* or to clear its rollover flag, lies there or beyond.                    *)
Place == IF calling THEN saved ELSE alarm

Pending(a) == LeftOf(time[a], _alt_nticks, rollover[a]) = 0 \/ (_alt_nticks = 0 /\ rollover[a])

Passed(pos) ==
  \A a \in Alarm : In(next, a) /\ Pending(a) /\ ~(calling /\ a = alarm)
                    => Place # Root /\ pos[Place] <= pos[a]

Times == \A a \in Alarm : In(next, a) => LeftOf(time[a], _alt_nticks, rollover[a]) \in 0 .. Wrap - 1

(* In a callback, alarm is the one that rings, if it has not been stopped. *)
WalkOK ==
  /\ In(next, saved)
  /\ ~calling => In(next, alarm) /\ saved = Root
  /\ calling => alarm # Root /\ next[alarm] # NULL
  /\ calling /\ In(next, alarm) => next[alarm] = saved /\ time[alarm] = _alt_nticks /\ ~rollover[alarm]

IInv == /\ TypeOK /\ Ringed(next, previous) /\ LoopsBack(next, previous)
        /\ Times /\ WalkOK
        /\ \E pos \in [Node -> Int] : Ordered(next, pos) /\ Passed(pos)

LEMMA Sound == IInv => SafeList
<1> SUFFICES ASSUME IInv PROVE SafeList
  OBVIOUS
<1>1. \A x \in Node : InRing(x) <=> In(next, x)
  BY DEF InRing, In, Linked
<1>2. saved \in Node /\ alarm \in Node
  BY DEF IInv, TypeOK
<1>3. RingSound
  BY <1>1, <1>2 DEF IInv, Ringed, WalkOK, RingSound
<1> QED BY <1>3 DEF IInv, SafeList

LEMMA InitIInv == Init => IInv
<1> SUFFICES ASSUME Init PROVE IInv
  OBVIOUS
<1> USE DEF Init
<1>1. TypeOK
  <2>1. 0 \in Word
    BY AlarmAssumption DEF Word
  <2>2. next \in [Node -> Node \union {NULL}] /\ previous \in [Node -> Node \union {NULL}]
    BY Nodes
  <2>3. time \in [Alarm -> Word] /\ rollover \in [Alarm -> BOOLEAN]
    BY <2>1
  <2>4. _alt_tick_rate \in {0, Rate} /\ alarm \in Node /\ saved \in Node /\ calling \in BOOLEAN
    BY Nodes
  <2> QED BY <2>1, <2>2, <2>3, <2>4 DEF TypeOK
<1>2. \A x \in Node : In(next, x) <=> x = Root
  BY DEF In
<1>3. next[Root] = Root /\ previous[Root] = Root
  BY Nodes
<1>4. Ringed(next, previous) /\ LoopsBack(next, previous)
  BY <1>2, <1>3, Nodes DEF Ringed, LoopsBack
<1>5. Times /\ WalkOK
  BY <1>2, Nodes DEF Times, WalkOK
<1>6. \E pos \in [Node -> Int] : Ordered(next, pos) /\ Passed(pos)
  <2> DEFINE pos == [x \in Node |-> 0]
  <2>1. pos \in [Node -> Int]
    OBVIOUS
  <2>2. Ordered(next, pos) /\ Passed(pos)
    BY <1>2, <1>3, Nodes DEF Ordered, Passed
  <2> QED BY <2>1, <2>2
<1> QED BY <1>1, <1>4, <1>5, <1>6 DEF IInv

-----------------------------------------------------------------------------
(* Every step keeps it.                                                    *)

LEMMA Types ==
  ASSUME IInv
  PROVE  /\ next \in Links /\ previous \in Links /\ alarm \in Node /\ saved \in Node
         /\ _alt_nticks \in Word /\ time \in [Alarm -> Word] /\ rollover \in [Alarm -> BOOLEAN]
         /\ calling \in BOOLEAN
  BY DEF IInv, TypeOK, Links

(* The driver is initialised: the list does not change.                    *)
LEMMA SysclkStep ==
  ASSUME IInv, alt_sysclk_init
  PROVE  IInv'
<1>1. UNCHANGED <<_alt_nticks, next, previous, time, rollover, alarm, saved, calling>> /\ _alt_tick_rate' = Rate
  BY DEF alt_sysclk_init, links, fields, tick
<1>2. TypeOK'
  BY <1>1 DEF IInv, TypeOK
<1>3. Times' /\ WalkOK' /\ Ringed(next, previous)' /\ LoopsBack(next, previous)'
  BY <1>1 DEF IInv, Times, WalkOK
<1>4. \A pos : Passed(pos) => Passed(pos)'
  BY <1>1 DEF Passed, Pending, Place
<1> QED BY <1>1, <1>2, <1>3, <1>4 DEF IInv

(* A started alarm goes first in the list and is not due on this tick.     *)
LEMMA StartStep ==
  ASSUME IInv, NEW a \in Alarm, NEW ticks \in 0 .. MaxDelay, alt_alarm_start(a, ticks)
  PROVE  IInv' /\ LeftOf(time'[a], _alt_nticks', rollover'[a]) = ticks + 1
<1> DEFINE due == (ticks + _alt_nticks + 1) % Wrap
<1>1. /\ UNCHANGED <<_alt_tick_rate, _alt_nticks, alarm, saved, calling>>
      /\ alarm = Root \/ calling
      /\ ~Linked(a) /\ alarm # a
      /\ time' = [time EXCEPT ![a] = due] /\ rollover' = [rollover EXCEPT ![a] = due < _alt_nticks]
      /\ next' = [next EXCEPT ![a] = next[Root], ![Root] = a]
      /\ previous' = [previous EXCEPT ![a] = Root, ![next[Root]] = a]
  BY DEF alt_alarm_start, alt_llist_insert, Between, tick
<1>2. Inserts(next, previous, next', previous', a)
  BY <1>1, Types, Nodes DEF IInv, Inserts, In, Linked
<1>3. /\ next' \in Links /\ previous' \in Links /\ Ringed(next', previous') /\ LoopsBack(next', previous')
      /\ \A x \in Node : In(next', x) <=> In(next, x) \/ x = a
      /\ ~In(next, a) /\ a \in Node /\ a # Root
  <2>1. next' \in Links /\ previous' \in Links
    BY <1>2, InsertLinks
  <2>2. Ringed(next', previous') /\ \A x \in Node : In(next', x) <=> In(next, x) \/ x = a
    BY <1>2, InsertKeepsRing
  <2>3. LoopsBack(next', previous')
    BY <1>2, InsertLoops DEF IInv
  <2>4. ~In(next, a) /\ a \in Node /\ a # Root
    BY <1>2, Nodes DEF Inserts
  <2> QED BY <2>1, <2>2, <2>3, <2>4
<1>4. /\ due \in Word /\ LeftOf(due, _alt_nticks, due < _alt_nticks) = ticks + 1
      /\ (_alt_nticks = 0 => ~(due < _alt_nticks)) /\ ticks + 1 \in 1 .. Wrap - 1
  <2>1. Wrap \in Nat /\ Wrap > 2 /\ _alt_nticks \in Nat /\ ticks \in Nat /\ ticks + 1 \in 1 .. Wrap - 1
    BY Types, AlarmAssumption DEF Word, MaxDelay
  <2>2. ticks + _alt_nticks + 1 = _alt_nticks + (ticks + 1)
    BY <2>1
  <2>3. due = (_alt_nticks + (ticks + 1)) % Wrap
    BY <2>2
  <2> QED BY <2>1, <2>3, Types, AheadTime
<1> HIDE DEF due
<1>5. /\ time' \in [Alarm -> Word] /\ rollover' \in [Alarm -> BOOLEAN]
      /\ time'[a] = due /\ rollover'[a] = (due < _alt_nticks)
      /\ \A b \in Alarm : b # a => time'[b] = time[b] /\ rollover'[b] = rollover[b]
  <2>1. (due < _alt_nticks) \in BOOLEAN
    OBVIOUS
  <2> QED BY <1>1, <1>4, <2>1, Types
<1>6. TypeOK'
  BY <1>1, <1>3, <1>5 DEF IInv, TypeOK, Links
<1>7. LeftOf(time'[a], _alt_nticks', rollover'[a]) = ticks + 1 /\ (_alt_nticks' = 0 => ~rollover'[a])
  BY <1>1, <1>4, <1>5
<1>8. Times'
  <2>1. ASSUME NEW b \in Alarm, In(next', b)
        PROVE  LeftOf(time'[b], _alt_nticks', rollover'[b]) \in 0 .. Wrap - 1
    <3>1. CASE b = a
      BY <1>4, <1>7, <3>1
    <3>2. CASE b # a
      <4>1. In(next, b)
        BY <1>3, <2>1, <3>2, Nodes
      <4> QED BY <1>1, <1>5, <3>2, <4>1 DEF IInv, Times
    <3> QED BY <3>1, <3>2
  <2> QED BY <2>1 DEF Times
<1>9. /\ In(next, saved) /\ (~calling => alarm = Root /\ In(next, alarm) /\ saved = Root)
      /\ (calling => alarm # Root /\ next[alarm] # NULL)
  BY <1>1 DEF IInv, WalkOK, In
<1>10. calling => next'[alarm] = next[alarm] /\ time'[alarm] = time[alarm] /\ rollover'[alarm] = rollover[alarm]
  <2>1. alarm \in Node
    BY Types
  <2>2. alarm # Root => alarm \in Alarm
    BY <2>1, Nodes
  <2>3. \A x \in Node : next'[x] = IF x = Root THEN a ELSE IF x = a THEN next[Root] ELSE next[x]
    BY <1>2, InsertLinks
  <2> QED BY <1>1, <1>5, <1>9, <2>1, <2>2, <2>3
<1>11. WalkOK'
  <2>1. alarm \in Node /\ saved \in Node
    BY Types
  <2>2. In(next', saved) /\ (~calling => In(next', alarm))
    BY <1>3, <1>9, <2>1
  <2>3. In(next', alarm) => In(next, alarm)
    BY <1>1, <1>3, <2>1
  <2>4. calling /\ In(next, alarm) => next[alarm] = saved /\ time[alarm] = _alt_nticks /\ ~rollover[alarm]
    BY DEF IInv, WalkOK
  <2> QED BY <1>1, <1>9, <1>10, <2>2, <2>3, <2>4 DEF WalkOK
<1>12. \E pos \in [Node -> Int] : Ordered(next', pos) /\ Passed(pos)'
  <2>1. PICK pos \in [Node -> Int] : Ordered(next, pos) /\ Passed(pos)
    BY DEF IInv
  <2>2. PICK pos2 \in [Node -> Int] : /\ Ordered(next', pos2)
                                      /\ \A x \in Alarm : x # a => pos2[x] = pos[x]
    BY <1>2, <2>1, InsertKeepsOrder
  <2>3. ASSUME NEW b \in Alarm, In(next', b), Pending(b)', ~(calling' /\ b = alarm')
        PROVE  Place' # Root /\ pos2[Place'] <= pos2[b]
    <3>1. b # a
      <4>1. ASSUME b = a PROVE FALSE
        <5>1. ~(ticks + 1 = 0)
          BY <1>4
        <5> QED BY <1>7, <2>3, <4>1, <5>1 DEF Pending
      <4> QED BY <4>1
    <3>2. In(next, b) /\ Pending(b) /\ ~(calling /\ b = alarm)
      <4>1. In(next, b)
        BY <1>3, <2>3, <3>1, Nodes
      <4> QED BY <1>1, <1>5, <2>3, <3>1, <4>1 DEF Pending
    <3>3. Place # Root /\ pos[Place] <= pos[b]
      BY <2>1, <3>2 DEF Passed
    <3>4. Place' = Place /\ Place \in Node /\ Place # a
      <4>1. Place' = Place /\ Place \in Node
        BY <1>1, Types DEF Place
      <4>2. In(next, Place)
        BY <1>9 DEF Place
      <4> QED BY <1>3, <4>1, <4>2
    <3> QED BY <2>2, <3>1, <3>3, <3>4, Nodes
  <2>4. Passed(pos2)'
    BY <2>3 DEF Passed
  <2> QED BY <2>2, <2>4
<1> QED BY <1>3, <1>6, <1>7, <1>8, <1>11, <1>12 DEF IInv

(* A stopped alarm leaves the list; the walk does not stand on it unless   *)
(* it is the one that rings.                                               *)
LEMMA UnlinkStep ==
  ASSUME IInv, NEW a \in Alarm, next[a] # NULL, alt_llist_remove(a)
  PROVE  /\ next' \in Links /\ previous' \in Links /\ Ringed(next', previous') /\ LoopsBack(next', previous')
         /\ \A x \in Node : In(next', x) <=> In(next, x) /\ x # a
         /\ \A x \in Node : next'[x] = next[x] \/ x = a \/ next[x] = a
         /\ \A x \in Node : next[x] # NULL => next'[x] # NULL
         /\ \A pos \in [Node -> Int] : Ordered(next, pos) => Ordered(next', pos)
<1>1. /\ next' = [next EXCEPT ![previous[a]] = next[a], ![a] = a]
      /\ previous' = [previous EXCEPT ![next[a]] = previous[a], ![a] = a]
  BY DEF alt_llist_remove
<1>2. PICK pos0 \in [Node -> Int] : Ordered(next, pos0)
  BY DEF IInv
<1>3. a \in Node /\ a # Root
  BY Nodes
<1>4. CASE In(next, a)
  <2>1. Removes(next, previous, next', previous', a)
    BY <1>1, <1>4, Types DEF Removes, IInv
  <2>2. /\ next' \in Links /\ previous' \in Links
        /\ \A x \in Node : next'[x] = IF x = a THEN a ELSE IF x = previous[a] THEN next[a] ELSE next[x]
        /\ next[a] \in Node /\ next[previous[a]] = a
    BY <2>1, RemoveLinks
  <2>3. Ringed(next', previous') /\ \A x \in Node : In(next', x) <=> In(next, x) /\ x # a
    BY <1>2, <2>1, RemoveKeepsRing
  <2>4. LoopsBack(next', previous')
    BY <1>2, <2>1, RemoveLoops DEF IInv
  <2>5. \A x \in Node : next'[x] = next[x] \/ x = a \/ next[x] = a
    BY <2>2
  <2>6. \A x \in Node : next[x] # NULL => next'[x] # NULL
    BY <1>3, <2>2, Nodes
  <2>7. \A pos \in [Node -> Int] : Ordered(next, pos) => Ordered(next', pos)
    BY <2>1, RemoveKeepsOrder
  <2> QED BY <2>2, <2>3, <2>4, <2>5, <2>6, <2>7
<1>5. CASE ~In(next, a)
  <2>1. next' = next /\ previous' = previous
    BY <1>1, <1>5, Types, RemoveNothing DEF IInv
  <2> QED BY <1>5, <2>1, Types DEF IInv
<1> QED BY <1>4, <1>5

LEMMA StopStep ==
  ASSUME ~StopsNext, IInv, NEW a \in Alarm, alt_alarm_stop(a)
  PROVE  IInv'
<1>1. /\ UNCHANGED <<_alt_tick_rate, _alt_nticks, time, rollover, alarm, saved, calling>>
      /\ alarm = Root \/ calling
      /\ next[a] # NULL /\ ~(calling /\ a = saved) /\ alt_llist_remove(a)
  BY DEF alt_alarm_stop, Between, fields, tick
<1>2. /\ next' \in Links /\ previous' \in Links /\ Ringed(next', previous') /\ LoopsBack(next', previous')
      /\ \A x \in Node : In(next', x) <=> In(next, x) /\ x # a
      /\ \A x \in Node : next'[x] = next[x] \/ x = a \/ next[x] = a
      /\ \A x \in Node : next[x] # NULL => next'[x] # NULL
      /\ \A pos \in [Node -> Int] : Ordered(next, pos) => Ordered(next', pos)
  BY <1>1, UnlinkStep
<1>3. a \in Node /\ a # Root /\ alarm \in Node /\ saved \in Node
  BY Types, Nodes
<1>4. TypeOK'
  BY <1>1, <1>2 DEF IInv, TypeOK, Links
<1>5. Times'
  BY <1>1, <1>2, Nodes DEF IInv, Times
<1>6. WalkOK'
  <2>1. /\ In(next, saved) /\ (~calling => alarm = Root /\ In(next, alarm) /\ saved = Root)
        /\ (calling => alarm # Root /\ next[alarm] # NULL)
        /\ (calling /\ In(next, alarm) => next[alarm] = saved /\ time[alarm] = _alt_nticks /\ ~rollover[alarm])
    BY <1>1 DEF IInv, WalkOK, In
  <2>2. saved # a
    BY <1>1, <1>3, <2>1
  <2>3. In(next', saved) /\ (~calling => In(next', alarm))
    BY <1>2, <1>3, <2>1, <2>2
  <2>4. calling => alarm # Root /\ next'[alarm] # NULL
    BY <1>2, <1>3, <2>1
  <2>5. calling /\ In(next', alarm) => next'[alarm] = saved /\ time[alarm] = _alt_nticks /\ ~rollover[alarm]
    BY <1>2, <1>3, <2>1, <2>2
  <2> QED BY <1>1, <2>1, <2>3, <2>4, <2>5 DEF WalkOK
<1>7. \A pos : Passed(pos) => Passed(pos)'
  BY <1>1, <1>2, Nodes DEF Passed, Pending, Place
<1> QED BY <1>2, <1>4, <1>5, <1>6, <1>7 DEF IInv

(* A tick finds nothing left to do from the one before, and takes one from *)
(* what is left of every listed alarm.                                     *)
LEMMA TickBefore ==
  ASSUME IInv, alt_tick, NEW a \in Alarm, In(next, a)
  PROVE  /\ LeftOf(time[a], _alt_nticks, rollover[a]) \in 1 .. Wrap - 1
         /\ LeftOf(time'[a], _alt_nticks', rollover'[a]) = LeftOf(time[a], _alt_nticks, rollover[a]) - 1
<1>1. alarm = Root /\ _alt_nticks' = (_alt_nticks + 1) % Wrap /\ time' = time /\ rollover' = rollover
  BY DEF alt_tick, fields
<1>2. ~calling
  BY <1>1 DEF IInv, WalkOK
<1>3. ~Pending(a)
  BY <1>1, <1>2 DEF IInv, Passed, Place
<1>4. LeftOf(time[a], _alt_nticks, rollover[a]) \in 1 .. Wrap - 1 /\ (_alt_nticks = 0 => ~rollover[a])
  <2>1. LeftOf(time[a], _alt_nticks, rollover[a]) \in 0 .. Wrap - 1
    BY DEF IInv, Times
  <2>2. LeftOf(time[a], _alt_nticks, rollover[a]) # 0 /\ (_alt_nticks = 0 => ~rollover[a])
    BY <1>3 DEF Pending
  <2> QED BY <2>1, <2>2, AlarmAssumption
<1>5. time[a] \in Word /\ _alt_nticks \in Word /\ rollover[a] \in BOOLEAN
  BY Types
<1> QED BY <1>1, <1>4, <1>5, TickTime

LEMMA TickStep ==
  ASSUME IInv, alt_tick
  PROVE  IInv'
<1>1. /\ UNCHANGED <<_alt_tick_rate, next, previous, time, rollover, saved, calling>>
      /\ alarm = Root /\ _alt_nticks' = (_alt_nticks + 1) % Wrap /\ alarm' = next[Root]
  BY DEF alt_tick, links, fields
<1>2. ~calling /\ saved = Root
  BY <1>1 DEF IInv, WalkOK
<1>3. next[Root] \in Node /\ In(next, next[Root]) /\ In(next, Root)
  BY Nodes DEF IInv, Ringed, In
<1>4. TypeOK'
  <2>1. _alt_nticks' \in Word
    BY <1>1, Types, AlarmAssumption DEF Word
  <2> QED BY <1>1, <1>3, <2>1 DEF IInv, TypeOK
<1>5. Times'
  <2>1. ASSUME NEW a \in Alarm, In(next, a)
        PROVE  LeftOf(time'[a], _alt_nticks', rollover'[a]) \in 0 .. Wrap - 1
    BY <2>1, TickBefore, AlarmAssumption
  <2> QED BY <1>1, <2>1 DEF Times
<1>6. WalkOK'
  BY <1>1, <1>2, <1>3 DEF IInv, WalkOK
<1>7. \E pos \in [Node -> Int] : Ordered(next', pos) /\ Passed(pos)'
  <2>1. PICK pos \in [Node -> Int] : Ordered(next, pos)
    BY DEF IInv
  <2>2. ASSUME NEW a \in Alarm, In(next, a)
        PROVE  next[Root] # Root /\ pos[next[Root]] <= pos[a]
    BY <1>3, <2>1, <2>2, Nodes DEF Ordered
  <2>3. Passed(pos)'
    BY <1>1, <1>2, <2>2 DEF Passed, Place
  <2> QED BY <1>1, <2>1, <2>3
<1> QED BY <1>1, <1>4, <1>5, <1>6, <1>7 DEF IInv

(* alt_tick looks at one alarm, calls it if nothing is left of it and goes *)
(* on otherwise.                                                           *)
LEMMA VisitStep ==
  ASSUME IInv, Visit
  PROVE  IInv' /\ \A a \in Alarm : In(next, a) => LeftOf(time'[a], _alt_nticks', rollover'[a])
                                                    = LeftOf(time[a], _alt_nticks, rollover[a])
<1>1. /\ UNCHANGED <<_alt_tick_rate, _alt_nticks, next, previous, time>>
      /\ alarm # Root /\ ~calling
      /\ rollover' = [rollover EXCEPT ![alarm] = Rolled(alarm)]
      /\ \/ Expired(alarm) /\ calling' = TRUE /\ saved' = next[alarm] /\ alarm' = alarm
         \/ ~Expired(alarm) /\ alarm' = next[alarm] /\ saved' = saved /\ calling' = calling
  BY DEF Visit, links
<1>2. /\ alarm \in Alarm /\ In(next, alarm) /\ saved = Root
      /\ next[alarm] \in Node /\ In(next, next[alarm]) /\ In(next, Root) /\ Root \in Node
  <2>1. alarm \in Alarm /\ In(next, alarm) /\ saved = Root /\ alarm \in Node
    BY <1>1, Types, Nodes DEF IInv, WalkOK
  <2>2. next[alarm] \in Node /\ In(next, next[alarm])
    BY <2>1 DEF IInv, Ringed
  <2> QED BY <2>1, <2>2, Nodes DEF In
<1>3. /\ LeftOf(time[alarm], _alt_nticks, Rolled(alarm)) = LeftOf(time[alarm], _alt_nticks, rollover[alarm])
      /\ Expired(alarm) <=> LeftOf(time[alarm], _alt_nticks, rollover[alarm]) = 0
      /\ Expired(alarm) => time[alarm] = _alt_nticks /\ ~Rolled(alarm)
      /\ _alt_nticks = 0 => ~Rolled(alarm)
  <2>1. /\ time[alarm] \in Word /\ _alt_nticks \in Word /\ rollover[alarm] \in BOOLEAN
        /\ LeftOf(time[alarm], _alt_nticks, rollover[alarm]) \in 0 .. Wrap - 1
    BY <1>2, Types DEF IInv, Times
  <2> QED BY <1>2, <2>1, ExpiredIs
<1>4. /\ rollover' \in [Alarm -> BOOLEAN] /\ rollover'[alarm] = Rolled(alarm)
      /\ \A a \in Alarm : a # alarm => rollover'[a] = rollover[a]
  <2>1. Rolled(alarm) \in BOOLEAN
    BY DEF Rolled
  <2> QED BY <1>1, <1>2, <2>1, Types
<1>5. \A a \in Alarm : In(next, a) => LeftOf(time'[a], _alt_nticks', rollover'[a])
                                       = LeftOf(time[a], _alt_nticks, rollover[a])
  BY <1>1, <1>3, <1>4
<1>6. TypeOK'
  <2>1. saved' \in Node /\ alarm' \in Node /\ calling' \in BOOLEAN
    BY <1>1, <1>2, Types
  <2> QED BY <1>1, <1>4, <2>1 DEF IInv, TypeOK
<1>7. Times'
  BY <1>1, <1>5 DEF IInv, Times
<1>8. WalkOK'
  <2>1. next[alarm] # NULL
    BY <1>2, Nodes
  <2>2. CASE Expired(alarm)
    BY <1>1, <1>2, <1>3, <1>4, <2>1, <2>2 DEF WalkOK
  <2>3. CASE ~Expired(alarm)
    BY <1>1, <1>2, <2>3 DEF WalkOK
  <2> QED BY <2>2, <2>3
<1>9. \A pos \in [Node -> Int] : Ordered(next, pos) /\ Passed(pos) => Passed(pos)'
  <2> SUFFICES ASSUME NEW pos \in [Node -> Int], Ordered(next, pos), Passed(pos),
                      NEW a \in Alarm, In(next, a), Pending(a)', ~(calling' /\ a = alarm')
               PROVE  Place' # Root /\ pos[Place'] <= pos[a]
    BY <1>1 DEF Passed
  <2>1. Place' = next[alarm]
    BY <1>1 DEF Place
  <2>2. a # alarm
    BY <1>1, <1>2, <1>3, <1>4, <1>5 DEF Pending
  <2>3. Pending(a)
    BY <1>1, <1>4, <2>2 DEF Pending
  <2>4. pos[alarm] <= pos[a]
    BY <1>1, <2>2, <2>3 DEF Passed, Place
  <2>5. pos[alarm] < pos[a]
    <3>1. pos[alarm] # pos[a]
      BY <1>2, <2>2, Nodes DEF Ordered
    <3>2. pos[alarm] \in Int /\ pos[a] \in Int
      BY <1>2, Nodes
    <3> QED BY <2>4, <3>1, <3>2
  <2>6. next[alarm] # Root /\ pos[next[alarm]] <= pos[a]
    BY <1>2, <2>5, Nodes DEF Ordered
  <2> QED BY <2>1, <2>6
<1>10. Ringed(next, previous)' /\ LoopsBack(next, previous)' /\ \E pos \in [Node -> Int] : Ordered(next', pos) /\ Passed(pos)'
  BY <1>1, <1>9 DEF IInv
<1> QED BY <1>5, <1>6, <1>7, <1>8, <1>10 DEF IInv

(* What a callback leaves: an alarm unlinked, or the one that rang set     *)
(* anew; then the walk goes on at saved.                                   *)
LEMMA RearmTime ==
  ASSUME IInv, calling, In(next, alarm), NEW period \in Word, period # 0, Rearm(alarm, period)
  PROVE  /\ LeftOf(time[alarm], _alt_nticks, rollover[alarm]) = 0
         /\ LeftOf(time'[alarm], _alt_nticks, rollover'[alarm]) = period
         /\ _alt_nticks = 0 => ~rollover'[alarm]
<1> DEFINE due == (time[alarm] + period) % Wrap
<1>1. /\ alarm \in Alarm /\ time[alarm] = _alt_nticks /\ ~rollover[alarm]
      /\ time \in [Alarm -> Word] /\ rollover \in [Alarm -> BOOLEAN] /\ _alt_nticks \in Word
  BY Types, Nodes DEF IInv, WalkOK
<1>2. period \in 1 .. Wrap - 1 /\ due = (_alt_nticks + period) % Wrap
  BY <1>1, AlarmAssumption DEF Word
<1>3. due \in Word /\ LeftOf(due, _alt_nticks, due < _alt_nticks) = period /\ (_alt_nticks = 0 => ~(due < _alt_nticks))
  BY <1>1, <1>2, AheadTime
<1>4. time'[alarm] = due /\ rollover'[alarm] = (due < _alt_nticks)
  BY <1>1 DEF Rearm
<1>5. LeftOf(time[alarm], _alt_nticks, rollover[alarm]) = 0
  BY <1>1, AlarmAssumption DEF LeftOf, Word
<1> QED BY <1>3, <1>4, <1>5

LEMMA ReturnStep ==
  ASSUME IInv, NEW period \in Word, Callback_returns(period)
  PROVE  IInv'
<1>1. /\ UNCHANGED <<_alt_tick_rate, _alt_nticks>>
      /\ calling /\ ~calling' /\ calling' \in BOOLEAN /\ alarm' = saved /\ saved' = Root
      /\ \/ period = 0 /\ alt_llist_remove(alarm) /\ UNCHANGED <<time, rollover>>
         \/ period # 0 /\ Rearm(alarm, period)
  BY DEF Callback_returns, fields
<1>2. /\ alarm \in Alarm /\ alarm \in Node /\ saved \in Node /\ next[alarm] # NULL /\ In(next, saved)
      /\ Root \in Node
  BY <1>1, Types, Nodes DEF IInv, WalkOK
<1>3. saved # alarm
  BY <1>1, <1>2, Nodes DEF IInv, WalkOK, In
<1>4. PICK pos \in [Node -> Int] : Ordered(next, pos) /\ Passed(pos)
  BY DEF IInv
<1>5. \A a \in Alarm : In(next, a) /\ a # alarm /\ Pending(a) => saved # Root /\ pos[saved] <= pos[a]
  BY <1>1, <1>4 DEF Passed, Place
<1>6. CASE period = 0 /\ alt_llist_remove(alarm) /\ UNCHANGED <<time, rollover>>
  <2>1. /\ next' \in Links /\ previous' \in Links /\ Ringed(next', previous') /\ LoopsBack(next', previous')
        /\ \A x \in Node : In(next', x) <=> In(next, x) /\ x # alarm
        /\ Ordered(next', pos)
    BY <1>2, <1>4, <1>6, UnlinkStep
  <2>2. TypeOK'
    BY <1>1, <1>2, <1>6, <2>1 DEF IInv, TypeOK, Links
  <2>3. Times'
    BY <1>1, <1>6, <2>1, Nodes DEF IInv, Times
  <2>4. WalkOK'
    BY <1>1, <1>2, <1>3, <2>1 DEF WalkOK, In
  <2>5. Passed(pos)'
    BY <1>1, <1>5, <1>6, <2>1, Nodes DEF Passed, Place, Pending
  <2> QED BY <2>1, <2>2, <2>3, <2>4, <2>5 DEF IInv
<1>7. CASE period # 0 /\ Rearm(alarm, period)
  <2>1. /\ next' = next /\ previous' = previous
        /\ time' = [time EXCEPT ![alarm] = (time[alarm] + period) % Wrap]
        /\ rollover' = [rollover EXCEPT ![alarm] = (time[alarm] + period) % Wrap < _alt_nticks \/ @]
    BY <1>7 DEF Rearm, links
  <2>2. /\ time' \in [Alarm -> Word] /\ rollover' \in [Alarm -> BOOLEAN]
        /\ \A a \in Alarm : a # alarm => time'[a] = time[a] /\ rollover'[a] = rollover[a]
    <3>1. (time[alarm] + period) % Wrap \in Word
      <4>1. time[alarm] \in Nat /\ period \in Nat /\ Wrap \in Nat /\ Wrap > 2
        BY <1>2, Types, AlarmAssumption DEF Word
      <4> QED BY <4>1 DEF Word
    <3>2. ((time[alarm] + period) % Wrap < _alt_nticks \/ rollover[alarm]) \in BOOLEAN
      OBVIOUS
    <3> QED BY <2>1, <3>1, <3>2, Types
  <2>3. In(next, alarm) => /\ LeftOf(time'[alarm], _alt_nticks, rollover'[alarm]) = period
                           /\ _alt_nticks = 0 => ~rollover'[alarm]
    BY <1>1, <1>7, RearmTime
  <2>4. TypeOK'
    BY <1>1, <1>2, <2>1, <2>2 DEF IInv, TypeOK
  <2>5. Times'
    <3>1. ASSUME NEW a \in Alarm, In(next, a)
          PROVE  LeftOf(time'[a], _alt_nticks, rollover'[a]) \in 0 .. Wrap - 1
      <4>1. CASE a = alarm
        BY <2>3, <3>1, <4>1 DEF Word
      <4>2. CASE a # alarm
        BY <2>2, <3>1, <4>2 DEF IInv, Times
      <4> QED BY <4>1, <4>2
    <3> QED BY <1>1, <2>1, <3>1 DEF Times
  <2>6. WalkOK'
    BY <1>1, <1>2, <2>1 DEF WalkOK, In
  <2>7. Passed(pos)'
    <3>1. ASSUME NEW a \in Alarm, In(next, a), Pending(a)'
          PROVE  saved # Root /\ pos[saved] <= pos[a]
      <4>1. a # alarm
        <5>1. period # 0 /\ _alt_nticks' = _alt_nticks
          BY <1>1, <1>7
        <5> QED BY <2>3, <3>1, <5>1 DEF Pending
      <4> QED BY <1>1, <1>5, <2>2, <3>1, <4>1 DEF Pending
    <3> QED BY <1>1, <2>1, <3>1 DEF Passed, Place
  <2> QED BY <1>4, <2>1, <2>4, <2>5, <2>6, <2>7 DEF IInv
<1> QED BY <1>1, <1>6, <1>7

LEMMA NextIInv ==
  ASSUME ~StopsNext
  PROVE  IInv /\ [Next]_vars => IInv'
<1> SUFFICES ASSUME IInv, [Next]_vars PROVE IInv'
  OBVIOUS
<1>1. CASE alt_sysclk_init
  BY <1>1, SysclkStep
<1>2. CASE alt_tick
  BY <1>2, TickStep
<1>3. CASE Visit
  BY <1>3, VisitStep
<1>4. CASE \E a \in Alarm : \/ \E ticks \in 0 .. MaxDelay : alt_alarm_start(a, ticks)
                            \/ alt_alarm_stop(a)
  BY <1>4, StartStep, StopStep
<1>5. CASE \E period \in Word : Callback_returns(period)
  BY <1>5, ReturnStep
<1>6. CASE UNCHANGED vars
  <2>1. UNCHANGED <<_alt_tick_rate, _alt_nticks, next, previous, time, rollover, alarm, saved, calling>>
    BY <1>6 DEF vars
  <2>2. \A pos : Passed(pos) => Passed(pos)'
    BY <2>1 DEF Passed, Pending, Place
  <2> QED BY <2>1, <2>2 DEF IInv, TypeOK, Times, WalkOK
<1> QED BY <1>1, <1>2, <1>3, <1>4, <1>5, <1>6 DEF Next, alt_alarm_refused

-----------------------------------------------------------------------------
(* What the service promises.                                              *)

LEMMA InitMaps == Init => AC!Init
<1> SUFFICES ASSUME Init PROVE AC!Init
  OBVIOUS
<1>1. \A a \in Alarm : Left(a) = NULL
  BY Nodes DEF Init, Left, Linked
<1> QED BY <1>1 DEF AC!Init

(* An alarm's own step is one assignment to what is left of it.            *)
LEMMA OneLeft ==
  ASSUME NEW a \in Alarm, NEW rest, Left(a)' = rest,
         \A b \in Alarm : b # a => Left(b)' = Left(b)
  PROVE  AC!Set(a, rest)
  BY DEF AC!Set

LEMMA StartMaps ==
  ASSUME IInv, NEW a \in Alarm, NEW ticks \in 0 .. MaxDelay, alt_alarm_start(a, ticks)
  PROVE  AC!Start(a)
<1>1. /\ UNCHANGED <<_alt_nticks>>
      /\ ~Linked(a)
      /\ time' = [time EXCEPT ![a] = (ticks + _alt_nticks + 1) % Wrap]
      /\ rollover' = [rollover EXCEPT ![a] = (ticks + _alt_nticks + 1) % Wrap < _alt_nticks]
      /\ next' = [next EXCEPT ![a] = next[Root], ![Root] = a]
      /\ previous' = [previous EXCEPT ![a] = Root, ![next[Root]] = a]
  BY DEF alt_alarm_start, alt_llist_insert, tick
<1>2. Inserts(next, previous, next', previous', a)
  BY <1>1, Types, Nodes DEF IInv, Inserts, In, Linked
<1>3. \A x \in Node : In(next', x) <=> In(next, x) \/ x = a
  BY <1>2, InsertKeepsRing
<1>4. Left(a) = NULL
  BY <1>1 DEF Left
<1>5. Left(a)' = ticks + 1
  BY <1>3, StartStep, LeftIs, Nodes
<1>6. ASSUME NEW b \in Alarm, b # a
      PROVE  Left(b)' = Left(b)
  <2>1. In(next', b) <=> In(next, b)
    BY <1>3, <1>6, Nodes
  <2>2. time'[b] = time[b] /\ rollover'[b] = rollover[b]
    BY <1>1, <1>6, Types
  <2> QED BY <1>1, <2>1, <2>2, LeftIs
<1>7. AC!Set(a, ticks + 1)
  BY <1>5, <1>6, OneLeft
<1>8. ticks \in 0 .. (Wrap - 1) - 1
  BY AlarmAssumption DEF MaxDelay
<1> QED BY <1>4, <1>7, <1>8 DEF AC!Start

LEMMA StopMaps ==
  ASSUME IInv, NEW a \in Alarm, alt_alarm_stop(a)
  PROVE  AC!Stop(a) \/ UNCHANGED [b \in Alarm |-> Left(b)]
<1>1. UNCHANGED <<_alt_nticks, time, rollover>> /\ next[a] # NULL /\ alt_llist_remove(a)
  BY DEF alt_alarm_stop, fields
<1>2. \A x \in Node : In(next', x) <=> In(next, x) /\ x # a
  BY <1>1, UnlinkStep
<1>3. Left(a)' = NULL
  BY <1>2, LeftIs, Nodes
<1>4. ASSUME NEW b \in Alarm, b # a
      PROVE  Left(b)' = Left(b)
  BY <1>1, <1>2, <1>4, LeftIs, Nodes
<1>5. CASE Left(a) = NULL
  <2>1. \A b \in Alarm : Left(b)' = Left(b)
    BY <1>3, <1>4, <1>5
  <2> QED BY <2>1
<1>6. CASE Left(a) # NULL
  <2>1. AC!Set(a, NULL)
    BY <1>3, <1>4, OneLeft
  <2> QED BY <1>6, <2>1 DEF AC!Stop
<1> QED BY <1>5, <1>6

LEMMA TickMaps ==
  ASSUME IInv, alt_tick
  PROVE  AC!Tick
<1>1. next' = next
  BY DEF alt_tick, links
<1>2. ASSUME NEW a \in Alarm, In(next, a)
      PROVE  Left(a) \in 1 .. Wrap - 1 /\ Left(a)' = Left(a) - 1
  BY <1>1, <1>2, LeftIs, TickBefore
<1>3. ASSUME NEW a \in Alarm, ~In(next, a)
      PROVE  Left(a) = NULL /\ Left(a)' = NULL
  BY <1>1, <1>3, LeftIs
<1>4. \A a \in Alarm : Left(a) # 0 /\ Left(a)' = IF Left(a) = NULL THEN NULL ELSE Left(a) - 1
  <2>1. NULL \notin Int
    BY AlarmAssumption
  <2>2. ASSUME NEW a \in Alarm
        PROVE  Left(a) # 0 /\ Left(a)' = IF Left(a) = NULL THEN NULL ELSE Left(a) - 1
    <3>1. CASE In(next, a)
      <4>1. Left(a) # NULL /\ Left(a) # 0
        BY <1>2, <2>1, <3>1
      <4> QED BY <1>2, <3>1, <4>1
    <3>2. CASE ~In(next, a)
      BY <1>3, <2>1, <3>2
    <3> QED BY <3>1, <3>2
  <2> QED BY <2>2
<1> QED BY <1>4 DEF AC!Tick

LEMMA ReturnMaps ==
  ASSUME IInv, NEW period \in Word, Callback_returns(period)
  PROVE  (\E a \in Alarm : AC!Ring(a)) \/ UNCHANGED [b \in Alarm |-> Left(b)]
<1>1. /\ _alt_nticks' = _alt_nticks /\ calling
      /\ \/ period = 0 /\ alt_llist_remove(alarm) /\ UNCHANGED <<time, rollover>>
         \/ period # 0 /\ Rearm(alarm, period)
  BY DEF Callback_returns, fields
<1>2. PICK a \in Alarm : a = alarm /\ a \in Node /\ next[a] # NULL
  BY <1>1, Types, Nodes DEF IInv, WalkOK
<1>3. In(next, a) => Left(a) = 0
  <2>1. In(next, a) => time[a] = _alt_nticks /\ ~rollover[a] /\ _alt_nticks \in Word
    BY <1>1, <1>2, Types DEF IInv, WalkOK
  <2> QED BY <1>2, <2>1, LeftIs, AlarmAssumption DEF LeftOf, Word
<1>4. ~In(next, a) => Left(a) = NULL
  BY <1>2, LeftIs
<1>5. ASSUME NEW b \in Alarm, b # a
      PROVE  Left(b)' = Left(b)
  <2>1. CASE period = 0 /\ alt_llist_remove(a) /\ UNCHANGED <<time, rollover>>
    <3>1. In(next', b) <=> In(next, b)
      BY <1>2, <1>5, <2>1, UnlinkStep, Nodes
    <3> QED BY <1>1, <2>1, <3>1, LeftIs
  <2>2. CASE period # 0 /\ Rearm(a, period)
    <3>1. next' = next /\ time'[b] = time[b] /\ rollover'[b] = rollover[b]
      BY <1>2, <1>5, <2>2, Types DEF Rearm, links
    <3> QED BY <1>1, <3>1, LeftIs
  <2> QED BY <1>1, <1>2, <2>1, <2>2
<1>6. CASE ~In(next, a)
  <2>1. Left(a)' = NULL
    <3>1. ~In(next', a)
      <4>1. CASE alt_llist_remove(a)
        BY <1>2, <4>1, UnlinkStep
      <4>2. CASE Rearm(a, period)
        BY <1>6, <4>2 DEF Rearm, links
      <4> QED BY <1>1, <1>2, <4>1, <4>2
    <3> QED BY <1>2, <3>1, LeftIs
  <2>2. \A b \in Alarm : Left(b)' = Left(b)
    BY <1>4, <1>5, <1>6, <2>1
  <2> QED BY <2>2
<1>7. CASE In(next, a)
  <2>1. CASE period = 0 /\ alt_llist_remove(a)
    <3>1. Left(a)' = NULL
      <4>1. ~In(next', a)
        BY <1>2, <2>1, UnlinkStep
      <4> QED BY <1>2, <4>1, LeftIs
    <3>2. AC!Set(a, NULL)
      BY <1>2, <1>5, <3>1, OneLeft
    <3> QED BY <1>2, <1>3, <1>7, <3>2 DEF AC!Ring
  <2>2. CASE period # 0 /\ Rearm(a, period)
    <3>1. Left(a)' = period
      <4>1. next' = next
        BY <2>2 DEF Rearm, links
      <4>2. LeftOf(time'[a], _alt_nticks', rollover'[a]) = period
        BY <1>1, <1>2, <1>7, <2>2, RearmTime
      <4> QED BY <1>2, <1>7, <4>1, <4>2, LeftIs
    <3>2. AC!Set(a, period)
      BY <1>2, <1>5, <3>1, OneLeft
    <3>3. period \in 1 .. Wrap - 1
      BY <2>2, AlarmAssumption DEF Word
    <3> QED BY <1>2, <1>3, <1>7, <3>2, <3>3 DEF AC!Ring
  <2> QED BY <1>1, <1>2, <2>1, <2>2
<1> QED BY <1>6, <1>7

LEMMA NextMaps ==
  IInv /\ [Next]_vars => [AC!Next]_([a \in Alarm |-> Left(a)])
<1> SUFFICES ASSUME IInv, [Next]_vars PROVE [AC!Next]_([a \in Alarm |-> Left(a)])
  OBVIOUS
<1>1. CASE alt_sysclk_init \/ UNCHANGED vars
  <2>1. UNCHANGED <<_alt_nticks, next, time, rollover>>
    BY <1>1 DEF alt_sysclk_init, vars, links, fields
  <2>2. \A a \in Alarm : Left(a)' = Left(a)
    BY <2>1, LeftIs
  <2> QED BY <2>2
<1>2. CASE alt_tick
  BY <1>2, TickMaps DEF AC!Next
<1>3. CASE Visit
  <2>1. next' = next
    BY <1>3 DEF Visit, links
  <2>2. \A a \in Alarm : Left(a)' = Left(a)
    BY <1>3, <2>1, VisitStep, LeftIs
  <2> QED BY <2>2
<1>4. CASE \E a \in Alarm : \/ \E ticks \in 0 .. MaxDelay : alt_alarm_start(a, ticks)
                            \/ alt_alarm_stop(a)
  BY <1>4, StartMaps, StopMaps DEF AC!Next
<1>5. CASE \E period \in Word : Callback_returns(period)
  BY <1>5, ReturnMaps DEF AC!Next
<1> QED BY <1>1, <1>2, <1>3, <1>4, <1>5 DEF Next, alt_alarm_refused

-----------------------------------------------------------------------------
(* The time of day.                                                        *)

(* What settimeofday still has to store, or has stored, of the time it was *)
(* given: less the ticks that had been counted by then.                    *)
Stores(rest) ==
  /\ rest.zone = set.zone
  /\ rest.usec \in 1 - ALT_US .. ALT_US - 1 /\ rest.zone \in Zone \union {0}
  /\ tick_rate > 0 /\ set.exact =>
       rest.usec = set.time.usec - ((set.at * (ALT_US \div tick_rate)) % ALT_US)

TimeTypes ==
  /\ Day!TypeOK
  /\ alt_resettime \in [sec : Int, usec : Int]
  /\ set.time \in [sec : Nat, usec : 0 .. ALT_US - 1] /\ set.at \in 0 .. TickWord - 1
  /\ set.exact \in BOOLEAN /\ set.zone \in Zone \union {0}

Running ==
  /\ tick_rate = 0 => nticks = 0 /\ elapsed = 0 /\ setting = {}
                      /\ set.at = 0 /\ set.time.sec = 0 /\ set.time.usec = 0 /\ set.zone = 0
                      /\ alt_resettime.sec = 0 /\ alt_resettime.usec = 0 /\ alt_timezone = 0
  /\ set.at + elapsed < TickWord => nticks = set.at + elapsed
  /\ tick_rate > 0 => alt_resettime.sec = set.time.sec - (set.at \div tick_rate)
  /\ IF setting = {} THEN Stores([usec |-> alt_resettime.usec, zone |-> alt_timezone])
     ELSE \E rest : setting = {rest} /\ Stores(rest)

Slept == slept.us \in Nat /\ slept.loops = Day!alt_busy_sleep(slept.us)

TimeInv == TimeTypes /\ Running /\ (slept = Day!Awake \/ Slept)

-----------------------------------------------------------------------------
(* Arithmetic.                                                             *)

LEMMA Divides ==
  ASSUME NEW n \in Int, NEW d \in Nat \ {0}
  PROVE  n \div d \in Int /\ n % d \in 0 .. d - 1 /\ n = d * (n \div d) + (n % d)
OBVIOUS

LEMMA DivideNat ==
  ASSUME NEW n \in Nat, NEW d \in Nat \ {0}
  PROVE  n \div d \in Nat
OBVIOUS

(* Ticks of m microseconds: the whole seconds and the rest.                *)
LEMMA TicksSplit ==
  ASSUME NEW n \in Nat, NEW r \in Nat \ {0}, NEW m \in Nat, r * m = ALT_US
  PROVE  (n \div r) * ALT_US + ((n * m) % ALT_US) = n * m
<1> DEFINE q == n \div r
           k == n % r
<1>1. q \in Nat /\ k \in 0 .. r - 1 /\ n = r * q + k
  OBVIOUS
<1>2. ALT_US \in Nat \ {0} /\ m # 0
  BY TimeAssumption
<1> HIDE DEF q, k
<1>3. n * m = ALT_US * q + k * m
  <2>1. (r * q + k) * m = (r * m) * q + k * m
    BY <1>1
  <2> QED BY <1>1, <2>1
<1>4. k * m \in 0 .. ALT_US - 1
  <2>1. k * m \in Nat
    BY <1>1
  <2>2. r * m - k * m = (r - k) * m /\ (r - k) * m > 0
    BY <1>1, <1>2
  <2> QED BY <2>1, <2>2
<1>5. ASSUME NEW s \in 0 .. ALT_US - 1 PROVE (ALT_US * q + s) % ALT_US = s
  BY <1>1, <1>2, <1>5
<1>6. (n * m) % ALT_US = k * m
  BY <1>3, <1>4, <1>5
<1>7. q * ALT_US = ALT_US * q
  BY <1>1, <1>2
<1> QED BY <1>3, <1>6, <1>7 DEF q

(* The normal form keeps a time that is not negative.                      *)
LEMMA NormalIs ==
  ASSUME NEW s \in Int, NEW u \in Int, s * ALT_US + u >= 0
  PROVE  /\ Day!Normal(s, u).sec * ALT_US + Day!Normal(s, u).usec = s * ALT_US + u
         /\ Day!Normal(s, u).usec \in 0 .. ALT_US - 1
<1>1. ALT_US \in Nat \ {0}
  BY TimeAssumption
<1>2. ~(s <= 0 /\ u < 0)
  <2>1. ASSUME s <= 0 PROVE s * ALT_US <= 0
    BY <1>1, <2>1
  <2>2. s * ALT_US \in Int
    BY <1>1
  <2> QED BY <2>1, <2>2
<1>3. Day!Normal(s, u) = [sec |-> s + (u \div ALT_US), usec |-> u % ALT_US]
  BY <1>2 DEF Day!Normal
<1>4. u \div ALT_US \in Int /\ u % ALT_US \in 0 .. ALT_US - 1
      /\ u = ALT_US * (u \div ALT_US) + (u % ALT_US)
  BY <1>1, Divides
<1> DEFINE a == u \div ALT_US
           b == u % ALT_US
<1> HIDE DEF a, b
<1>5. a \in Int /\ b \in 0 .. ALT_US - 1 /\ u = ALT_US * a + b
  BY <1>4 DEF a, b
<1>6. (s + a) * ALT_US + b = s * ALT_US + u
  BY <1>1, <1>5
<1> QED BY <1>3, <1>5, <1>6 DEF a, b

(* The loops of a sleep.                                                   *)
LEMMA ChunkIs ==
  /\ Day!Chunk \in Nat \ {0} /\ LoopsPerMicrosecond \in Nat \ {0} /\ INT_MAX \in Nat
  /\ Day!Chunk * LoopsPerMicrosecond <= INT_MAX
  /\ INT_MAX < Day!Chunk * LoopsPerMicrosecond + LoopsPerMicrosecond
<1> DEFINE L == LoopsPerMicrosecond
<1>1. L \in Nat \ {0} /\ INT_MAX \in Nat /\ L <= INT_MAX
  BY TimeAssumption
<1>2. INT_MAX \div L \in Nat /\ INT_MAX % L \in 0 .. L - 1
      /\ INT_MAX = L * (INT_MAX \div L) + (INT_MAX % L)
  <2> HIDE DEF L
  <2> QED BY <1>1
<1>3. INT_MAX \div L # 0
  BY <1>1, <1>2
<1>4. (INT_MAX \div L) * L = L * (INT_MAX \div L)
  BY <1>1, <1>2
<1> QED BY <1>1, <1>2, <1>3, <1>4 DEF Day!Chunk

LEMMA SleepRight ==
  ASSUME NEW us \in Nat
  PROVE  /\ Day!alt_busy_sleep(us) >= us * LoopsPerMicrosecond
         /\ us < Day!Chunk \/ us % Day!Chunk # 0 =>
              Day!alt_busy_sleep(us) <= us * LoopsPerMicrosecond + 1
                                          + (us \div Day!Chunk) * LoopsPerMicrosecond
<1> DEFINE big  == us \div Day!Chunk
           rest == us % Day!Chunk
           L    == LoopsPerMicrosecond
<1>1. big \in Nat /\ rest \in 0 .. Day!Chunk - 1 /\ us = Day!Chunk * big + rest
  BY ChunkIs
<1>2. Day!alt_busy_sleep(us) =
        big * INT_MAX + (IF rest * L > 0 THEN rest * L ELSE IF big > 0 THEN TickWord ELSE 1)
  BY DEF Day!alt_busy_sleep
<1>3. L \in Nat \ {0} /\ Day!Chunk \in Nat \ {0} /\ INT_MAX \in Nat /\ TickWord \in Nat
      /\ Day!Chunk * L <= INT_MAX /\ INT_MAX < Day!Chunk * L + L
  BY ChunkIs, TimeAssumption
<1> HIDE DEF big, rest, L
<1>4. us * L = big * (Day!Chunk * L) + rest * L
  <2>1. (Day!Chunk * big + rest) * L = big * (Day!Chunk * L) + rest * L
    BY <1>1, <1>3
  <2> QED BY <1>1, <2>1
<1>5. big * (Day!Chunk * L) <= big * INT_MAX /\ big * INT_MAX <= big * (Day!Chunk * L) + big * L
  <2>1. \A i, j \in Int : i <= j => big * i <= big * j
    BY <1>1
  <2>2. Day!Chunk * L \in Int /\ INT_MAX \in Int /\ Day!Chunk * L + L \in Int
        /\ INT_MAX <= Day!Chunk * L + L
    BY <1>3
  <2>3. big * (Day!Chunk * L) <= big * INT_MAX
    BY <1>3, <2>1, <2>2
  <2>5. big * INT_MAX <= big * (Day!Chunk * L + L)
    BY <2>1, <2>2
  <2>4. big * (Day!Chunk * L + L) = big * (Day!Chunk * L) + big * L
    BY <1>1, <1>3
  <2> QED BY <2>3, <2>4, <2>5
<1>6. /\ big * (Day!Chunk * L) \in Nat /\ big * INT_MAX \in Nat /\ big * L \in Nat /\ rest * L \in Nat
      /\ rest # 0 => rest * L > 0
  BY <1>1, <1>3
<1>7. us < Day!Chunk => big = 0
  <2>1. big # 0 => Day!Chunk * big >= Day!Chunk
    BY <1>1, <1>3
  <2> QED BY <1>1, <1>3, <2>1
<1>8. rest = 0 => rest * L = 0
  BY <1>3
<1>9. CASE rest # 0
  BY <1>2, <1>4, <1>5, <1>6, <1>9 DEF L, big
<1>10. CASE rest = 0
  <2>1. Day!alt_busy_sleep(us) = big * INT_MAX + (IF big > 0 THEN TickWord ELSE 1)
    BY <1>2, <1>8, <1>10
  <2>2. Day!alt_busy_sleep(us) >= us * L
    BY <1>3, <1>4, <1>5, <1>6, <1>8, <1>10, <2>1
  <2>3. us < Day!Chunk => Day!alt_busy_sleep(us) <= us * L + 1 + big * L
    BY <1>1, <1>3, <1>4, <1>5, <1>6, <1>7, <1>8, <1>10, <2>1
  <2> QED BY <1>10, <2>2, <2>3 DEF L, big, rest
<1> QED BY <1>9, <1>10

-----------------------------------------------------------------------------
(* The invariant.                                                          *)

LEMMA RateIs ==
  ASSUME Day!TypeOK
  PROVE  /\ tick_rate \in Nat /\ nticks \in Nat /\ nticks < TickWord
         /\ tick_rate > 0 => /\ ALT_US \div tick_rate \in Nat /\ nticks \div tick_rate \in Nat
                             /\ nticks * (ALT_US \div tick_rate) \in Nat
<1>1. tick_rate \in Nat /\ nticks \in Nat /\ nticks < TickWord /\ ALT_US \in Nat
  BY TimeAssumption DEF Day!TypeOK
<1>2. ASSUME tick_rate > 0
      PROVE  /\ ALT_US \div tick_rate \in Nat /\ nticks \div tick_rate \in Nat
             /\ nticks * (ALT_US \div tick_rate) \in Nat
  <2>1. ALT_US \div tick_rate \in Nat /\ nticks \div tick_rate \in Nat
    BY <1>1, <1>2, DivideNat
  <2>2. \A i, j \in Nat : i * j \in Nat
    OBVIOUS
  <2> QED BY <1>1, <2>1, <2>2
<1> QED BY <1>1, <1>2

LEMMA TimeInit == Day!Init => TimeInv
<1> SUFFICES ASSUME Day!Init PROVE TimeInv
  OBVIOUS
<1>1. TimeTypes
  BY TimeAssumption DEF Day!Init, TimeTypes, Day!TypeOK, Day!Zero
<1>2. Running
  BY <1>1, TimeAssumption DEF Day!Init, Running, Stores, Day!Zero
<1> QED BY <1>1, <1>2 DEF Day!Init, TimeInv

LEMMA StartTime == ASSUME TimeInv, Day!alt_sysclk_init PROVE TimeInv'
<1>1. TimeTypes'
  BY DEF TimeInv, TimeTypes, Day!TypeOK, Day!alt_sysclk_init, Day!result
<1>2. tick_rate' \in Nat \ {0}
  BY TimeAssumption DEF Day!alt_sysclk_init
<1>3. 0 \div tick_rate' = 0
  <2>1. \A d \in Nat \ {0} : 0 \div d = 0
    OBVIOUS
  <2> QED BY <1>2, <2>1
<1>4. (0 * (ALT_US \div tick_rate')) % ALT_US = 0
  <2>1. ALT_US \div tick_rate' \in Nat
    BY <1>2, TimeAssumption, DivideNat
  <2>2. 0 * (ALT_US \div tick_rate') = 0
    BY <2>1
  <2> QED BY <2>2, TimeAssumption
<1>5. Stores([usec |-> alt_resettime.usec, zone |-> alt_timezone])'
  <2>1. /\ nticks = 0 /\ set.at = 0 /\ set.time.usec = 0 /\ alt_resettime.usec = 0
        /\ set.zone = 0 /\ alt_timezone = 0
        /\ UNCHANGED <<alt_resettime, alt_timezone, set>>
    BY DEF TimeInv, Running, Day!alt_sysclk_init
  <2>2. 0 \in 1 - ALT_US .. ALT_US - 1
    BY TimeAssumption
  <2> QED BY <1>4, <2>1, <2>2 DEF Stores
<1>6. Running'
  BY <1>2, <1>3, <1>5 DEF TimeInv, Running, Day!alt_sysclk_init, Day!result
<1> QED BY <1>1, <1>6 DEF TimeInv, Day!alt_sysclk_init, Day!result, Slept

LEMMA CountTime == ASSUME TimeInv, Day!alt_tick PROVE TimeInv'
<1>1. nticks' = (nticks + 1) % TickWord /\ nticks \in 0 .. TickWord - 1 /\ TickWord \in Nat \ {0}
      /\ elapsed \in Nat /\ set.at \in Nat
  BY TimeAssumption DEF Day!alt_tick, TimeInv, TimeTypes, Day!TypeOK
<1>2. nticks' \in 0 .. TickWord - 1 /\ (nticks + 1 < TickWord => nticks' = nticks + 1)
  BY <1>1
<1>3. TimeTypes'
  BY <1>2, TimeAssumption DEF TimeInv, TimeTypes, Day!TypeOK, Day!alt_tick
<1>4. set.at' + elapsed' < TickWord => nticks' = set.at' + elapsed'
  BY <1>1, <1>2 DEF TimeInv, Running, Day!alt_tick
<1>5. Running'
  BY <1>4 DEF TimeInv, Running, Stores, Day!alt_tick
<1> QED BY <1>3, <1>5 DEF TimeInv, Day!alt_tick

LEMMA SetTime ==
  ASSUME TimeInv, NEW t \in Time, NEW z \in Zone, Day!ALT_SETTIMEOFDAY(t, z)
  PROVE  TimeInv'
<1>1. CASE tick_rate = 0
  BY <1>1 DEF TimeInv, TimeTypes, Day!TypeOK, Running, Stores, Day!ALT_SETTIMEOFDAY, Slept
<1>2. CASE tick_rate # 0
  <2> DEFINE r == [usec |-> t.usec - ((Day!Micros % TickWord) % ALT_US), zone |-> z]
  <2>1. /\ alt_resettime' = [alt_resettime EXCEPT !.sec = t.sec - Day!Seconds]
        /\ setting' = {r}
        /\ set' = [time |-> t, zone |-> z, at |-> nticks, exact |-> Day!Micros < TickWord]
        /\ elapsed' = 0
        /\ UNCHANGED <<nticks, tick_rate, alt_timezone, slept>>
    BY <1>2 DEF Day!ALT_SETTIMEOFDAY
  <2>2. /\ tick_rate > 0 /\ Day!Micros \in Nat /\ Day!Seconds \in Nat /\ Day!Seconds = nticks \div tick_rate
        /\ TickWord \in Nat \ {0} /\ ALT_US \in Nat \ {0} /\ nticks \in 0 .. TickWord - 1
        /\ t.sec \in Nat /\ t.usec \in 0 .. ALT_US - 1
    BY <1>2, RateIs, TimeAssumption DEF TimeInv, TimeTypes, Day!TypeOK, Day!Micros, Day!Seconds
  <2>3. r.usec \in 1 - ALT_US .. ALT_US - 1 /\ (Day!Micros < TickWord => r.usec = t.usec - (Day!Micros % ALT_US))
    <3>1. (Day!Micros % TickWord) % ALT_US \in 0 .. ALT_US - 1
      BY <2>2
    <3>2. Day!Micros < TickWord => Day!Micros % TickWord = Day!Micros
      BY <2>2
    <3> QED BY <2>2, <3>1, <3>2
  <2>4. TimeTypes'
    BY <2>1, <2>2, TimeAssumption DEF TimeInv, TimeTypes, Day!TypeOK
  <2>5. PICK rest : rest = r
    OBVIOUS
  <2>6. /\ rest.usec \in 1 - ALT_US .. ALT_US - 1 /\ rest.zone = z
        /\ Day!Micros < TickWord => rest.usec = t.usec - (Day!Micros % ALT_US)
    BY <2>3, <2>5
  <2>7. Stores(rest)'
    BY <2>1, <2>6 DEF Stores, Day!Micros
  <2>8. Running'
    <3>1. alt_resettime'.sec = t.sec - (nticks \div tick_rate)
      BY <2>1, <2>2 DEF TimeInv, TimeTypes
    <3>2. nticks + 0 = nticks /\ tick_rate' # 0 /\ setting' = {rest}
      BY <2>1, <2>2, <2>5
    <3> HIDE DEF r
    <3> QED BY <2>1, <2>7, <3>1, <3>2 DEF Running
  <2> QED BY <2>1, <2>4, <2>8 DEF TimeInv, Slept
<1> QED BY <1>1, <1>2

LEMMA RestTime == ASSUME TimeInv, Day!Set_rest PROVE TimeInv'
<1>1. PICK s : setting = {s} /\ Stores(s)
  BY DEF TimeInv, Running, Day!Set_rest
<1>2. /\ setting' = {} /\ alt_resettime' = [alt_resettime EXCEPT !.usec = s.usec]
      /\ alt_timezone' = s.zone
      /\ UNCHANGED <<nticks, tick_rate, answer, slept, set, elapsed>>
  BY <1>1 DEF Day!Set_rest, Day!result
<1>3. TimeTypes'
  BY <1>1, <1>2, TimeAssumption DEF TimeInv, TimeTypes, Day!TypeOK, Stores
<1>4. Stores([usec |-> alt_resettime.usec, zone |-> alt_timezone])'
  BY <1>1, <1>2 DEF TimeInv, TimeTypes, Stores
<1>5. Running'
  BY <1>1, <1>2, <1>4 DEF TimeInv, TimeTypes, Running
<1> QED BY <1>2, <1>3, <1>5 DEF TimeInv, Slept

LEMMA TimeNext == ASSUME TimeInv, [Day!Next]_Day!vars PROVE TimeInv'
<1>1. CASE Day!alt_sysclk_init
  BY <1>1, StartTime
<1>2. CASE Day!alt_tick
  BY <1>2, CountTime
<1>3. CASE \E t \in Time, z \in Zone : Day!ALT_SETTIMEOFDAY(t, z)
  BY <1>3, SetTime
<1>4. CASE Day!Set_rest
  BY <1>4, RestTime
<1>5. CASE Day!ALT_GETTIMEOFDAY \/ Day!ALT_TIMES \/ UNCHANGED Day!vars
  <2>1. UNCHANGED <<nticks, tick_rate, alt_resettime, alt_timezone, setting, slept, set, elapsed>>
    BY <1>5 DEF Day!ALT_GETTIMEOFDAY, Day!ALT_TIMES, Day!vars
  <2> QED BY <2>1 DEF TimeInv, TimeTypes, Day!TypeOK, Running, Stores, Slept
<1>6. CASE \E us \in Sleep : Day!ALT_USLEEP(us)
  <2>1. PICK us \in Sleep : Day!ALT_USLEEP(us)
    BY <1>6
  <2>2. /\ UNCHANGED <<nticks, tick_rate, alt_resettime, alt_timezone, setting, set, elapsed>>
        /\ slept' = [us |-> us, loops |-> Day!alt_busy_sleep(us)]
    BY <2>1 DEF Day!ALT_USLEEP
  <2>3. us \in Nat
    BY TimeAssumption
  <2>4. Slept'
    BY <2>2, <2>3 DEF Slept
  <2>5. TimeTypes' /\ Running'
    BY <2>2 DEF TimeInv, TimeTypes, Day!TypeOK, Running, Stores
  <2> QED BY <2>4, <2>5 DEF TimeInv
<1> QED BY <1>1, <1>2, <1>3, <1>4, <1>5, <1>6 DEF Day!Next

-----------------------------------------------------------------------------
LEMMA Tells == TimeInv => Day!TellsTime
<1> SUFFICES ASSUME TimeInv, tick_rate > 0, setting = {}, set.exact, set.at + elapsed < TickWord,
                    ALT_US % tick_rate = 0
             PROVE  /\ Day!Now.sec * ALT_US + Day!Now.usec = Day!Expected /\ Day!Now.usec \in 0 .. ALT_US - 1
                    /\ alt_timezone = set.zone
  BY DEF Day!TellsTime
<1> DEFINE r == tick_rate
           m == ALT_US \div tick_rate
           n == nticks
           a == set.at
<1>1. r \in Nat \ {0} /\ n \in Nat /\ a \in Nat /\ elapsed \in Nat /\ ALT_US \in Nat \ {0}
      /\ set.time.sec \in Nat /\ set.time.usec \in Nat
  BY TimeAssumption, RateIs DEF TimeInv, TimeTypes, Day!TypeOK
<1>2. m \in Nat /\ r * m = ALT_US
  <2>1. m \in Nat
    BY <1>1, DivideNat
  <2>2. ALT_US = r * m + (ALT_US % r)
    BY <1>1, Divides
  <2> QED BY <2>1, <2>2, <1>1
<1>3. n = a + elapsed
  BY DEF TimeInv, Running
<1>4. /\ alt_resettime.sec = set.time.sec - (a \div r)
      /\ alt_resettime.usec = set.time.usec - ((a * m) % ALT_US) /\ alt_timezone = set.zone
  BY DEF TimeInv, Running, Stores
<1> DEFINE S == alt_resettime.sec + (n \div r)
           U == alt_resettime.usec + ((n * m) % ALT_US)
<1>5. Day!Now = Day!Normal(S, U)
  BY DEF Day!Now, Day!Seconds, Day!Micros
<1> HIDE DEF m, S, U
<1>6. (n \div r) * ALT_US + ((n * m) % ALT_US) = n * m
      /\ (a \div r) * ALT_US + ((a * m) % ALT_US) = a * m
  <2>1. ASSUME NEW x \in Nat
        PROVE  (x \div r) * ALT_US + ((x * m) % ALT_US) = x * m
    <3> HIDE DEF r
    <3>1. r \in Nat \ {0} /\ m \in Nat /\ r * m = ALT_US
      BY <1>1, <1>2
    <3> QED BY <3>1, TicksSplit, Zenon
  <2> QED BY <1>1, <2>1
<1>7. /\ n \div r \in Int /\ a \div r \in Int /\ n * m \in Int /\ a * m \in Int
      /\ (n * m) % ALT_US \in Int /\ (a * m) % ALT_US \in Int
  <2>1. n * m \in Int /\ a * m \in Int
    BY <1>1, <1>2
  <2>2. \A x \in Int, d \in Nat \ {0} : x \div d \in Int /\ x % d \in Int
    OBVIOUS
  <2> QED BY <1>1, <2>1, <2>2
<1> HIDE DEF r, n, a
<1>8. S \in Int /\ U \in Int
  BY <1>1, <1>4, <1>7 DEF S, U
<1>9. S * ALT_US + U = Day!Expected
  <2>1. S * ALT_US = set.time.sec * ALT_US - (a \div r) * ALT_US + (n \div r) * ALT_US
    <3>1. \A x, y, z \in Int : ((x - y) + z) * ALT_US = x * ALT_US - y * ALT_US + z * ALT_US
      BY <1>1
    <3> DEFINE x == set.time.sec
               y == a \div r
               z == n \div r
    <3>2. x \in Int /\ y \in Int /\ z \in Int
      BY <1>1, <1>7
    <3>3. S = (x - y) + z
      BY <1>4 DEF S, n, r, a
    <3> HIDE DEF x, y, z
    <3>4. S * ALT_US = x * ALT_US - y * ALT_US + z * ALT_US
      BY <3>1, <3>2, <3>3
    <3> QED BY <3>4 DEF x, y, z
  <2>2. n * m = a * m + elapsed * m
    BY <1>1, <1>2, <1>3
  <2>3. S * ALT_US + U = set.time.sec * ALT_US + set.time.usec + elapsed * m
    <3> DEFINE A == (a \div r) * ALT_US
               N == (n \div r) * ALT_US
               T == set.time.sec * ALT_US
               V == elapsed * m
    <3>1. A \in Int /\ N \in Int /\ T \in Int /\ V \in Int
      BY <1>1, <1>2, <1>7
    <3> HIDE DEF A, N, T, V
    <3>2. S * ALT_US = T - A + N /\ N + ((n * m) % ALT_US) = n * m
          /\ A + ((a * m) % ALT_US) = a * m /\ n * m = a * m + V
      BY <2>1, <2>2, <1>6 DEF A, N, T, V
    <3>3. U = set.time.usec - ((a * m) % ALT_US) + ((n * m) % ALT_US)
      BY <1>4 DEF U
    <3>4. S * ALT_US + U = T + set.time.usec + V
      <4> DEFINE X == (n * m) % ALT_US
                 Y == (a * m) % ALT_US
                 P == n * m
                 Q == a * m
                 W == S * ALT_US
      <4>1. X \in Int /\ Y \in Int /\ P \in Int /\ Q \in Int
            /\ W = T - A + N /\ N + X = P /\ A + Y = Q /\ P = Q + V
            /\ U = set.time.usec - Y + X
        BY <1>7, <3>2, <3>3
      <4> HIDE DEF X, Y, P, Q, W
      <4>2. W + U = T + set.time.usec + V
        BY <1>1, <3>1, <4>1
      <4> QED BY <4>2 DEF W
    <3> QED BY <3>4 DEF T, V
  <2> QED BY <2>3 DEF Day!Expected, m
<1>10. S * ALT_US + U >= 0
  <2>1. \A i, j \in Nat : i * j \in Nat
    OBVIOUS
  <2>2. set.time.sec * ALT_US \in Nat /\ elapsed * m \in Nat
    BY <1>1, <1>2, <2>1
  <2>3. Day!Expected = set.time.sec * ALT_US + set.time.usec + elapsed * m
    BY DEF Day!Expected, m
  <2> QED BY <1>1, <1>9, <2>2, <2>3
<1> QED BY <1>4, <1>5, <1>8, <1>9, <1>10, NormalIs

LEMMA Sleeps == TimeInv => Day!SleepsLongEnough
<1>1. CASE slept = Day!Awake
  <2>1. slept.us = 0 /\ slept.loops = 1 /\ 0 * LoopsPerMicrosecond = 0
    BY <1>1, ChunkIs DEF Day!Awake
  <2>2. 0 \div Day!Chunk = 0
    BY ChunkIs
  <2> QED BY <2>1, <2>2, ChunkIs DEF Day!SleepsLongEnough
<1>2. CASE Slept
  BY <1>2, SleepRight DEF Slept, Day!SleepsLongEnough
<1> QED BY <1>1, <1>2 DEF TimeInv

LEMMA TimeSound == TimeInv => Day!TimeRight
BY Tells, Sleeps DEF TimeInv, TimeTypes, Day!TimeRight

-----------------------------------------------------------------------------
(* Sums of the counts in a set of places: the order in which a sum takes   *)
(* its terms does not matter.                                              *)

(* Induction, for a set of numbers.                                        *)
LEMMA NumbersAll ==
  ASSUME NEW B \in SUBSET Nat, 0 \in B, \A n \in B : n + 1 \in B
  PROVE  B = Nat
<1> SUFFICES ASSUME Nat \ B # {} PROVE FALSE
  OBVIOUS
<1> DEFINE R == OpToRel(<, Nat)
<1>1. PICK i \in Nat \ B : \A j \in Nat \ B : <<j, i>> \notin R
  <2>1. IsWellFoundedOn(R, Nat)
    BY NatLessThanWellFounded, Zenon
  <2> HIDE DEF R
  <2>2. Nat \ B \subseteq Nat
    OBVIOUS
  <2> QED BY <2>1, <2>2, WFMin, Zenon
<1>2. i # 0 /\ i - 1 \in Nat /\ i - 1 < i
  OBVIOUS
<1>3. i - 1 \in B
  <2> SUFFICES ASSUME i - 1 \notin B PROVE FALSE
    OBVIOUS
  <2>1. <<i - 1, i>> \in R
    BY <1>2, Zenon DEF OpToRel
  <2> HIDE DEF R
  <2> QED BY <1>1, <1>2, <2>1
<1>4. (i - 1) + 1 \in B /\ (i - 1) + 1 = i
  BY <1>2, <1>3
<1> QED BY <1>4

(* The recursive function that a sum is made of.                           *)
IsSum(g, f, S) ==
  g = [s \in SUBSET S |-> IF s = {} THEN 0
                          ELSE f[CHOOSE i \in s : TRUE] + g[s \ {CHOOSE i \in s : TRUE}]]

LEMMA SumIs ==
  ASSUME NEW f, NEW S
  PROVE  Profiler!SumFunctionOnSet(f, S) = (CHOOSE g : IsSum(g, f, S))[S]
BY DEF Profiler!SumFunctionOnSet, Profiler!FoldFunctionOnSet, Profiler!MapThenFoldSet, IsSum

Any(s) == CHOOSE i \in s : TRUE

LEMMA SumRule ==
  ASSUME NEW f, NEW S, NEW g, IsSum(g, f, S), NEW s \in SUBSET S
  PROVE  g[s] = IF s = {} THEN 0 ELSE f[Any(s)] + g[s \ {Any(s)}]
BY DEF IsSum, Any

LEMMA AnyIs == ASSUME NEW s, s # {} PROVE Any(s) \in s
BY DEF Any

LEMMA Removed ==
  ASSUME NEW s, IsFiniteSet(s), s # {}
  PROVE  /\ Any(s) \in s /\ IsFiniteSet(s \ {Any(s)})
         /\ Cardinality(s \ {Any(s)}) = Cardinality(s) - 1
<1>1. PICK i : i = Any(s)
  OBVIOUS
<1>2. i \in s
  BY <1>1, AnyIs
<1>3. /\ IsFiniteSet(s \ {i})
      /\ Cardinality(s \ {i}) = IF i \in s THEN Cardinality(s) - 1 ELSE Cardinality(s)
  BY FS_RemoveElement, Zenon
<1> QED BY <1>1, <1>2, <1>3

(* Two such functions agree where both are defined.                        *)
LEMMA SumUnique ==
  ASSUME NEW f, NEW S, NEW T, NEW g, NEW h, IsSum(g, f, S), IsSum(h, f, T),
         NEW s \in SUBSET S, s \in SUBSET T, IsFiniteSet(s)
  PROVE  g[s] = h[s]
<1> DEFINE B == {n \in Nat : \A t \in SUBSET s : Cardinality(t) = n => g[t] = h[t]}
<1>1. ASSUME NEW t \in SUBSET s PROVE IsFiniteSet(t) /\ Cardinality(t) \in Nat /\ t \in SUBSET S /\ t \in SUBSET T
  BY FS_Subset, FS_CardinalityType
<1>r. /\ \A t \in SUBSET S : g[t] = IF t = {} THEN 0 ELSE f[Any(t)] + g[t \ {Any(t)}]
      /\ \A t \in SUBSET T : h[t] = IF t = {} THEN 0 ELSE f[Any(t)] + h[t \ {Any(t)}]
  BY DEF IsSum, Any
<1>2. 0 \in B
  <2> SUFFICES ASSUME NEW t \in SUBSET s, Cardinality(t) = 0 PROVE g[t] = h[t]
    OBVIOUS
  <2>1. t = {}
    BY <1>1, FS_EmptySet
  <2> QED BY <1>1, <2>1, SumRule
<1>3. ASSUME NEW n \in B PROVE n + 1 \in B
  <2> SUFFICES ASSUME NEW t \in SUBSET s, Cardinality(t) = n + 1 PROVE g[t] = h[t]
    BY <1>3
  <2>1. t # {} /\ n \in Nat
    <3>1. Cardinality(t) # 0
      BY <1>3
    <3> QED BY <1>3, <3>1, FS_EmptySet
  <2>2. PICK u : u = t \ {Any(t)}
    OBVIOUS
  <2>3. u \in SUBSET s /\ Cardinality(u) = n
    <3>1. IsFiniteSet(t)
      BY <1>1
    <3>2. Cardinality(u) = Cardinality(t) - 1
      BY <2>1, <2>2, <3>1, Removed
    <3> QED BY <2>1, <2>2, <3>2
  <2>4. g[u] = h[u]
    BY <1>3, <2>3
  <2> HIDE DEF B
  <2>5. g[t] = f[Any(t)] + g[u]
    <3>1. t \in SUBSET S
      BY <1>1
    <3>2. g[t] = IF t = {} THEN 0 ELSE f[Any(t)] + g[t \ {Any(t)}]
      BY <3>1, <1>r, Zenon
    <3> QED BY <2>1, <2>2, <3>2
  <2>6. h[t] = f[Any(t)] + h[u]
    <3>1. t \in SUBSET T
      BY <1>1
    <3>2. h[t] = IF t = {} THEN 0 ELSE f[Any(t)] + h[t \ {Any(t)}]
      BY <3>1, <1>r, Zenon
    <3> QED BY <2>1, <2>2, <3>2
  <2> QED BY <2>4, <2>5, <2>6
<1>4. B = Nat
  <2> HIDE DEF B
  <2>1. B \in SUBSET Nat
    BY DEF B
  <2> QED BY <1>2, <1>3, <2>1, NumbersAll
<1>5. Cardinality(s) \in B
  BY <1>1, <1>4
<1> QED BY <1>5

(* There is one for every finite set.                                      *)
LEMMA SumExists ==
  ASSUME NEW f, NEW S, IsFiniteSet(S)
  PROVE  \E g : IsSum(g, f, S)
<1> DEFINE Small(n) == {s \in SUBSET S : Cardinality(s) <= n}
           Rule(g, s) == g[s] = IF s = {} THEN 0 ELSE f[Any(s)] + g[s \ {Any(s)}]
           B == {n \in Nat : \E g : \A s \in Small(n) : Rule(g, s)}
<1>1. ASSUME NEW s \in SUBSET S
      PROVE  /\ IsFiniteSet(s) /\ Cardinality(s) \in Nat /\ Cardinality(s) <= Cardinality(S)
             /\ s # {} => Any(s) \in s /\ s \ {Any(s)} \in SUBSET S
                          /\ Cardinality(s \ {Any(s)}) = Cardinality(s) - 1
  <2>1. s # {} => Any(s) \in s
    BY AnyIs
  <2> QED BY <2>1, FS_Subset, FS_CardinalityType, FS_RemoveElement
<1>2. 0 \in B
  <2>1. ASSUME NEW s \in Small(0) PROVE Rule([t \in SUBSET S |-> 0], s)
    <3>1. IsFiniteSet(s) /\ Cardinality(s) \in Nat /\ Cardinality(s) <= 0
      BY <1>1
    <3>2. s = {}
      BY <3>1, FS_EmptySet
    <3> QED BY <3>2
  <2> QED BY <2>1
<1>3. ASSUME NEW n \in B PROVE n + 1 \in B
  <2>1. PICK g : \A s \in Small(n) : Rule(g, s)
    BY <1>3
  <2> DEFINE h == [s \in SUBSET S |-> IF s \in Small(n) THEN g[s]
                     ELSE f[Any(s)] + g[s \ {Any(s)}]]
  <2>2. ASSUME NEW s \in Small(n + 1) PROVE Rule(h, s)
    <3>1. s \in SUBSET S /\ n \in Nat /\ Cardinality(s) <= n + 1
      BY <1>3
    <3>2. CASE s = {}
      <4>1. s \in Small(n)
        BY <1>1, <3>1, <3>2, FS_EmptySet
      <4> QED BY <2>1, <3>2, <4>1
    <3>3. CASE s # {}
      <4>1. s \ {Any(s)} \in Small(n)
        BY <1>1, <3>1, <3>3
      <4>2. h[s \ {Any(s)}] = g[s \ {Any(s)}]
        BY <4>1
      <4>3. h[s] = f[Any(s)] + g[s \ {Any(s)}]
        <5>1. CASE s \in Small(n)
          <6>1. h[s] = g[s]
            BY <5>1, <3>1
          <6> QED BY <2>1, <3>3, <5>1, <6>1
        <5>2. CASE s \notin Small(n)
          BY <5>2, <3>1
        <5> QED BY <5>1, <5>2
      <4> QED BY <3>3, <4>2, <4>3
    <3> QED BY <3>2, <3>3
  <2> HIDE DEF h, Rule
  <2>3. \A s \in Small(n + 1) : Rule(h, s)
    BY <2>2
  <2>4. n + 1 \in Nat
    BY <1>3
  <2> QED BY <2>3, <2>4
<1>4. Cardinality(S) \in B
  <2> HIDE DEF B
  <2>1. B \in SUBSET Nat
    BY DEF B
  <2> QED BY <1>1, <1>2, <1>3, <2>1, NumbersAll
<1>5. PICK g : \A s \in SUBSET S : Rule(g, s)
  BY <1>1, <1>4
<1> DEFINE h == [s \in SUBSET S |-> g[s]]
<1>6. h = [s \in SUBSET S |-> IF s = {} THEN 0 ELSE f[Any(s)] + h[s \ {Any(s)}]]
  <2>1. ASSUME NEW s \in SUBSET S
        PROVE  g[s] = IF s = {} THEN 0 ELSE f[Any(s)] + h[s \ {Any(s)}]
    <3>1. s \ {Any(s)} \in SUBSET S
      OBVIOUS
    <3>2. h[s \ {Any(s)}] = g[s \ {Any(s)}]
      BY <3>1
    <3> QED BY <1>5, <3>2
  <2> QED BY <2>1
<1> QED BY <1>6 DEF IsSum, Any

LEMMA SumPick ==
  ASSUME NEW f, NEW S, IsFiniteSet(S)
  PROVE  /\ Profiler!SumFunctionOnSet(f, {}) = 0
         /\ S # {} => Profiler!SumFunctionOnSet(f, S)
                        = f[Any(S)] + Profiler!SumFunctionOnSet(f, S \ {Any(S)})
<1>1. ASSUME NEW T, IsFiniteSet(T)
      PROVE  \E g : IsSum(g, f, T) /\ Profiler!SumFunctionOnSet(f, T) = g[T]
  <2>1. PICK g : g = CHOOSE h : IsSum(h, f, T)
    OBVIOUS
  <2>2. IsSum(g, f, T)
    BY <1>1, <2>1, SumExists
  <2>3. Profiler!SumFunctionOnSet(f, T) = g[T]
    BY <2>1, SumIs
  <2> QED BY <2>2, <2>3
<1>2. Profiler!SumFunctionOnSet(f, {}) = 0
  <2>1. PICK g : IsSum(g, f, {}) /\ Profiler!SumFunctionOnSet(f, {}) = g[{}]
    BY <1>1, FS_EmptySet
  <2> QED BY <2>1 DEF IsSum
<1>3. ASSUME S # {}
      PROVE  Profiler!SumFunctionOnSet(f, S) = f[Any(S)] + Profiler!SumFunctionOnSet(f, S \ {Any(S)})
  <2>1. PICK T : T = S \ {Any(S)}
    OBVIOUS
  <2>2. IsFiniteSet(T) /\ T \in SUBSET S
    BY <1>3, <2>1, Removed
  <2>3. PICK g : IsSum(g, f, S) /\ Profiler!SumFunctionOnSet(f, S) = g[S]
    BY <1>1
  <2>4. PICK h : IsSum(h, f, T) /\ Profiler!SumFunctionOnSet(f, T) = h[T]
    BY <1>1, <2>2
  <2>5. g[T] = h[T]
    BY <2>2, <2>3, <2>4, SumUnique
  <2>6. g[S] = f[Any(S)] + g[T]
    BY <1>3, <2>1, <2>3 DEF IsSum, Any
  <2> QED BY <2>1, <2>3, <2>4, <2>5, <2>6
<1> QED BY <1>2, <1>3

LEMMA SumType ==
  ASSUME NEW f, NEW S, IsFiniteSet(S), \A i \in S : f[i] \in Int
  PROVE  Profiler!SumFunctionOnSet(f, S) \in Int /\ ((\A i \in S : f[i] >= 0) => Profiler!SumFunctionOnSet(f, S) >= 0)
<1> DEFINE Sum(T) == Profiler!SumFunctionOnSet(f, T)
           Fine(T) == Sum(T) \in Int /\ ((\A i \in S : f[i] >= 0) => Sum(T) >= 0)
           B == {n \in Nat : \A T \in SUBSET S : Cardinality(T) = n => Fine(T)}
<1>1. ASSUME NEW T \in SUBSET S PROVE IsFiniteSet(T) /\ Cardinality(T) \in Nat
  BY FS_Subset, FS_CardinalityType
<1>2. 0 \in B
  <2> SUFFICES ASSUME NEW T \in SUBSET S, Cardinality(T) = 0 PROVE Fine(T)
    OBVIOUS
  <2>1. T = {}
    BY <1>1, FS_EmptySet
  <2>2. Sum(T) = 0
    BY <1>1, <2>1, SumPick
  <2> QED BY <2>1, <2>2
<1>3. ASSUME NEW n \in B PROVE n + 1 \in B
  <2> SUFFICES ASSUME NEW T \in SUBSET S, Cardinality(T) = n + 1 PROVE Fine(T)
    BY <1>3
  <2>0. n \in Nat /\ \A U \in SUBSET S : Cardinality(U) = n => Fine(U)
    BY <1>3
  <2> HIDE DEF B
  <2>1. IsFiniteSet(T) /\ T # {}
    <3>1. Cardinality(T) # 0
      BY <2>0
    <3> QED BY <1>1, <3>1, FS_EmptySet
  <2>2. PICK c : c = Any(T)
    OBVIOUS
  <2>3. c \in T /\ Sum(T) = f[c] + Sum(T \ {c}) /\ T \ {c} \in SUBSET S
        /\ Cardinality(T \ {c}) = Cardinality(T) - 1
    BY <2>1, <2>2, SumPick, Removed
  <2>4. Fine(T \ {c})
    BY <2>0, <2>3
  <2> QED BY <2>3, <2>4
<1>4. Cardinality(S) \in B
  <2> HIDE DEF B
  <2>1. B \in SUBSET Nat
    BY DEF B
  <2> QED BY <1>1, <1>2, <1>3, <2>1, NumbersAll
<1> QED BY <1>4

(* A sum loses with an element its value, whichever element that is.       *)
LEMMA SumTakes ==
  ASSUME NEW f, NEW S, IsFiniteSet(S), \A i \in S : f[i] \in Int, NEW e \in S
  PROVE  Profiler!SumFunctionOnSet(f, S) = f[e] + Profiler!SumFunctionOnSet(f, S \ {e})
<1>1. ASSUME NEW T \in SUBSET S
      PROVE  /\ IsFiniteSet(T) /\ Cardinality(T) \in Nat /\ Profiler!SumFunctionOnSet(f, T) \in Int
             /\ \A i \in T : Cardinality(T \ {i}) = Cardinality(T) - 1
  BY FS_Subset, FS_CardinalityType, FS_RemoveElement, SumType
<1> DEFINE Sum(T) == Profiler!SumFunctionOnSet(f, T)
           Takes(T) == \A i \in T : Sum(T) = f[i] + Sum(T \ {i})
           B == {n \in Nat : \A T \in SUBSET S : Cardinality(T) = n => Takes(T)}
<1>2. 0 \in B
  <2> SUFFICES ASSUME NEW T \in SUBSET S, Cardinality(T) = 0 PROVE Takes(T)
    OBVIOUS
  <2>1. T = {}
    BY <1>1, FS_EmptySet
  <2> QED BY <2>1
<1>3. ASSUME NEW n \in B PROVE n + 1 \in B
  <2> SUFFICES ASSUME NEW T \in SUBSET S, Cardinality(T) = n + 1 PROVE Takes(T)
    BY <1>3
  <2>0. n \in Nat /\ \A U \in SUBSET S : Cardinality(U) = n => Takes(U)
    BY <1>3
  <2> HIDE DEF B
  <2>1. IsFiniteSet(T) /\ T # {}
    <3>1. Cardinality(T) # 0
      BY <2>0
    <3> QED BY <1>1, <3>1, FS_EmptySet
  <2>2. PICK c : c = Any(T)
    OBVIOUS
  <2>3. c \in T /\ Sum(T) = f[c] + Sum(T \ {c}) /\ T \ {c} \in SUBSET S
    BY <2>1, <2>2, SumPick, Removed
  <2>4. ASSUME NEW i \in T, i # c PROVE Sum(T) = f[i] + Sum(T \ {i})
    <3>1. Cardinality(T \ {c}) = n /\ i \in T \ {c}
      BY <1>1, <2>0, <2>3, <2>4
    <3>2. Sum(T \ {c}) = f[i] + Sum((T \ {c}) \ {i})
      BY <2>0, <2>3, <3>1
    <3>3. T \ {i} \in SUBSET S /\ Cardinality(T \ {i}) = n /\ c \in T \ {i}
      BY <1>1, <2>0, <2>3, <2>4
    <3>4. Sum(T \ {i}) = f[c] + Sum((T \ {i}) \ {c})
      BY <2>0, <3>3
    <3>5. (T \ {c}) \ {i} = (T \ {i}) \ {c} /\ (T \ {i}) \ {c} \in SUBSET S
      OBVIOUS
    <3>6. Sum((T \ {i}) \ {c}) \in Int /\ f[c] \in Int /\ f[i] \in Int
      BY <1>1, <2>3, <2>4, <3>5
    <3>7. PICK r \in Int : r = Sum((T \ {i}) \ {c})
      BY <3>6
    <3>8. Sum(T \ {c}) = f[i] + r /\ Sum(T \ {i}) = f[c] + r
      BY <3>2, <3>4, <3>5, <3>7
    <3>9. Sum(T) = f[c] + (f[i] + r)
      BY <2>3, <3>8
    <3> HIDE DEF Sum
    <3> QED BY <3>6, <3>7, <3>8, <3>9
  <2> QED BY <2>3, <2>4
<1>4. Cardinality(S) \in B
  <2> HIDE DEF B
  <2>1. B \in SUBSET Nat
    BY DEF B
  <2> QED BY <1>1, <1>2, <1>3, <2>1, NumbersAll
<1> QED BY <1>4

(* Equal values have equal sums.                                           *)
LEMMA SumSame ==
  ASSUME NEW f, NEW g, NEW S, IsFiniteSet(S), \A i \in S : f[i] = g[i]
  PROVE  Profiler!SumFunctionOnSet(f, S) = Profiler!SumFunctionOnSet(g, S)
<1>1. ASSUME NEW s \in SUBSET S, s # {}
      PROVE  f[CHOOSE i \in s : TRUE] = g[CHOOSE i \in s : TRUE]
  BY <1>1, AnyIs DEF Any
<1>2. ASSUME NEW h PROVE IsSum(h, f, S) <=> IsSum(h, g, S)
  <2>1. [s \in SUBSET S |-> IF s = {} THEN 0 ELSE f[CHOOSE i \in s : TRUE] + h[s \ {CHOOSE i \in s : TRUE}]]
      = [s \in SUBSET S |-> IF s = {} THEN 0 ELSE g[CHOOSE i \in s : TRUE] + h[s \ {CHOOSE i \in s : TRUE}]]
    BY <1>1
  <2> QED BY <2>1 DEF IsSum
<1>3. PICK u : IsSum(u, f, S)
  BY SumExists
<1>4. PICK v : v = CHOOSE h : IsSum(h, f, S)
  OBVIOUS
<1>5. PICK w : w = CHOOSE h : IsSum(h, g, S)
  OBVIOUS
<1>6. IsSum(v, f, S) /\ IsSum(w, f, S)
  BY <1>2, <1>3, <1>4, <1>5
<1>7. v[S] = w[S]
  BY <1>6, SumUnique
<1> QED BY <1>4, <1>5, <1>7, SumIs

(* One more in one place is one more in all.                               *)
LEMMA SumCounts ==
  ASSUME NEW f, NEW g, NEW S, IsFiniteSet(S), \A i \in S : f[i] \in Int, NEW e \in S,
         NEW k \in Int, g[e] = f[e] + k, \A i \in S \ {e} : g[i] = f[i]
  PROVE  Profiler!SumFunctionOnSet(g, S) = Profiler!SumFunctionOnSet(f, S) + k
<1>1. IsFiniteSet(S \ {e}) /\ \A i \in S : g[i] \in Int
  BY FS_RemoveElement
<1>2. Profiler!SumFunctionOnSet(g, S \ {e}) = Profiler!SumFunctionOnSet(f, S \ {e})
  BY <1>1, SumSame
<1>3. /\ Profiler!SumFunctionOnSet(g, S) = g[e] + Profiler!SumFunctionOnSet(g, S \ {e})
      /\ Profiler!SumFunctionOnSet(f, S) = f[e] + Profiler!SumFunctionOnSet(f, S \ {e})
  BY <1>1, SumTakes
<1>4. Profiler!SumFunctionOnSet(f, S \ {e}) \in Int
  BY <1>1, SumType
<1> QED BY <1>2, <1>3, <1>4

-----------------------------------------------------------------------------
(* The profiler's memory (alt_sbrk.c, mcount_allocate).                    *)

Aside(b, c) == b[1] + b[2] <= c[1] \/ c[1] + c[2] <= b[1]

(* What has been handed out lies in the heap, one block beside the other,  *)
(* and beside what is left of the slab.                                    *)
Laid(end, ptr, size, bs) ==
  /\ bs \in Seq(Int \X Nat)
  /\ size > 0 => HeapStart <= ptr /\ ptr + size <= end
  /\ \A i \in DOMAIN bs : HeapStart <= bs[i][1] /\ bs[i][1] + bs[i][2] <= end
  /\ \A i \in DOMAIN bs : size > 0 => Aside(bs[i], <<ptr, size>>)
  /\ \A i, j \in DOMAIN bs : i # j => Aside(bs[i], bs[j])

MemoryOK(m) ==
  /\ m.end \in HeapStart .. HeapLimit /\ m.ptr \in Int /\ m.size \in Nat
  /\ m.blocks \in Seq(Int \X Nat) /\ m.refused \in BOOLEAN
  /\ ~m.refused => Laid(m.end, m.ptr, m.size, m.blocks)

LEMMA GrownIs ==
  ASSUME NEW end \in HeapStart .. HeapLimit, NEW incr \in Nat
  PROVE  /\ Profiler!Grown(end, incr) \in HeapStart .. HeapLimit
         /\ end <= Profiler!Grown(end, incr)
         /\ Profiler!ALT_SBRK(end, incr) \in Int
         /\ IF Profiler!Fits(end, incr)
            THEN /\ end <= Profiler!ALT_SBRK(end, incr)
                 /\ Profiler!ALT_SBRK(end, incr) + incr = Profiler!Grown(end, incr)
            ELSE Profiler!ALT_SBRK(end, incr) = Profiler!Bad
         /\ Profiler!Fits(end, incr) => Profiler!ALT_SBRK(end, incr) # Profiler!Bad
<1>1. HeapStart \in Nat /\ HeapLimit \in Nat /\ HeapLimit % 4 = 0
  BY ProfilerAssumption
<1>2. PICK a : a = Profiler!Aligned(end)
  OBVIOUS
<1>3. a \in Nat /\ end <= a /\ a <= HeapLimit
  BY <1>1, <1>2 DEF Profiler!Aligned
<1>4. Profiler!Fits(end, incr) <=> a + incr <= HeapLimit
  BY <1>2 DEF Profiler!Fits
<1> QED BY <1>1, <1>2, <1>3, <1>4 DEF Profiler!Grown, Profiler!ALT_SBRK, Profiler!Bad

LEMMA Appended ==
  ASSUME NEW bs \in Seq(Int \X Nat), NEW b \in Int \X Nat
  PROVE  /\ Append(bs, b) \in Seq(Int \X Nat)
         /\ DOMAIN Append(bs, b) = DOMAIN bs \union {Len(bs) + 1} /\ Len(bs) + 1 \notin DOMAIN bs
         /\ \A i \in DOMAIN bs : Append(bs, b)[i] = bs[i] /\ bs[i] \in Int \X Nat
         /\ Append(bs, b)[Len(bs) + 1] = b
  OBVIOUS

(* A block above all the others, at the new end.                           *)
LEMMA LaysAbove ==
  ASSUME NEW end \in Nat, NEW ptr \in Int, NEW size \in Nat, NEW bs, Laid(end, ptr, size, bs),
         NEW x \in Nat, NEW n \in Nat, end <= x, HeapStart <= x
  PROVE  Laid(x + n, ptr, size, Append(bs, <<x, n>>))
<1> DEFINE cs == Append(bs, <<x, n>>)
<1>1. bs \in Seq(Int \X Nat) /\ <<x, n>> \in Int \X Nat /\ HeapStart \in Nat
  BY ProfilerAssumption DEF Laid
<1>2. /\ cs \in Seq(Int \X Nat) /\ DOMAIN cs = DOMAIN bs \union {Len(bs) + 1}
      /\ \A i \in DOMAIN bs : cs[i] = bs[i] /\ bs[i] \in Int \X Nat
      /\ cs[Len(bs) + 1] = <<x, n>>
  BY <1>1, Appended
<1> HIDE DEF cs
<1>3. \A i \in DOMAIN cs : i \in DOMAIN bs \/ cs[i] = <<x, n>>
  BY <1>2
<1>4. \A i \in DOMAIN bs : /\ HeapStart <= bs[i][1] /\ bs[i][1] + bs[i][2] <= end
                           /\ bs[i][1] \in Int /\ bs[i][2] \in Nat
                           /\ size > 0 => Aside(bs[i], <<ptr, size>>)
  BY <1>2 DEF Laid
<1>5. size > 0 => HeapStart <= ptr /\ ptr + size <= x + n
  BY DEF Laid
<1>6. \A i \in DOMAIN cs : HeapStart <= cs[i][1] /\ cs[i][1] + cs[i][2] <= x + n
  <2>1. \A i \in DOMAIN bs : HeapStart <= bs[i][1] /\ bs[i][1] + bs[i][2] <= x + n
    <3> SUFFICES ASSUME NEW i \in DOMAIN bs
                 PROVE  HeapStart <= bs[i][1] /\ bs[i][1] + bs[i][2] <= x + n
      OBVIOUS
    <3>1. HeapStart <= bs[i][1] /\ bs[i][1] + bs[i][2] <= end /\ bs[i][1] + bs[i][2] \in Int
      BY <1>4
    <3> QED BY <3>1
  <2>2. HeapStart <= <<x, n>>[1] /\ <<x, n>>[1] + <<x, n>>[2] <= x + n
    BY <1>1
  <2> QED BY <1>2, <1>3, <2>1, <2>2
<1>7. \A i \in DOMAIN cs : size > 0 => Aside(cs[i], <<ptr, size>>)
  <2>1. size > 0 => ptr + size <= x
    BY DEF Laid
  <2>2. size > 0 => Aside(<<x, n>>, <<ptr, size>>)
    BY <2>1 DEF Aside
  <2> QED BY <1>2, <1>3, <1>4, <2>2
<1>8. ASSUME NEW i \in DOMAIN cs, NEW j \in DOMAIN cs, i # j PROVE Aside(cs[i], cs[j])
  <2>1. CASE i \in DOMAIN bs /\ j \in DOMAIN bs
    BY <1>2, <1>8, <2>1 DEF Laid
  <2>2. CASE i \notin DOMAIN bs
    <3>1. j \in DOMAIN bs /\ cs[i] = <<x, n>> /\ cs[j] = bs[j]
      BY <1>2, <1>8, <2>2
    <3> QED BY <1>4, <3>1 DEF Aside
  <2>3. CASE j \notin DOMAIN bs
    <3>1. i \in DOMAIN bs /\ cs[j] = <<x, n>> /\ cs[i] = bs[i]
      BY <1>2, <1>8, <2>3
    <3> QED BY <1>4, <3>1 DEF Aside
  <2> QED BY <2>1, <2>2, <2>3
<1> QED BY <1>2, <1>5, <1>6, <1>7, <1>8 DEF Laid, cs

(* A new slab above all blocks.                                            *)
LEMMA LaysSlab ==
  ASSUME NEW end \in Nat, NEW ptr, NEW size, NEW bs, Laid(end, ptr, size, bs),
         NEW x \in Nat, NEW n \in Nat, end <= x, HeapStart <= x
  PROVE  Laid(x + n, x, n, bs)
<1>1. bs \in Seq(Int \X Nat)
  BY DEF Laid
<1>2. \A i \in DOMAIN bs : bs[i][1] \in Int /\ bs[i][2] \in Nat
  BY <1>1
<1>3. \A i \in DOMAIN bs : HeapStart <= bs[i][1] /\ bs[i][1] + bs[i][2] <= end
  BY DEF Laid
<1>4. ASSUME NEW i \in DOMAIN bs
      PROVE  /\ HeapStart <= bs[i][1] /\ bs[i][1] + bs[i][2] <= x + n /\ Aside(bs[i], <<x, n>>)
  <2>1. /\ HeapStart <= bs[i][1] /\ bs[i][1] + bs[i][2] <= end
        /\ bs[i][1] \in Int /\ bs[i][2] \in Nat
    BY <1>2, <1>3
  <2> QED BY <2>1 DEF Aside
<1>5. \A i, j \in DOMAIN bs : i # j => Aside(bs[i], bs[j])
  BY DEF Laid
<1> QED BY <1>1, <1>4, <1>5 DEF Laid

(* A block from the slab.                                                  *)
LEMMA LaysRecord ==
  ASSUME NEW end \in Nat, NEW ptr \in Int, NEW size \in Nat, NEW bs, Laid(end, ptr, size, bs),
         NEW n \in Nat \ {0}, n <= size
  PROVE  Laid(end, ptr + n, size - n, Append(bs, <<ptr, n>>))
<1> DEFINE cs == Append(bs, <<ptr, n>>)
<1>1. bs \in Seq(Int \X Nat) /\ <<ptr, n>> \in Int \X Nat /\ HeapStart \in Nat
  BY ProfilerAssumption DEF Laid
<1>2. /\ cs \in Seq(Int \X Nat) /\ DOMAIN cs = DOMAIN bs \union {Len(bs) + 1}
      /\ \A i \in DOMAIN bs : cs[i] = bs[i] /\ bs[i] \in Int \X Nat
      /\ cs[Len(bs) + 1] = <<ptr, n>>
  BY <1>1, Appended
<1> HIDE DEF cs
<1>3. size > 0 /\ HeapStart <= ptr /\ ptr + size <= end
  BY DEF Laid
<1>4. \A i \in DOMAIN bs : /\ HeapStart <= bs[i][1] /\ bs[i][1] + bs[i][2] <= end
                           /\ bs[i][1] \in Int /\ bs[i][2] \in Nat
                           /\ Aside(bs[i], <<ptr, size>>)
  BY <1>2, <1>3 DEF Laid
<1>5. \A i \in DOMAIN cs : /\ HeapStart <= cs[i][1] /\ cs[i][1] + cs[i][2] <= end
                           /\ Aside(cs[i], <<ptr + n, size - n>>)
  <2>1. ASSUME NEW i \in DOMAIN bs PROVE Aside(bs[i], <<ptr + n, size - n>>) /\ Aside(bs[i], <<ptr, n>>)
    BY <1>4 DEF Aside
  <2>2. /\ Aside(<<ptr, n>>, <<ptr + n, size - n>>) /\ HeapStart <= <<ptr, n>>[1]
        /\ <<ptr, n>>[1] + <<ptr, n>>[2] <= end
    BY <1>1, <1>3 DEF Aside
  <2> SUFFICES ASSUME NEW i \in DOMAIN cs
               PROVE  /\ HeapStart <= cs[i][1] /\ cs[i][1] + cs[i][2] <= end
                      /\ Aside(cs[i], <<ptr + n, size - n>>)
    OBVIOUS
  <2>3. CASE i \in DOMAIN bs
    BY <1>2, <1>4, <2>1, <2>3
  <2>4. CASE i \notin DOMAIN bs
    BY <1>2, <2>2, <2>4
  <2> QED BY <2>3, <2>4
<1>6. ASSUME NEW i \in DOMAIN cs, NEW j \in DOMAIN cs, i # j PROVE Aside(cs[i], cs[j])
  <2>1. CASE i \in DOMAIN bs /\ j \in DOMAIN bs
    BY <1>2, <1>6, <2>1 DEF Laid
  <2>2. CASE i \notin DOMAIN bs
    <3>1. j \in DOMAIN bs /\ cs[i] = <<ptr, n>> /\ cs[j] = bs[j]
      BY <1>2, <1>6, <2>2
    <3> QED BY <1>4, <3>1 DEF Aside
  <2>3. CASE j \notin DOMAIN bs
    <3>1. i \in DOMAIN bs /\ cs[j] = <<ptr, n>> /\ cs[i] = bs[i]
      BY <1>2, <1>6, <2>3
    <3> QED BY <1>4, <3>1 DEF Aside
  <2> QED BY <2>1, <2>2, <2>3
<1>7. size - n > 0 => HeapStart <= ptr + n /\ (ptr + n) + (size - n) <= end
  BY <1>1, <1>3
<1> QED BY <1>2, <1>5, <1>6, <1>7 DEF Laid, cs

LEMMA AllocateKeeps ==
  ASSUME NEW m, MemoryOK(m)
  PROVE  MemoryOK(Profiler!mcount_allocate(m)) /\ (m.refused => Profiler!mcount_allocate(m).refused)
<1> DEFINE R    == Profiler!RecordSize
           n    == SlabIncrement
           lack == m.size < R
           data == IF lack THEN Profiler!ALT_SBRK(m.end, n) ELSE m.ptr
           new  == Profiler!mcount_allocate(m)
<1>1. R = 12 /\ n \in Nat /\ n >= R /\ HeapStart \in Nat /\ HeapLimit \in Nat
  BY ProfilerAssumption DEF Profiler!RecordSize
<1>2. /\ m.end \in HeapStart .. HeapLimit /\ m.ptr \in Int /\ m.size \in Nat
      /\ m.blocks \in Seq(Int \X Nat) /\ m.refused \in BOOLEAN
      /\ ~m.refused => Laid(m.end, m.ptr, m.size, m.blocks)
  BY DEF MemoryOK
<1>3. /\ new.end = IF lack THEN Profiler!Grown(m.end, n) ELSE m.end
      /\ new.ptr = data + R
      /\ new.size = (IF lack THEN n ELSE m.size) - R
      /\ new.blocks = Append(m.blocks, <<data, R>>)
      /\ new.refused = (m.refused \/ data = Profiler!Bad)
  BY DEF Profiler!mcount_allocate
<1> HIDE DEF new
<1>4. /\ Profiler!Grown(m.end, n) \in HeapStart .. HeapLimit
      /\ Profiler!ALT_SBRK(m.end, n) \in Int
      /\ Profiler!ALT_SBRK(m.end, n) # Profiler!Bad =>
           /\ m.end <= Profiler!ALT_SBRK(m.end, n)
           /\ Profiler!ALT_SBRK(m.end, n) + n = Profiler!Grown(m.end, n)
  BY <1>1, <1>2, GrownIs
<1>5. data \in Int /\ R \in Nat /\ <<data, R>> \in Int \X Nat
  BY <1>1, <1>2, <1>4
<1>6. new.blocks \in Seq(Int \X Nat)
  BY <1>2, <1>3, <1>5, Appended
<1>7. new.end \in HeapStart .. HeapLimit /\ new.ptr \in Int /\ new.size \in Nat
      /\ new.refused \in BOOLEAN
  <2>1. new.end \in HeapStart .. HeapLimit
    BY <1>2, <1>3, <1>4
  <2>2. new.ptr \in Int
    BY <1>3, <1>5
  <2>3. new.size \in Nat
    BY <1>1, <1>2, <1>3
  <2>4. new.refused \in BOOLEAN
    BY <1>3, Zenon
  <2> QED BY <2>1, <2>2, <2>3, <2>4
<1>8. ASSUME ~new.refused PROVE Laid(new.end, new.ptr, new.size, new.blocks)
  <2>1. ~m.refused /\ data # Profiler!Bad
    BY <1>3, <1>8
  <2>2. CASE ~lack
    <3>1. Laid(m.end, m.ptr + R, m.size - R, Append(m.blocks, <<m.ptr, R>>))
      <4>1. m.end \in Nat /\ R \in Nat \ {0} /\ R <= m.size
        BY <1>1, <1>2, <2>2
      <4> HIDE DEF R
      <4> QED BY <1>2, <2>1, <4>1, LaysRecord
    <3> QED BY <1>3, <2>2, <3>1
  <2>3. CASE lack
    <3>1. PICK x : x = Profiler!ALT_SBRK(m.end, n)
      OBVIOUS
    <3>2. x \in Nat /\ m.end <= x /\ HeapStart <= x /\ m.end \in Nat /\ data = x
          /\ x + n = new.end
      <4>1. data = x /\ x # Profiler!Bad /\ new.end = Profiler!Grown(m.end, n)
        BY <1>3, <2>1, <2>3, <3>1
      <4>2. x \in Int /\ m.end <= x /\ x + n = new.end
        BY <1>4, <3>1, <4>1
      <4>3. m.end \in Nat /\ HeapStart <= m.end
        BY <1>1, <1>2
      <4> QED BY <1>1, <4>1, <4>2, <4>3
    <3>3. Laid(x + n, x, n, m.blocks)
      BY <1>1, <1>2, <2>1, <3>2, LaysSlab
    <3>4. Laid(x + n, x + R, n - R, Append(m.blocks, <<x, R>>))
      <4>1. x + n \in Nat /\ x \in Int /\ R \in Nat \ {0} /\ R <= n
        BY <1>1, <3>2
      <4> HIDE DEF R
      <4> QED BY <1>1, <3>3, <4>1, LaysRecord
    <3> QED BY <1>3, <2>3, <3>2, <3>4
  <2> QED BY <2>2, <2>3
<1>9. MemoryOK(new)
  BY <1>6, <1>7, <1>8 DEF MemoryOK
<1> QED BY <1>3, <1>9 DEF new

LEMMA LaidApart ==
  ASSUME MemoryOK(Profiler!Memory)
  PROVE  Profiler!Apart /\ heap_end \in HeapStart .. HeapLimit
BY DEF MemoryOK, Laid, Aside, Profiler!Memory, Profiler!Apart
-----------------------------------------------------------------------------
(* The call graph (alt_mcount.S, __mcount_record).                         *)

From    == {a[2] : a \in Arc}
Arcs    == Seq([from : From, count : Nat])
Records == [self : Profiler!Function, arcs : Arcs]

Missed  == {"check", "clear", "init", "start", "record"}
Busy    == {"find function", "find arc", "load", "store"} \union Missed

GraphTypes ==
  /\ list \in Seq(Records) /\ Profiler!NeverEmpty /\ IsFiniteSet(Profiler!Places)
  /\ pc \in [Profiler!Level -> Busy \union {"run", "off"}] /\ pc["program"] # "off"
  /\ regs \in [Profiler!Level -> [arc : Arc \union {<<>>}, fn : Nat, at : Nat, count : Nat]]
  /\ calls \in [Arc -> Nat] /\ raced \subseteq Arc

(* How often a caller occurs in a list of arcs.                            *)
Never(arcs, x) == \A i \in DOMAIN arcs : arcs[i].from # x
Once(arcs, x)  == \A i, j \in DOMAIN arcs : arcs[i].from = x /\ arcs[j].from = x => i = j
Single(arcs)   == \A i, j \in DOMAIN arcs : arcs[i].from = arcs[j].from => i = j
Twice(arcs)    == \A i, j, k \in DOMAIN arcs :
                    arcs[i].from = arcs[j].from /\ arcs[j].from = arcs[k].from
                      => i = j \/ j = k \/ i = k

(* A function is in the list twice at most, and the older record then      *)
(* names no caller twice.                                                  *)
ListOK ==
  /\ \A i, j, k \in DOMAIN list : list[i].self = list[j].self /\ list[j].self = list[k].self
                                    => i = j \/ j = k \/ i = k
  /\ \A i \in DOMAIN list : Twice(list[i].arcs)
  /\ \A i, j \in DOMAIN list : i < j /\ list[i].self = list[j].self => Single(list[i].arcs)

(* The record a level has found is the newest, and so is its arc's.        *)
Found(l) ==
  LET r == regs[l] IN
  /\ pc[l] \in {"run", "off", "find function"} => r.fn = 0
  /\ pc[l] \in Busy => r.arc \in Arc
  /\ pc[l] \in {"find arc", "load", "store"} => r.fn # 0
  /\ r.fn # 0 => /\ r.fn \in DOMAIN list /\ list[r.fn].self = r.arc[1]
                 /\ \A k \in DOMAIN list : list[k].self = r.arc[1] => k <= r.fn
  /\ pc[l] \in {"load", "store"} => /\ r.at \in DOMAIN list[r.fn].arcs
                                    /\ list[r.fn].arcs[r.at].from = r.arc[2]

(* The count it has loaded is old only if a handler has counted since.     *)
Loaded(l) ==
  LET r == regs[l] IN
  pc[l] = "store" => /\ r.count <= list[r.fn].arcs[r.at].count
                     /\ l = "handler" \/ r.arc \notin raced
                          => r.count = list[r.fn].arcs[r.at].count

(* What a handler has not found is not there; what the program has not     *)
(* found may have been added since, but once.                              *)
NotFound(l) ==
  LET r == regs[l] IN
  pc[l] \in Missed =>
    IF r.fn # 0
    THEN IF l = "handler" THEN Never(list[r.fn].arcs, r.arc[2]) ELSE Once(list[r.fn].arcs, r.arc[2])
    ELSE IF l = "handler" THEN \A i \in DOMAIN list : list[i].self # r.arc[1]
         ELSE /\ \A i, j \in DOMAIN list : list[i].self = r.arc[1] /\ list[j].self = r.arc[1] => i = j
              /\ \A i \in DOMAIN list : list[i].self = r.arc[1] => Single(list[i].arcs)

LevelOK(l) == Found(l) /\ Loaded(l) /\ NotFound(l)

GraphInv == /\ GraphTypes /\ ListOK /\ (\A l \in Profiler!Level : LevelOK(l))
            /\ Profiler!CountsCalls

LEMMA Levels ==
  /\ Profiler!Level = {"program", "handler"}
  /\ \A l \in Profiler!Level : l # "handler" => l = "program"
BY DEF Profiler!Level

LEMMA ArcParts ==
  /\ \A a \in Arc : a[1] \in Profiler!Function /\ a[2] \in From
  /\ \A a, b \in Arc : a[1] = b[1] /\ a[2] = b[2] => a = b
BY ProfilerAssumption DEF Profiler!Function, From

(* Lists of arcs with the same callers, and with one more.                 *)
SameCallers(arcs, new) ==
  /\ DOMAIN new = DOMAIN arcs /\ \A i \in DOMAIN arcs : new[i].from = arcs[i].from

LEMMA CallersSame ==
  ASSUME NEW arcs, NEW new, SameCallers(arcs, new)
  PROVE  /\ \A x : (Never(arcs, x) => Never(new, x)) /\ (Once(arcs, x) => Once(new, x))
         /\ (Single(arcs) => Single(new)) /\ (Twice(arcs) => Twice(new))
BY DEF SameCallers, Never, Once, Single, Twice

OneMore(arcs, new, arc) ==
  /\ DOMAIN new = DOMAIN arcs \union {Len(arcs) + 1} /\ Len(arcs) + 1 \notin DOMAIN arcs
  /\ \A i \in DOMAIN arcs : new[i] = arcs[i]
  /\ new[Len(arcs) + 1] = arc

LEMMA CallersGrow ==
  ASSUME NEW arcs, NEW new, NEW arc, OneMore(arcs, new, arc)
  PROVE  /\ \A x : x # arc.from => /\ Never(arcs, x) => Never(new, x)
                                   /\ Once(arcs, x) => Once(new, x)
         /\ Never(arcs, arc.from) => Once(new, arc.from)
         /\ Never(arcs, arc.from) /\ Single(arcs) => Single(new)
         /\ Never(arcs, arc.from) => Once(arcs, arc.from)
         /\ Once(arcs, arc.from) /\ Twice(arcs) => Twice(new)
<1>1. /\ DOMAIN new = DOMAIN arcs \union {Len(arcs) + 1} /\ Len(arcs) + 1 \notin DOMAIN arcs
      /\ \A i \in DOMAIN arcs : new[i].from = arcs[i].from
      /\ new[Len(arcs) + 1].from = arc.from
  BY DEF OneMore
<1>2. \A x : x # arc.from => /\ Never(arcs, x) => Never(new, x)
                             /\ Once(arcs, x) => Once(new, x)
  BY <1>1 DEF Never, Once
<1>3. /\ Never(arcs, arc.from) => Once(new, arc.from)
      /\ Never(arcs, arc.from) => Once(arcs, arc.from)
  BY <1>1 DEF Never, Once
<1>4. Never(arcs, arc.from) /\ Single(arcs) => Single(new)
  BY <1>1 DEF Never, Single
<1>5. ASSUME Once(arcs, arc.from), Twice(arcs) PROVE Twice(new)
  <2> SUFFICES ASSUME NEW i \in DOMAIN new, NEW j \in DOMAIN new, NEW k \in DOMAIN new,
                      new[i].from = new[j].from, new[j].from = new[k].from
               PROVE  i = j \/ j = k \/ i = k
    BY DEF Twice
  <2>1. CASE i \in DOMAIN arcs /\ j \in DOMAIN arcs /\ k \in DOMAIN arcs
    BY <1>1, <1>5, <2>1 DEF Twice
  <2>2. CASE i \notin DOMAIN arcs
    BY <1>1, <1>5, <2>2 DEF Once
  <2>3. CASE j \notin DOMAIN arcs
    BY <1>1, <1>5, <2>3 DEF Once
  <2>4. CASE k \notin DOMAIN arcs
    BY <1>1, <1>5, <2>4 DEF Once
  <2> QED BY <2>1, <2>2, <2>3, <2>4
<1> QED BY <1>2, <1>3, <1>4, <1>5

LEMMA ArcsAre ==
  ASSUME NEW arcs \in Arcs, NEW arc \in [from : From, count : Nat]
  PROVE  Append(arcs, arc) \in Arcs /\ OneMore(arcs, Append(arcs, arc), arc)
         /\ Append(arcs, arc) # <<>> /\ Len(arcs) \in Nat /\ DOMAIN arcs = 1 .. Len(arcs)
BY DEF Arcs, OneMore

LEMMA RecordsAre ==
  ASSUME NEW lst \in Seq(Records)
  PROVE  /\ Len(lst) \in Nat /\ DOMAIN lst = 1 .. Len(lst)
         /\ \A i \in DOMAIN lst : /\ lst[i] \in Records /\ lst[i].self \in Profiler!Function
                                  /\ lst[i].arcs \in Arcs
                                  /\ lst[i] = [self |-> lst[i].self, arcs |-> lst[i].arcs]
                                  /\ \A j \in DOMAIN lst[i].arcs :
                                       lst[i].arcs[j] \in [from : From, count : Nat]
<1>1. Len(lst) \in Nat /\ DOMAIN lst = 1 .. Len(lst) /\ \A i \in DOMAIN lst : lst[i] \in Records
  BY LenProperties, ElementOfSeq
<1>2. \A r \in Records : r.self \in Profiler!Function /\ r.arcs \in Arcs
                         /\ r = [self |-> r.self, arcs |-> r.arcs]
  BY DEF Records
<1>3. \A arcs \in Arcs : \A j \in DOMAIN arcs : arcs[j] \in [from : From, count : Nat]
  BY LenProperties, ElementOfSeq DEF Arcs
<1> QED BY <1>1, <1>2, <1>3

(* The list of arcs of one record is replaced.                             *)
LEMMA ArcsReplaced ==
  ASSUME NEW lst \in Seq(Records), NEW fn \in DOMAIN lst, NEW arcs \in Arcs
  PROVE  LET e == [lst[fn] EXCEPT !.arcs = arcs] IN e \in Records /\ e.self = lst[fn].self /\ e.arcs = arcs
<1>1. lst[fn] = [self |-> lst[fn].self, arcs |-> lst[fn].arcs] /\ lst[fn].self \in Profiler!Function
  BY RecordsAre
<1>2. [lst[fn] EXCEPT !.arcs = arcs] = [self |-> lst[fn].self, arcs |-> arcs]
  BY <1>1
<1> QED BY <1>1, <1>2 DEF Records

LEMMA RecordReplaced ==
  ASSUME NEW lst \in Seq(Records), NEW fn \in DOMAIN lst, NEW e \in Records
  PROVE  /\ [lst EXCEPT ![fn] = e] \in Seq(Records) /\ DOMAIN [lst EXCEPT ![fn] = e] = DOMAIN lst
         /\ \A i \in DOMAIN lst : [lst EXCEPT ![fn] = e][i] = IF i = fn THEN e ELSE lst[i]
<1>1. fn \in 1 .. Len(lst) /\ DOMAIN lst = 1 .. Len(lst)
  BY RecordsAre
<1> QED BY <1>1, ExceptSeq

CountSet(lst, fn, at, c, new) == new = [lst EXCEPT ![fn].arcs[at].count = c]

LEMMA CountReplaced ==
  ASSUME NEW lst \in Seq(Records), NEW fn \in DOMAIN lst, NEW at \in DOMAIN lst[fn].arcs,
         NEW c \in Nat, NEW new, CountSet(lst, fn, at, c, new)
  PROVE  /\ new \in Seq(Records) /\ DOMAIN new = DOMAIN lst
         /\ \A i \in DOMAIN lst : /\ new[i].self = lst[i].self
                                  /\ SameCallers(lst[i].arcs, new[i].arcs)
         /\ \A i \in DOMAIN lst : \A j \in DOMAIN lst[i].arcs :
              new[i].arcs[j].count = IF i = fn /\ j = at THEN c ELSE lst[i].arcs[j].count
<1>1. PICK arcs : arcs = [lst[fn].arcs EXCEPT ![at].count = c]
  OBVIOUS
<1>2. PICK old : old = lst[fn].arcs
  OBVIOUS
<1>3. old \in Arcs /\ at \in 1 .. Len(old) /\ DOMAIN old = 1 .. Len(old)
      /\ \A j \in DOMAIN old : old[j] \in [from : From, count : Nat]
  BY <1>2, RecordsAre, LenProperties DEF Arcs
<1>4. PICK e : e = [old[at] EXCEPT !.count = c]
  OBVIOUS
<1>5. e \in [from : From, count : Nat] /\ e.from = old[at].from /\ e.count = c
  BY <1>3, <1>4
<1>6. arcs = [old EXCEPT ![at] = e]
  BY <1>1, <1>2, <1>4
<1>7. /\ arcs \in Arcs /\ DOMAIN arcs = DOMAIN old
      /\ \A j \in DOMAIN old : arcs[j] = IF j = at THEN e ELSE old[j]
  BY <1>3, <1>5, <1>6, ExceptSeq DEF Arcs
<1>8. PICK r : r = [lst[fn] EXCEPT !.arcs = arcs]
  OBVIOUS
<1>9. /\ new \in Seq(Records) /\ DOMAIN new = DOMAIN lst
      /\ \A i \in DOMAIN lst : new[i].self = lst[i].self
      /\ \A i \in DOMAIN lst \ {fn} : new[i] = lst[i]
      /\ new[fn].arcs = arcs
  <2>1. new = [lst EXCEPT ![fn] = r]
    BY <1>1, <1>8 DEF CountSet
  <2>2. r \in Records /\ r.self = lst[fn].self /\ r.arcs = arcs
    BY <1>7, <1>8, ArcsReplaced
  <2>3. /\ [lst EXCEPT ![fn] = r] \in Seq(Records) /\ DOMAIN [lst EXCEPT ![fn] = r] = DOMAIN lst
        /\ \A i \in DOMAIN lst : [lst EXCEPT ![fn] = r][i] = IF i = fn THEN r ELSE lst[i]
    BY <2>2, RecordReplaced
  <2> QED BY <2>1, <2>2, <2>3
<1>10. SameCallers(old, arcs) /\ \A j \in DOMAIN old : arcs[j].count = IF j = at THEN c ELSE old[j].count
  BY <1>5, <1>7 DEF SameCallers
<1>11. \A i \in DOMAIN lst \ {fn} : SameCallers(lst[i].arcs, new[i].arcs)
  BY <1>9 DEF SameCallers
<1> QED BY <1>2, <1>9, <1>10, <1>11

LEMMA RecordAppended ==
  ASSUME NEW lst \in Seq(Records), NEW e \in Records
  PROVE  /\ Append(lst, e) \in Seq(Records)
         /\ DOMAIN Append(lst, e) = DOMAIN lst \union {Len(lst) + 1}
         /\ Len(lst) + 1 \notin DOMAIN lst /\ \A i \in DOMAIN lst : i < Len(lst) + 1
         /\ \A i \in DOMAIN lst : Append(lst, e)[i] = lst[i]
         /\ Append(lst, e)[Len(lst) + 1] = e
  OBVIOUS

(* The newest of some places.                                              *)
LEMMA NewestIs ==
  ASSUME NEW n \in Nat, NEW places \in SUBSET (1 .. n)
  PROVE  /\ Profiler!Newest(places) \in places \union {0}
         /\ \A i \in places : i <= Profiler!Newest(places)
<1> DEFINE S == places \union {0}
           D == {n - i : i \in S}
<1>1. PICK R : R = OpToRel(<, Nat)
  OBVIOUS
<1>2. IsWellFoundedOn(R, Nat)
  BY <1>1, NatLessThanWellFounded, Zenon
<1>3. D \subseteq Nat /\ D # {}
  OBVIOUS
<1>4. PICK d \in D : \A j \in D : <<j, d>> \notin R
  <2> HIDE DEF D
  <2> QED BY <1>2, <1>3, WFMin, Zenon
<1>5. PICK m \in S : d = n - m
  OBVIOUS
<1>6. ASSUME NEW i \in S PROVE i <= m
  <2>1. n - i \in D /\ n - i \in Nat /\ d \in Nat
    BY <1>3
  <2>2. ~(n - i < d)
    <3>1. n - i < d => <<n - i, d>> \in R
      BY <1>1, <2>1, Zenon DEF OpToRel
    <3> QED BY <1>4, <2>1, <3>1
  <2> QED BY <1>5, <2>2
<1>7. PICK x \in S : x = Profiler!Max(S) /\ \A i \in S : x >= i
  <2>1. \E x \in S : \A i \in S : x >= i
    BY <1>6
  <2> QED BY <2>1 DEF Profiler!Max
<1> QED BY <1>7 DEF Profiler!Newest

-----------------------------------------------------------------------------
(* Steps that leave the graph alone.                                       *)

LEMMA CountsSame ==
  ASSUME Profiler!CountsCalls, UNCHANGED <<list, calls, raced>>
  PROVE  Profiler!CountsCalls'
<1>1. Profiler!Places' = Profiler!Places
  BY DEF Profiler!Places
<1>2. \A a \in Arc : Profiler!Copies(a)' = Profiler!Copies(a)
  BY <1>1 DEF Profiler!Copies
<1>3. \A a \in Arc : Profiler!Total(a)' = Profiler!Total(a)
  BY <1>1, <1>2 DEF Profiler!Total
<1> QED BY <1>3 DEF Profiler!CountsCalls

Registers == [arc : Arc \union {<<>>}, fn : Nat, at : Nat, count : Nat]

(* Only this level moves.                                                  *)
Alone(l) ==
  /\ pc' \in [Profiler!Level -> Busy \union {"run", "off"}] /\ pc'["program"] # "off"
  /\ regs' \in [Profiler!Level -> Registers]
  /\ \A o \in Profiler!Level \ {l} : pc'[o] = pc[o] /\ regs'[o] = regs[o]

LEMMA Quietly ==
  ASSUME GraphInv, NEW l \in Profiler!Level, Alone(l), UNCHANGED <<list, calls, raced>>,
         LevelOK(l)'
  PROVE  GraphInv'
<1>1. GraphTypes'
  BY DEF GraphInv, GraphTypes, Alone, Registers, Profiler!NeverEmpty, Profiler!Places
<1>2. ListOK'
  BY DEF GraphInv, ListOK
<1>3. ASSUME NEW o \in Profiler!Level PROVE LevelOK(o)'
  <2>1. CASE o = l
    BY <2>1
  <2>2. CASE o # l
    <3>1. pc'[o] = pc[o] /\ regs'[o] = regs[o] /\ list' = list /\ raced' = raced /\ LevelOK(o)
      BY <2>2 DEF Alone, GraphInv
    <3>2. Found(o) /\ Loaded(o) /\ NotFound(o)
      BY <3>1 DEF LevelOK
    <3>3. Found(o)'
      BY <3>1, <3>2 DEF Found
    <3>4. Loaded(o)'
      BY <3>1, <3>2 DEF Loaded
    <3>5. NotFound(o)'
      BY <3>1, <3>2 DEF NotFound
    <3> QED BY <3>3, <3>4, <3>5 DEF LevelOK
  <2> QED BY <2>1, <2>2
<1> QED BY <1>1, <1>2, <1>3, CountsSame DEF GraphInv

LEMMA Moves ==
  ASSUME GraphTypes, NEW l \in Profiler!Level, NEW here, NEW there \in Busy \union {"run", "off"},
         l = "program" => there # "off", Profiler!At(l, here, there)
  PROVE  /\ pc[l] = here /\ pc'[l] = there
         /\ pc' \in [Profiler!Level -> Busy \union {"run", "off"}] /\ pc'["program"] # "off"
         /\ \A o \in Profiler!Level \ {l} : pc'[o] = pc[o]
         /\ l = "program" => pc["handler"] = "off"
<1>1. pc \in [Profiler!Level -> Busy \union {"run", "off"}] /\ pc["program"] # "off"
      /\ "program" \in Profiler!Level
  BY Levels DEF GraphTypes
<1> QED BY <1>1 DEF Profiler!At

LEMMA RegistersAre ==
  ASSUME GraphTypes, NEW l \in Profiler!Level
  PROVE  /\ regs[l] \in Registers /\ regs[l].arc \in Arc \union {<<>>}
         /\ regs[l].fn \in Nat /\ regs[l].at \in Nat /\ regs[l].count \in Nat
BY DEF GraphTypes, Registers

(* Another value for the registers of a level.                             *)
LEMMA RegistersSet ==
  ASSUME GraphTypes, NEW l \in Profiler!Level, NEW r \in Registers, regs' = [regs EXCEPT ![l] = r]
  PROVE  /\ regs' \in [Profiler!Level -> Registers] /\ regs'[l] = r
         /\ \A o \in Profiler!Level \ {l} : regs'[o] = regs[o]
BY DEF GraphTypes, Registers

LEMMA GraphHas ==
  ASSUME GraphInv
  PROVE  GraphTypes /\ ListOK /\ (\A l \in Profiler!Level : Found(l) /\ Loaded(l) /\ NotFound(l))
BY DEF GraphInv, LevelOK

LEMMA CallKeeps ==
  ASSUME GraphInv, NEW l \in Profiler!Level, NEW a \in Arc, Profiler!Call(l, a)
  PROVE  GraphInv'
<1>1. /\ Profiler!At(l, "run", "find function") /\ UNCHANGED <<list, calls, raced>>
      /\ regs' = [regs EXCEPT ![l] = [Profiler!NoRegs EXCEPT !.arc = a]]
  BY DEF Profiler!Call, Profiler!graph
<1>2. PICK r : r = [Profiler!NoRegs EXCEPT !.arc = a]
  OBVIOUS
<1>3. r \in Registers /\ r.fn = 0 /\ r.arc = a
  BY <1>2 DEF Profiler!NoRegs, Registers
<1>4. regs' \in [Profiler!Level -> Registers] /\ regs'[l] = r
      /\ \A o \in Profiler!Level \ {l} : regs'[o] = regs[o]
  BY <1>1, <1>2, <1>3, RegistersSet, GraphHas
<1>5. "find function" \in Busy /\ "find function" \notin Missed
  BY DEF Busy, Missed
<1>6. /\ pc'[l] = "find function"
      /\ pc' \in [Profiler!Level -> Busy \union {"run", "off"}] /\ pc'["program"] # "off"
      /\ \A o \in Profiler!Level \ {l} : pc'[o] = pc[o]
  BY <1>1, <1>5, Moves, GraphHas
<1>7. LevelOK(l)'
  BY <1>3, <1>4, <1>5, <1>6 DEF LevelOK, Found, Loaded, NotFound
<1> QED BY <1>1, <1>4, <1>6, <1>7, Quietly DEF Alone

LEMMA FindFunctionKeeps ==
  ASSUME GraphInv, NEW l \in Profiler!Level, Profiler!Find_function(l)
  PROVE  GraphInv'
<1>1. PICK fn, places : /\ places = {i \in DOMAIN list : list[i].self = regs[l].arc[1]}
                        /\ fn = Profiler!Newest(places)
  OBVIOUS
<1>2. PICK there : there = IF fn = 0 THEN "check" ELSE "find arc"
  OBVIOUS
<1>3. /\ Profiler!At(l, "find function", there) /\ UNCHANGED <<list, calls, raced>>
      /\ regs' = [regs EXCEPT ![l].fn = fn]
  BY <1>1, <1>2 DEF Profiler!Find_function, Profiler!graph
<1>4. DOMAIN list = 1 .. Len(list) /\ Len(list) \in Nat
  BY RecordsAre, GraphHas DEF GraphTypes
<1>5. fn \in places \union {0} /\ fn \in Nat /\ \A i \in places : i <= fn
  BY <1>1, <1>4, NewestIs
<1>6. PICK r : r = [regs[l] EXCEPT !.fn = fn]
  OBVIOUS
<1>7. r \in Registers /\ r.fn = fn /\ r.arc = regs[l].arc
  BY <1>5, <1>6, RegistersAre, GraphHas DEF Registers
<1>8. regs' = [regs EXCEPT ![l] = r]
  BY <1>3, <1>6
<1>9. regs' \in [Profiler!Level -> Registers] /\ regs'[l] = r
      /\ \A o \in Profiler!Level \ {l} : regs'[o] = regs[o]
  BY <1>7, <1>8, RegistersSet, GraphHas
<1>10. there \in Busy /\ there # "off" /\ there \notin {"run", "off", "find function", "load", "store"}
       /\ "find function" \in Busy /\ (there \in Missed => fn = 0) /\ (there = "find arc" => fn # 0)
  BY <1>2 DEF Busy, Missed
<1>11. /\ pc[l] = "find function" /\ pc'[l] = there
       /\ pc' \in [Profiler!Level -> Busy \union {"run", "off"}] /\ pc'["program"] # "off"
       /\ \A o \in Profiler!Level \ {l} : pc'[o] = pc[o]
  BY <1>3, <1>10, Moves, GraphHas
<1>12. regs[l].arc \in Arc
  BY <1>10, <1>11, GraphHas DEF Found
<1>13. Found(l)'
  <2>1. fn # 0 => fn \in DOMAIN list /\ list[fn].self = r.arc[1]
                  /\ \A k \in DOMAIN list : list[k].self = r.arc[1] => k <= fn
    BY <1>1, <1>5, <1>7
  <2> QED BY <1>3, <1>7, <1>9, <1>10, <1>11, <1>12, <2>1 DEF Found
<1>14. NotFound(l)'
  <2>1. fn = 0 => \A i \in DOMAIN list : list[i].self # r.arc[1]
    <3> SUFFICES ASSUME fn = 0, NEW i \in DOMAIN list, list[i].self = r.arc[1] PROVE FALSE
      OBVIOUS
    <3>1. i \in places /\ i \in Nat /\ i >= 1
      BY <1>1, <1>4, <1>7
    <3> QED BY <1>5, <3>1
  <2>2. CASE there \notin Missed
    BY <1>11, <2>2 DEF NotFound
  <2>3. CASE fn = 0
    <3>1. regs'[l].fn = 0 /\ regs'[l].arc = r.arc /\ list' = list
      BY <1>3, <1>7, <1>9, <2>3
    <3> QED BY <2>1, <2>3, <3>1 DEF NotFound
  <2> QED BY <1>10, <2>2, <2>3
<1>15. LevelOK(l)'
  BY <1>10, <1>11, <1>13, <1>14 DEF LevelOK, Loaded
<1> QED BY <1>3, <1>9, <1>11, <1>15, Quietly DEF Alone

LEMMA FindArcKeeps ==
  ASSUME GraphInv, NEW l \in Profiler!Level, Profiler!Find_arc(l)
  PROVE  GraphInv'
<1>1. PICK arcs, places, at : /\ arcs = list[regs[l].fn].arcs
                              /\ places = {i \in DOMAIN arcs : arcs[i].from = regs[l].arc[2]}
                              /\ at = Profiler!Newest(places)
  OBVIOUS
<1>2. PICK there : there = IF at = 0 THEN "check" ELSE "load"
  OBVIOUS
<1>3. /\ Profiler!At(l, "find arc", there) /\ UNCHANGED <<list, calls, raced>>
      /\ regs' = [regs EXCEPT ![l].at = at]
  BY <1>1, <1>2 DEF Profiler!Find_arc, Profiler!graph
<1>4. /\ there \in Busy /\ there # "off" /\ "find arc" \in Busy
      /\ there \notin {"run", "off", "find function", "find arc", "store"}
      /\ (there \in Missed => at = 0) /\ (there = "load" => at # 0)
  BY <1>2 DEF Busy, Missed
<1>5. /\ pc[l] = "find arc" /\ pc'[l] = there
      /\ pc' \in [Profiler!Level -> Busy \union {"run", "off"}] /\ pc'["program"] # "off"
      /\ \A o \in Profiler!Level \ {l} : pc'[o] = pc[o]
  BY <1>3, <1>4, Moves, GraphHas
<1>6. /\ regs[l].arc \in Arc /\ regs[l].fn # 0 /\ regs[l].fn \in DOMAIN list
      /\ list[regs[l].fn].self = regs[l].arc[1]
      /\ \A k \in DOMAIN list : list[k].self = regs[l].arc[1] => k <= regs[l].fn
  BY <1>4, <1>5, GraphHas DEF Found
<1>7. Len(arcs) \in Nat /\ DOMAIN arcs = 1 .. Len(arcs)
  BY <1>1, <1>6, RecordsAre, ArcsAre, GraphHas, LenProperties DEF GraphTypes, Arcs
<1>8. at \in places \union {0} /\ at \in Nat /\ \A i \in places : i <= at
  <2>1. PICK n \in Nat : DOMAIN arcs = 1 .. n
    BY <1>7
  <2>2. places \in SUBSET (1 .. n)
    BY <1>1, <2>1
  <2>3. /\ Profiler!Newest(places) \in places \union {0}
        /\ \A i \in places : i <= Profiler!Newest(places)
    BY <2>2, NewestIs, Zenon
  <2>4. at = Profiler!Newest(places)
    BY <1>1
  <2>5. at \in places \union {0} /\ \A i \in places : i <= at
    BY <2>3, <2>4, Zenon
  <2>6. at \in Nat
    BY <2>2, <2>5
  <2> QED BY <2>5, <2>6
<1>9. PICK r : r = [regs[l] EXCEPT !.at = at]
  OBVIOUS
<1>10. r \in Registers /\ r.fn = regs[l].fn /\ r.arc = regs[l].arc /\ r.at = at
  BY <1>8, <1>9, RegistersAre, GraphHas DEF Registers
<1>11. regs' = [regs EXCEPT ![l] = r]
  BY <1>3, <1>9
<1>12. regs' \in [Profiler!Level -> Registers] /\ regs'[l] = r
       /\ \A o \in Profiler!Level \ {l} : regs'[o] = regs[o]
  BY <1>10, <1>11, RegistersSet, GraphHas
<1>13. Found(l)'
  <2>1. at # 0 => at \in DOMAIN list[r.fn].arcs /\ list[r.fn].arcs[at].from = r.arc[2]
    BY <1>1, <1>8, <1>10
  <2>2. /\ regs'[l].fn = r.fn /\ regs'[l].arc = r.arc /\ regs'[l].at = at /\ list' = list
        /\ r.fn # 0 /\ r.arc \in Arc
    BY <1>3, <1>6, <1>10, <1>12
  <2>3. /\ r.fn \in DOMAIN list /\ list[r.fn].self = r.arc[1]
        /\ \A k \in DOMAIN list : list[k].self = r.arc[1] => k <= r.fn
    BY <1>6, <1>10
  <2> QED BY <1>4, <1>5, <2>1, <2>2, <2>3 DEF Found
<1>14. NotFound(l)'
  <2>1. at = 0 => Never(arcs, regs[l].arc[2])
    <3> SUFFICES ASSUME at = 0, NEW i \in DOMAIN arcs, arcs[i].from = regs[l].arc[2] PROVE FALSE
      BY DEF Never
    <3>1. i \in places
      BY <1>1
    <3>2. i \in Nat /\ i >= 1
      BY <1>7
    <3> QED BY <1>8, <3>1, <3>2
  <2>2. CASE there \notin Missed
    BY <1>5, <2>2 DEF NotFound
  <2>3. CASE at = 0
    <3>1. /\ regs'[l].fn = regs[l].fn /\ regs'[l].arc = regs[l].arc /\ list' = list
          /\ regs[l].fn # 0
      BY <1>3, <1>6, <1>10, <1>12
    <3>2. Never(arcs, regs[l].arc[2]) /\ Once(arcs, regs[l].arc[2])
      BY <2>1, <2>3 DEF Never, Once
    <3>3. /\ Never(list'[regs'[l].fn].arcs, regs'[l].arc[2])
          /\ Once(list'[regs'[l].fn].arcs, regs'[l].arc[2])
      BY <1>1, <3>1, <3>2
    <3> QED BY <3>1, <3>3 DEF NotFound
  <2> QED BY <1>4, <2>2, <2>3
<1>15. LevelOK(l)'
  BY <1>4, <1>5, <1>13, <1>14 DEF LevelOK, Loaded
<1> QED BY <1>3, <1>5, <1>12, <1>15, Quietly DEF Alone

LEMMA LoadKeeps ==
  ASSUME GraphInv, NEW l \in Profiler!Level, Profiler!Load(l)
  PROVE  GraphInv'
<1>1. PICK c : c = list[regs[l].fn].arcs[regs[l].at].count
  OBVIOUS
<1>2. /\ Profiler!At(l, "load", "store") /\ UNCHANGED <<list, calls, raced>>
      /\ regs' = [regs EXCEPT ![l].count = c]
  BY <1>1 DEF Profiler!Load, Profiler!graph
<1>3. "load" \in Busy /\ "store" \in Busy /\ "store" \notin Missed
  BY DEF Busy, Missed
<1>4. /\ pc[l] = "load" /\ pc'[l] = "store"
      /\ pc' \in [Profiler!Level -> Busy \union {"run", "off"}] /\ pc'["program"] # "off"
      /\ \A o \in Profiler!Level \ {l} : pc'[o] = pc[o]
  BY <1>2, <1>3, Moves, GraphHas
<1>5. Found(l) /\ regs[l].fn \in DOMAIN list /\ regs[l].at \in DOMAIN list[regs[l].fn].arcs
  BY <1>4, GraphHas DEF Found
<1>6. c \in Nat
  BY <1>1, <1>5, RecordsAre, GraphHas DEF GraphTypes
<1>7. PICK r : r = [regs[l] EXCEPT !.count = c]
  OBVIOUS
<1>8. r \in Registers /\ r.fn = regs[l].fn /\ r.arc = regs[l].arc /\ r.at = regs[l].at /\ r.count = c
  BY <1>6, <1>7, RegistersAre, GraphHas DEF Registers
<1>9. regs' = [regs EXCEPT ![l] = r]
  BY <1>2, <1>7
<1>10. regs' \in [Profiler!Level -> Registers] /\ regs'[l] = r
       /\ \A o \in Profiler!Level \ {l} : regs'[o] = regs[o]
  BY <1>8, <1>9, RegistersSet, GraphHas
<1>11. Found(l)' /\ NotFound(l)'
  BY <1>2, <1>3, <1>4, <1>5, <1>8, <1>10 DEF Found, NotFound
<1>12. Loaded(l)'
  <2>1. /\ regs'[l].fn = regs[l].fn /\ regs'[l].at = regs[l].at /\ regs'[l].count = c /\ list' = list
    BY <1>2, <1>8, <1>10
  <2>2. c <= c /\ c = list'[regs'[l].fn].arcs[regs'[l].at].count
    BY <1>1, <1>6, <2>1
  <2> QED BY <2>1, <2>2 DEF Loaded
<1> QED BY <1>2, <1>4, <1>10, <1>11, <1>12, Quietly DEF Alone, LevelOK

(* On the way to a new record only the program counter moves.              *)
LEMMA MissedKeeps ==
  ASSUME GraphInv, NEW l \in Profiler!Level, NEW here \in Missed, NEW there \in Missed,
         Profiler!At(l, here, there), UNCHANGED <<regs, list, calls, raced>>
  PROVE  GraphInv'
<1>1. here \in Busy /\ there \in Busy /\ there # "off"
      /\ \A s \in Missed : s \notin {"run", "off", "find function", "find arc", "load", "store"}
  BY DEF Busy, Missed
<1>2. /\ pc[l] = here /\ pc'[l] = there
      /\ pc' \in [Profiler!Level -> Busy \union {"run", "off"}] /\ pc'["program"] # "off"
      /\ \A o \in Profiler!Level \ {l} : pc'[o] = pc[o]
  BY <1>1, Moves, GraphHas
<1>3. Found(l) /\ NotFound(l)
  BY GraphHas
<1>4. Found(l)' /\ NotFound(l)' /\ Loaded(l)'
  BY <1>1, <1>2, <1>3 DEF Found, NotFound, Loaded
<1>5. Alone(l)
  BY <1>2, GraphHas DEF Alone, GraphTypes, Registers
<1> QED BY <1>4, <1>5, Quietly DEF LevelOK

LEMMA HandlerMoves ==
  ASSUME GraphInv, Profiler!Handler_begins \/ Profiler!Handler_returns
  PROVE  GraphInv'
<1> DEFINE h == "handler"
<1>1. UNCHANGED <<regs, list, calls, raced>>
  BY DEF Profiler!Handler_begins, Profiler!Handler_returns, Profiler!graph
<1>2. h \in Profiler!Level /\ "program" \in Profiler!Level /\ GraphTypes
  BY Levels, GraphHas
<1>3. /\ pc[h] \in {"run", "off"} /\ pc'[h] \in {"run", "off"}
      /\ pc' = [pc EXCEPT ![h] = pc'[h]]
  BY <1>2 DEF Profiler!Handler_begins, Profiler!Handler_returns, Profiler!At, GraphTypes
<1>4. /\ pc' \in [Profiler!Level -> Busy \union {"run", "off"}] /\ pc'["program"] # "off"
      /\ \A o \in Profiler!Level \ {h} : pc'[o] = pc[o]
  BY <1>2, <1>3 DEF GraphTypes
<1>5. \A s \in {"run", "off"} : s \notin Busy /\ s \notin Missed
  BY DEF Busy, Missed
<1>6. Found(h)
  BY <1>2, GraphHas
<1>7. Found(h)' /\ NotFound(h)' /\ Loaded(h)'
  BY <1>1, <1>3, <1>5, <1>6 DEF Found, NotFound, Loaded
<1>8. Alone(h)
  BY <1>1, <1>2, <1>4 DEF Alone, GraphTypes, Registers
<1> QED BY <1>1, <1>2, <1>7, <1>8, Quietly DEF LevelOK

LEMMA GraphIdles ==
  ASSUME GraphInv, UNCHANGED <<pc, regs, list, calls, raced>>
  PROVE  GraphInv'
<1>1. "handler" \in Profiler!Level /\ LevelOK("handler")
  BY Levels DEF GraphInv
<1>2. LevelOK("handler")'
  BY <1>1 DEF LevelOK, Found, Loaded, NotFound
<1>3. Alone("handler")
  BY GraphHas DEF Alone, GraphTypes, Registers
<1> QED BY <1>1, <1>2, <1>3, Quietly

-----------------------------------------------------------------------------
(* A count is stored (alt_mcount.S:86-116).                                *)

(* Sums over the copies of an arc, before and after.                       *)
Counts == [c \in Profiler!Places |-> list[c[1]].arcs[c[2]].count]

LEMMA PlacesAre ==
  /\ \A c : c \in Profiler!Places <=> \E i \in DOMAIN list : \E j \in DOMAIN list[i].arcs : c = <<i, j>>
  /\ \A i \in DOMAIN list : \A j \in DOMAIN list[i].arcs :
       <<i, j>> \in Profiler!Places /\ <<i, j>>[1] = i /\ <<i, j>>[2] = j
BY DEF Profiler!Places

LEMMA CopiesAre ==
  ASSUME GraphTypes, NEW a \in Arc
  PROVE  /\ Profiler!Copies(a) \subseteq Profiler!Places /\ IsFiniteSet(Profiler!Copies(a))
         /\ \A c \in Profiler!Places : Counts[c] \in Nat
         /\ Profiler!Total(a) = Profiler!SumFunctionOnSet(Counts, Profiler!Copies(a))
         /\ Profiler!Total(a) \in Nat
<1>1. Profiler!Copies(a) \subseteq Profiler!Places
  BY DEF Profiler!Copies
<1>2. IsFiniteSet(Profiler!Copies(a))
  BY <1>1, FS_Subset DEF GraphTypes
<1>3. ASSUME NEW c \in Profiler!Places PROVE Counts[c] \in Nat
  <2>1. PICK i \in DOMAIN list : \E j \in DOMAIN list[i].arcs : c = <<i, j>>
    BY PlacesAre
  <2>2. PICK j \in DOMAIN list[i].arcs : c = <<i, j>>
    BY <2>1
  <2>3. list[i].arcs[j].count \in Nat
    BY RecordsAre DEF GraphTypes
  <2> QED BY <2>2, <2>3 DEF Counts
<1>4. Profiler!Total(a) = Profiler!SumFunctionOnSet(Counts, Profiler!Copies(a))
  BY DEF Profiler!Total, Counts
<1>5. \A c \in Profiler!Copies(a) : Counts[c] \in Int /\ Counts[c] >= 0
  BY <1>1, <1>3
<1>6. Profiler!Total(a) \in Nat
  BY <1>2, <1>4, <1>5, SumType
<1> QED BY <1>1, <1>2, <1>3, <1>4, <1>6

(* What the step of storing does.                                          *)
Counted(l) ==
  LET r == regs[l] IN
  /\ pc[l] = "store" /\ pc'[l] = "run" /\ Alone(l) /\ (l = "program" => pc["handler"] = "off")
  /\ r.arc \in Arc /\ r.fn \in DOMAIN list /\ r.at \in DOMAIN list[r.fn].arcs
  /\ list[r.fn].self = r.arc[1] /\ list[r.fn].arcs[r.at].from = r.arc[2]
  /\ list' \in Seq(Records) /\ DOMAIN list' = DOMAIN list
  /\ \A i \in DOMAIN list : /\ list'[i].self = list[i].self
                            /\ SameCallers(list[i].arcs, list'[i].arcs)
  /\ \A i \in DOMAIN list : \A j \in DOMAIN list[i].arcs :
       list'[i].arcs[j].count = IF i = r.fn /\ j = r.at THEN r.count + 1
                                ELSE list[i].arcs[j].count
  /\ r.count \in Nat /\ calls' = [calls EXCEPT ![r.arc] = @ + 1] /\ regs'[l] = Profiler!NoRegs
  /\ raced' = IF l = "handler" /\ pc["program"] = "store" THEN raced \union {r.arc} ELSE raced

LEMMA RecordedIs ==
  ASSUME GraphInv, NEW l \in Profiler!Level, Profiler!Recorded(l)
  PROVE  /\ regs' \in [Profiler!Level -> Registers] /\ regs'[l] = Profiler!NoRegs
         /\ \A o \in Profiler!Level \ {l} : regs'[o] = regs[o]
         /\ calls' = [calls EXCEPT ![regs[l].arc] = @ + 1]
<1>1. Profiler!NoRegs \in Registers
  BY DEF Profiler!NoRegs, Registers
<1> QED BY <1>1, RegistersSet, GraphHas DEF Profiler!Recorded

LEMMA StoreIs ==
  ASSUME GraphInv, NEW l \in Profiler!Level, Profiler!Store(l)
  PROVE  Counted(l)
<1>1. /\ Profiler!At(l, "store", "run") /\ Profiler!Recorded(l)
      /\ CountSet(list, regs[l].fn, regs[l].at, regs[l].count + 1, list')
      /\ raced' = IF l = "handler" /\ pc["program"] = "store" THEN raced \union {regs[l].arc} ELSE raced
  BY DEF Profiler!Store, CountSet
<1>2. "store" \in Busy
  BY DEF Busy
<1>3. /\ pc[l] = "store" /\ pc'[l] = "run"
      /\ pc' \in [Profiler!Level -> Busy \union {"run", "off"}] /\ pc'["program"] # "off"
      /\ \A o \in Profiler!Level \ {l} : pc'[o] = pc[o]
      /\ l = "program" => pc["handler"] = "off"
  BY <1>1, Moves, GraphHas
<1>4. /\ regs[l].arc \in Arc /\ regs[l].fn \in DOMAIN list
      /\ regs[l].at \in DOMAIN list[regs[l].fn].arcs
      /\ list[regs[l].fn].self = regs[l].arc[1]
      /\ list[regs[l].fn].arcs[regs[l].at].from = regs[l].arc[2]
  BY <1>2, <1>3, GraphHas DEF Found
<1>5. regs[l].count \in Nat /\ list \in Seq(Records) /\ regs[l].count + 1 \in Nat
  BY RegistersAre, GraphHas DEF GraphTypes
<1>6. /\ list' \in Seq(Records) /\ DOMAIN list' = DOMAIN list
      /\ \A i \in DOMAIN list : /\ list'[i].self = list[i].self
                                /\ SameCallers(list[i].arcs, list'[i].arcs)
      /\ \A i \in DOMAIN list : \A j \in DOMAIN list[i].arcs :
           list'[i].arcs[j].count = IF i = regs[l].fn /\ j = regs[l].at THEN regs[l].count + 1
                                    ELSE list[i].arcs[j].count
  <2>1. PICK fn, at, c : fn = regs[l].fn /\ at = regs[l].at /\ c = regs[l].count + 1
    OBVIOUS
  <2>2. /\ fn \in DOMAIN list /\ at \in DOMAIN list[fn].arcs /\ c \in Nat
        /\ CountSet(list, fn, at, c, list')
    BY <1>1, <1>4, <1>5, <2>1
  <2>3. /\ list' \in Seq(Records) /\ DOMAIN list' = DOMAIN list
        /\ \A i \in DOMAIN list : /\ list'[i].self = list[i].self
                                  /\ SameCallers(list[i].arcs, list'[i].arcs)
        /\ \A i \in DOMAIN list : \A j \in DOMAIN list[i].arcs :
             list'[i].arcs[j].count = IF i = fn /\ j = at THEN c ELSE list[i].arcs[j].count
    BY <1>5, <2>2, CountReplaced
  <2> QED BY <2>1, <2>3
<1>7. Alone(l)
  BY <1>1, <1>3, RecordedIs DEF Alone
<1>8. regs'[l] = Profiler!NoRegs /\ calls' = [calls EXCEPT ![regs[l].arc] = @ + 1]
  BY <1>1, RecordedIs
<1> QED BY <1>1, <1>3, <1>4, <1>5, <1>6, <1>7, <1>8 DEF Counted

LEMMA StoreTypes ==
  ASSUME GraphInv, NEW l \in Profiler!Level, Counted(l)
  PROVE  GraphTypes'
<1>1. Profiler!Places' = Profiler!Places
  BY DEF Counted, SameCallers, Profiler!Places
<1>2. Profiler!NeverEmpty'
  <2> SUFFICES ASSUME NEW i \in DOMAIN list' PROVE list'[i].arcs # <<>>
    BY DEF Profiler!NeverEmpty
  <2>1. i \in DOMAIN list /\ list[i].arcs # <<>> /\ DOMAIN list'[i].arcs = DOMAIN list[i].arcs
    BY GraphHas DEF Counted, SameCallers, GraphTypes, Profiler!NeverEmpty
  <2>2. list[i].arcs \in Arcs /\ list'[i].arcs \in Arcs
    BY <2>1, RecordsAre, GraphHas DEF GraphTypes, Counted
  <2>3. 1 \in DOMAIN list[i].arcs
    BY <2>1, <2>2, EmptySeq, LenProperties DEF Arcs
  <2>4. DOMAIN <<>> = {}
    OBVIOUS
  <2> QED BY <2>1, <2>3, <2>4
<1>3. calls' \in [Arc -> Nat] /\ raced' \subseteq Arc
  <2>1. calls \in [Arc -> Nat] /\ raced \subseteq Arc /\ regs[l].arc \in Arc
    BY GraphHas DEF Counted, GraphTypes
  <2>2. calls[regs[l].arc] + 1 \in Nat
    BY <2>1
  <2> QED BY <2>1, <2>2 DEF Counted
<1> QED BY <1>1, <1>2, <1>3, GraphHas DEF Counted, Alone, GraphTypes, Registers

LEMMA StoreList ==
  ASSUME GraphInv, NEW l \in Profiler!Level, Counted(l)
  PROVE  ListOK'
<1>1. DOMAIN list' = DOMAIN list /\ \A i \in DOMAIN list : list'[i].self = list[i].self
  BY DEF Counted
<1>2. \A i \in DOMAIN list : /\ Twice(list[i].arcs) => Twice(list'[i].arcs)
                             /\ Single(list[i].arcs) => Single(list'[i].arcs)
  BY CallersSame DEF Counted
<1> QED BY <1>1, <1>2, GraphHas DEF ListOK

LEMMA StoreLevels ==
  ASSUME GraphInv, NEW l \in Profiler!Level, Counted(l), NEW o \in Profiler!Level
  PROVE  LevelOK(o)'
<1>1. DOMAIN list' = DOMAIN list /\ \A i \in DOMAIN list : list'[i].self = list[i].self
  BY DEF Counted
<1>2. \A i \in DOMAIN list : /\ Single(list[i].arcs) => Single(list'[i].arcs)
                             /\ \A x : /\ Never(list[i].arcs, x) => Never(list'[i].arcs, x)
                                       /\ Once(list[i].arcs, x) => Once(list'[i].arcs, x)
  BY CallersSame DEF Counted
<1>3. \A s \in {"run", "off"} : s \notin Busy /\ s \notin Missed
  BY DEF Busy, Missed
<1>4. CASE o = l
  <2>1. pc'[o] = "run" /\ regs'[o].fn = 0
    BY <1>4 DEF Counted, Profiler!NoRegs
  <2> QED BY <1>3, <2>1 DEF LevelOK, Found, Loaded, NotFound
<1>5. CASE o # l
  <2>1. pc'[o] = pc[o] /\ regs'[o] = regs[o] /\ Found(o) /\ Loaded(o) /\ NotFound(o)
    BY <1>5, GraphHas DEF Counted, Alone
  <2>2. Found(o)'
    <3>1. pc[o] \in {"load", "store"} =>
            /\ regs[o].at \in DOMAIN list'[regs[o].fn].arcs
            /\ list'[regs[o].fn].arcs[regs[o].at].from = regs[o].arc[2]
      <4> SUFFICES ASSUME pc[o] \in {"load", "store"}
                   PROVE  /\ regs[o].at \in DOMAIN list'[regs[o].fn].arcs
                          /\ list'[regs[o].fn].arcs[regs[o].at].from = regs[o].arc[2]
        OBVIOUS
      <4>1. regs[o].fn \in DOMAIN list /\ regs[o].at \in DOMAIN list[regs[o].fn].arcs
            /\ list[regs[o].fn].arcs[regs[o].at].from = regs[o].arc[2]
        BY <2>1 DEF Found
      <4>2. SameCallers(list[regs[o].fn].arcs, list'[regs[o].fn].arcs)
        BY <4>1 DEF Counted
      <4> QED BY <4>1, <4>2 DEF SameCallers
    <3> QED BY <1>1, <2>1, <3>1 DEF Found
  <2>3. NotFound(o)'
    <3>1. regs[o].fn # 0 => regs[o].fn \in DOMAIN list
      BY <2>1 DEF Found
    <3> QED BY <1>1, <1>2, <2>1, <3>1 DEF NotFound
  <2>4. Loaded(o)'
    <3> SUFFICES ASSUME pc[o] = "store"
                 PROVE  LET r == regs[o] IN
                        /\ r.count <= list'[r.fn].arcs[r.at].count
                        /\ o = "handler" \/ r.arc \notin raced'
                             => r.count = list'[r.fn].arcs[r.at].count
      BY <2>1 DEF Loaded
    <3>1. o = "program" /\ l = "handler" /\ raced' = raced \union {regs[l].arc}
      <4>1. l # "program"
        <5>1. l = "program" => pc["handler"] = "off" /\ o = "handler"
          BY <1>5, Levels DEF Counted
        <5> QED BY <5>1
      <4> QED BY <1>5, <4>1, Levels DEF Counted
    <3>2. /\ regs[o].fn \in DOMAIN list /\ regs[o].at \in DOMAIN list[regs[o].fn].arcs
          /\ list[regs[o].fn].self = regs[o].arc[1] /\ regs[o].arc \in Arc
          /\ list[regs[o].fn].arcs[regs[o].at].from = regs[o].arc[2]
      BY <2>1 DEF Found, Busy
    <3>3. PICK old, new : /\ old = list[regs[o].fn].arcs[regs[o].at].count
                          /\ new = list'[regs[o].fn].arcs[regs[o].at].count
      OBVIOUS
    <3>4. old \in Nat /\ regs[o].count \in Nat /\ regs[o].count <= old
          /\ (regs[o].arc \notin raced => regs[o].count = old)
      BY <2>1, <3>1, <3>2, <3>3, RecordsAre, RegistersAre, GraphHas DEF Loaded, GraphTypes
    <3>5. CASE regs[o].fn = regs[l].fn /\ regs[o].at = regs[l].at
      <4>1. regs[l].arc = regs[o].arc
        BY <3>2, <3>5, ArcParts DEF Counted
      <4>2. new = regs[l].count + 1 /\ regs[l].count = old
        <5>1. new = regs[l].count + 1
          BY <3>2, <3>3, <3>5 DEF Counted
        <5>2. Loaded(l) /\ pc[l] = "store"
          BY GraphHas DEF Counted
        <5> QED BY <3>1, <3>3, <3>5, <5>1, <5>2 DEF Loaded
      <4>3. new = old + 1
        BY <4>2
      <4>4. regs[o].count <= new /\ regs[o].arc \in raced' /\ o # "handler"
        BY <3>1, <3>4, <4>1, <4>3
      <4> QED BY <3>3, <4>4
    <3>6. CASE ~(regs[o].fn = regs[l].fn /\ regs[o].at = regs[l].at)
      <4>1. new = old
        BY <3>2, <3>3, <3>6 DEF Counted
      <4> QED BY <3>1, <3>3, <3>4, <4>1
    <3> QED BY <3>5, <3>6
  <2> QED BY <2>2, <2>3, <2>4 DEF LevelOK
<1> QED BY <1>4, <1>5

LEMMA StoreCounts ==
  ASSUME GraphInv, NEW l \in Profiler!Level, Counted(l)
  PROVE  Profiler!CountsCalls'
<1>1. Profiler!Places' = Profiler!Places
  BY DEF Counted, SameCallers, Profiler!Places
<1>2. PICK r, e : r = regs[l] /\ e = <<r.fn, r.at>>
  OBVIOUS
<1>3. /\ r.arc \in Arc /\ r.fn \in DOMAIN list /\ r.at \in DOMAIN list[r.fn].arcs
      /\ list[r.fn].self = r.arc[1] /\ list[r.fn].arcs[r.at].from = r.arc[2] /\ r.count \in Nat
  BY <1>2 DEF Counted
<1>4. e \in Profiler!Places /\ e[1] = r.fn /\ e[2] = r.at
  BY <1>2, <1>3, PlacesAre
<1>5. \A a \in Arc : Profiler!Copies(a)' = Profiler!Copies(a)
  <2>1. ASSUME NEW c \in Profiler!Places
        PROVE  /\ list'[c[1]].self = list[c[1]].self
               /\ list'[c[1]].arcs[c[2]].from = list[c[1]].arcs[c[2]].from
    <3>1. PICK i \in DOMAIN list : \E j \in DOMAIN list[i].arcs : c = <<i, j>>
      BY PlacesAre
    <3>2. PICK j \in DOMAIN list[i].arcs : c = <<i, j>>
      BY <3>1
    <3>3. c[1] = i /\ c[2] = j
      BY <3>2
    <3> QED BY <3>3 DEF Counted, SameCallers
  <2> QED BY <1>1, <2>1 DEF Profiler!Copies
<1>6. PICK k \in Int : k = r.count + 1 - Counts[e]
  <2>1. Counts[e] \in Nat
    BY <1>3, <1>4, CopiesAre, GraphHas
  <2> QED BY <1>3, <2>1
<1>7. Counts[e] \in Nat /\ Counts'[e] = Counts[e] + k
      /\ \A c \in Profiler!Places \ {e} : Counts'[c] = Counts[c]
  <2>1. Counts[e] \in Nat
    BY <1>3, <1>4, CopiesAre, GraphHas
  <2>2. ASSUME NEW c \in Profiler!Places
        PROVE  Counts'[c] = IF c = e THEN r.count + 1 ELSE Counts[c]
    <3>1. PICK i \in DOMAIN list : \E j \in DOMAIN list[i].arcs : c = <<i, j>>
      BY PlacesAre
    <3>2. PICK j \in DOMAIN list[i].arcs : c = <<i, j>>
      BY <3>1
    <3>3. c[1] = i /\ c[2] = j /\ (c = e <=> i = r.fn /\ j = r.at)
      BY <1>2, <3>2
    <3>4. Counts[c] = list[i].arcs[j].count /\ Counts'[c] = list'[i].arcs[j].count
      BY <1>1, <3>3 DEF Counts
    <3> QED BY <1>2, <3>3, <3>4 DEF Counted
  <2> QED BY <1>3, <1>4, <1>6, <2>1, <2>2
<1>8. k <= 1 /\ (r.arc \notin raced => k = 1)
  <2>1. Counts[e] = list[r.fn].arcs[r.at].count
    BY <1>4 DEF Counts
  <2>2. Loaded(l) /\ pc[l] = "store"
    BY GraphHas DEF Counted
  <2>3. r.count <= Counts[e] /\ (r.arc \notin raced => r.count = Counts[e])
    BY <1>2, <2>1, <2>2 DEF Loaded
  <2> QED BY <1>3, <1>6, <1>7, <2>3
<1>9. raced \subseteq raced'
  BY DEF Counted
<1>10. ASSUME NEW a \in Arc
       PROVE  Profiler!Total(a)' <= calls'[a] /\ (a \notin raced' => Profiler!Total(a)' = calls'[a])
  <2>1. /\ Profiler!Copies(a) \subseteq Profiler!Places /\ IsFiniteSet(Profiler!Copies(a))
        /\ \A c \in Profiler!Copies(a) : Counts[c] \in Int
        /\ Profiler!Total(a) = Profiler!SumFunctionOnSet(Counts, Profiler!Copies(a))
        /\ Profiler!Total(a) \in Nat
    BY CopiesAre, GraphHas
  <2>2. Profiler!Total(a)' = Profiler!SumFunctionOnSet(Counts', Profiler!Copies(a))
    BY <1>5 DEF Profiler!Total, Counts
  <2>3. Profiler!Total(a) <= calls[a] /\ (a \notin raced => Profiler!Total(a) = calls[a])
    BY DEF GraphInv, Profiler!CountsCalls
  <2>4. calls \in [Arc -> Nat] /\ calls' = [calls EXCEPT ![r.arc] = @ + 1] /\ calls[a] \in Nat
    BY <1>2, GraphHas DEF Counted, GraphTypes
  <2>5. CASE a = r.arc
    <3>1. e \in Profiler!Copies(a)
      BY <1>3, <1>4, <2>5 DEF Profiler!Copies
    <3>2. Profiler!Total(a)' = Profiler!Total(a) + k
      <4>1. \A c \in Profiler!Copies(a) \ {e} : Counts'[c] = Counts[c]
        BY <1>7, <2>1
      <4>2. Profiler!SumFunctionOnSet(Counts', Profiler!Copies(a))
              = Profiler!SumFunctionOnSet(Counts, Profiler!Copies(a)) + k
        BY <1>7, <2>1, <3>1, <4>1, SumCounts
      <4> QED BY <2>1, <2>2, <4>2
    <3>3. calls'[a] = calls[a] + 1
      BY <2>4, <2>5
    <3> QED BY <1>8, <1>9, <2>1, <2>3, <2>4, <2>5, <3>2, <3>3
  <2>6. CASE a # r.arc
    <3>1. e \notin Profiler!Copies(a)
      BY <1>3, <1>4, <2>6, ArcParts DEF Profiler!Copies
    <3>2. Profiler!Total(a)' = Profiler!Total(a)
      <4>1. \A c \in Profiler!Copies(a) : Counts'[c] = Counts[c]
        BY <1>7, <2>1, <3>1
      <4> QED BY <2>1, <2>2, <4>1, SumSame
    <3>3. calls'[a] = calls[a]
      BY <2>4, <2>6
    <3> QED BY <1>9, <2>3, <3>2, <3>3
  <2> QED BY <2>5, <2>6
<1> QED BY <1>10 DEF Profiler!CountsCalls

LEMMA StoreKeeps ==
  ASSUME GraphInv, NEW l \in Profiler!Level, Profiler!Store(l)
  PROVE  GraphInv'
BY StoreIs, StoreTypes, StoreList, StoreLevels, StoreCounts DEF GraphInv

-----------------------------------------------------------------------------
(* A record is added (__mcount_record).                                    *)

(* What the step does: arc k of record n is new.                           *)
Adds(l, n, k) ==
  LET r == regs[l] IN
  /\ pc[l] = "record" /\ pc'[l] = "run" /\ Alone(l) /\ (l = "program" => pc["handler"] = "off")
  /\ r.arc \in Arc /\ calls' = [calls EXCEPT ![r.arc] = @ + 1] /\ regs'[l] = Profiler!NoRegs
  /\ raced' = raced
  /\ list' \in Seq(Records) /\ DOMAIN list' = DOMAIN list \union {n}
  /\ \A i \in DOMAIN list : list'[i].self = list[i].self /\ (i # n => list'[i] = list[i])
  /\ list'[n].self = r.arc[1] /\ k \in DOMAIN list'[n].arcs
  /\ list'[n].arcs[k].from = r.arc[2] /\ list'[n].arcs[k].count = 1
  /\ IF n \in DOMAIN list
     THEN /\ r.fn = n /\ k = Len(list[n].arcs) + 1
          /\ OneMore(list[n].arcs, list'[n].arcs, [from |-> r.arc[2], count |-> 1])
     ELSE /\ r.fn = 0 /\ k = 1 /\ DOMAIN list'[n].arcs = {1}
          /\ n \in Nat /\ \A i \in DOMAIN list : i < n

LEMMA RecordIs ==
  ASSUME GraphInv, NEW l \in Profiler!Level, Profiler!Record(l)
  PROVE  \E n, k : Adds(l, n, k)
<1>1. PICK r, arc : r = regs[l] /\ arc = [from |-> r.arc[2], count |-> 1]
  OBVIOUS
<1>2. /\ Profiler!At(l, "record", "run") /\ Profiler!Recorded(l) /\ raced' = raced
      /\ r.fn = 0 => list' = Append(list, [self |-> r.arc[1], arcs |-> <<arc>>])
      /\ r.fn # 0 => list' = [list EXCEPT ![r.fn].arcs = Append(@, arc)]
  BY <1>1 DEF Profiler!Record
<1>3. "record" \in Busy /\ "record" \in Missed
  BY DEF Busy, Missed
<1>4. /\ pc[l] = "record" /\ pc'[l] = "run"
      /\ pc' \in [Profiler!Level -> Busy \union {"run", "off"}] /\ pc'["program"] # "off"
      /\ \A o \in Profiler!Level \ {l} : pc'[o] = pc[o]
      /\ l = "program" => pc["handler"] = "off"
  BY <1>2, Moves, GraphHas
<1>5. /\ r.arc \in Arc
      /\ r.fn # 0 => r.fn \in DOMAIN list /\ list[r.fn].self = r.arc[1]
  BY <1>1, <1>3, <1>4, GraphHas DEF Found
<1>6. /\ Alone(l) /\ regs'[l] = Profiler!NoRegs
      /\ calls' = [calls EXCEPT ![r.arc] = @ + 1]
  BY <1>1, <1>2, <1>4, RecordedIs DEF Alone
<1>7. /\ arc \in [from : From, count : Nat] /\ arc.from = r.arc[2] /\ arc.count = 1
      /\ r.arc[1] \in Profiler!Function
  BY <1>1, <1>5, ArcParts
<1>8. list \in Seq(Records) /\ Len(list) \in Nat /\ DOMAIN list = 1 .. Len(list)
  BY RecordsAre, GraphHas DEF GraphTypes
<1>9. CASE r.fn = 0
  <2>1. PICK e, n : e = [self |-> r.arc[1], arcs |-> <<arc>>] /\ n = Len(list) + 1
    OBVIOUS
  <2>2. e \in Records /\ e.self = r.arc[1] /\ e.arcs = <<arc>>
    BY <1>7, <2>1 DEF Records, Arcs
  <2>3. list' = Append(list, e)
    BY <1>2, <1>9, <2>1
  <2>4. /\ list' \in Seq(Records) /\ DOMAIN list' = DOMAIN list \union {n} /\ n \notin DOMAIN list
        /\ n \in Nat /\ \A i \in DOMAIN list : i < n /\ list'[i] = list[i]
        /\ list'[n] = e
    BY <1>8, <2>1, <2>2, <2>3, RecordAppended
  <2>5. DOMAIN e.arcs = {1} /\ e.arcs[1] = arc
    BY <2>2
  <2>6. Adds(l, n, 1)
    BY <1>1, <1>2, <1>4, <1>5, <1>6, <1>7, <1>9, <2>2, <2>4, <2>5 DEF Adds
  <2> QED BY <2>6
<1>10. CASE r.fn # 0
  <2>1. PICK old, new : old = list[r.fn].arcs /\ new = Append(old, arc)
    OBVIOUS
  <2>2. old \in Arcs
    BY <1>5, <1>8, <1>10, <2>1, RecordsAre
  <2>3. /\ new \in Arcs /\ OneMore(old, new, arc)
    BY <1>7, <2>1, <2>2, ArcsAre
  <2>4. PICK e : e = [list[r.fn] EXCEPT !.arcs = new]
    OBVIOUS
  <2>5. e \in Records /\ e.self = list[r.fn].self /\ e.arcs = new
    BY <1>5, <1>8, <1>10, <2>3, <2>4, ArcsReplaced
  <2>6. list' = [list EXCEPT ![r.fn] = e]
    BY <1>2, <1>10, <2>1, <2>4
  <2>7. /\ list' \in Seq(Records) /\ DOMAIN list' = DOMAIN list
        /\ \A i \in DOMAIN list : list'[i] = IF i = r.fn THEN e ELSE list[i]
    BY <1>5, <1>8, <1>10, <2>5, <2>6, RecordReplaced
  <2>8. /\ list'[r.fn].arcs = new /\ list'[r.fn].self = r.arc[1]
        /\ \A i \in DOMAIN list : /\ list'[i].self = list[i].self
                                  /\ (i # r.fn => list'[i] = list[i])
        /\ DOMAIN list' = DOMAIN list \union {r.fn} /\ r.fn \in DOMAIN list
    BY <1>5, <1>10, <2>5, <2>7
  <2>9. PICK k : k = Len(old) + 1
    OBVIOUS
  <2>10. k \in DOMAIN new /\ new[k].from = r.arc[2] /\ new[k].count = 1
    BY <1>7, <2>3, <2>9 DEF OneMore
  <2>11. Adds(l, r.fn, k)
    BY <1>1, <1>2, <1>4, <1>5, <1>6, <2>1, <2>3, <2>7, <2>8, <2>9, <2>10 DEF Adds
  <2> QED BY <2>11
<1> QED BY <1>9, <1>10

(* The places of arcs, with the new one.                                   *)
LEMMA AddPlaces ==
  ASSUME GraphInv, NEW l \in Profiler!Level, NEW n, NEW k, Adds(l, n, k)
  PROVE  /\ Profiler!Places' = Profiler!Places \union {<<n, k>>}
         /\ <<n, k>> \notin Profiler!Places
         /\ \A i \in DOMAIN list : \A j \in DOMAIN list[i].arcs :
              j \in DOMAIN list'[i].arcs /\ list'[i].arcs[j] = list[i].arcs[j]
<1>1. \A i \in DOMAIN list : i # n => list'[i] = list[i]
  BY DEF Adds
<1>2. DOMAIN list' = DOMAIN list \union {n} /\ k \in DOMAIN list'[n].arcs
  BY DEF Adds
<1>3. n \in DOMAIN list =>
        /\ DOMAIN list'[n].arcs = DOMAIN list[n].arcs \union {k} /\ k \notin DOMAIN list[n].arcs
        /\ \A j \in DOMAIN list[n].arcs : list'[n].arcs[j] = list[n].arcs[j]
  BY DEF Adds, OneMore
<1>4. n \notin DOMAIN list => DOMAIN list'[n].arcs = {k}
  BY DEF Adds
<1>5. \A i \in DOMAIN list : \A j \in DOMAIN list[i].arcs :
        j \in DOMAIN list'[i].arcs /\ list'[i].arcs[j] = list[i].arcs[j]
  BY <1>1, <1>3
<1>6. <<n, k>> \notin Profiler!Places
  BY <1>3, PlacesAre
<1>7. ASSUME NEW c \in Profiler!Places \union {<<n, k>>} PROVE c \in Profiler!Places'
  <2>1. \A i \in DOMAIN list' : \A j \in DOMAIN list'[i].arcs : <<i, j>> \in Profiler!Places'
    BY DEF Profiler!Places
  <2>2. CASE c = <<n, k>>
    BY <1>2, <2>1, <2>2
  <2>3. CASE c \in Profiler!Places
    <3>1. PICK i \in DOMAIN list : \E j \in DOMAIN list[i].arcs : c = <<i, j>>
      BY <2>3, PlacesAre
    <3>2. PICK j \in DOMAIN list[i].arcs : c = <<i, j>>
      BY <3>1
    <3> QED BY <1>2, <1>5, <2>1, <3>2
  <2> QED BY <2>2, <2>3
<1>8. ASSUME NEW c \in Profiler!Places' PROVE c \in Profiler!Places \union {<<n, k>>}
  <2>1. PICK i \in DOMAIN list' : \E j \in DOMAIN list'[i].arcs : c = <<i, j>>
    BY DEF Profiler!Places
  <2>2. PICK j \in DOMAIN list'[i].arcs : c = <<i, j>>
    BY <2>1
  <2>3. CASE i # n
    <3>1. i \in DOMAIN list /\ j \in DOMAIN list[i].arcs
      BY <1>1, <1>2, <2>3
    <3> QED BY <2>2, <3>1, PlacesAre
  <2>4. CASE i = n /\ n \in DOMAIN list
    <3>1. j = k \/ j \in DOMAIN list[n].arcs
      BY <1>3, <2>4
    <3> QED BY <2>2, <2>4, <3>1, PlacesAre
  <2>5. CASE i = n /\ n \notin DOMAIN list
    BY <1>4, <2>2, <2>5
  <2> QED BY <2>3, <2>4, <2>5
<1> QED BY <1>5, <1>6, <1>7, <1>8

LEMMA AddTypes ==
  ASSUME GraphInv, NEW l \in Profiler!Level, NEW n, NEW k, Adds(l, n, k)
  PROVE  GraphTypes'
<1>1. IsFiniteSet(Profiler!Places')
  <2>1. IsFiniteSet(Profiler!Places \union {<<n, k>>})
    BY FS_AddElement, GraphHas DEF GraphTypes
  <2>2. Profiler!Places' = Profiler!Places \union {<<n, k>>}
    BY AddPlaces
  <2> QED BY <2>1, <2>2
<1>2. Profiler!NeverEmpty'
  <2> SUFFICES ASSUME NEW i \in DOMAIN list' PROVE list'[i].arcs # <<>>
    BY DEF Profiler!NeverEmpty
  <2>1. CASE i # n
    BY <2>1, GraphHas DEF Adds, GraphTypes, Profiler!NeverEmpty
  <2>2. CASE i = n
    <3>1. DOMAIN list'[i].arcs # {} /\ DOMAIN <<>> = {}
      BY <2>2 DEF Adds
    <3> QED BY <3>1
  <2> QED BY <2>1, <2>2
<1>3. calls' \in [Arc -> Nat] /\ raced' \subseteq Arc
  <2>1. calls \in [Arc -> Nat] /\ raced \subseteq Arc /\ regs[l].arc \in Arc
    BY GraphHas DEF Adds, GraphTypes
  <2>2. calls[regs[l].arc] + 1 \in Nat
    BY <2>1
  <2> QED BY <2>1, <2>2 DEF Adds
<1> QED BY <1>1, <1>2, <1>3 DEF Adds, Alone, GraphTypes, Registers

(* What either level may find when it adds: one arc like it, one function. *)
LEMMA AddFinds ==
  ASSUME GraphInv, NEW l \in Profiler!Level, NEW n, NEW k, Adds(l, n, k)
  PROVE  LET r == regs[l] IN
         /\ n \in DOMAIN list =>
              /\ Once(list[n].arcs, r.arc[2]) /\ \A i \in DOMAIN list : list[i].self = r.arc[1] => i <= n
              /\ l = "handler" => Never(list[n].arcs, r.arc[2])
         /\ n \notin DOMAIN list =>
              /\ \A i, j \in DOMAIN list : list[i].self = r.arc[1] /\ list[j].self = r.arc[1] => i = j
              /\ \A i \in DOMAIN list : list[i].self = r.arc[1] => Single(list[i].arcs)
              /\ l = "handler" => \A i \in DOMAIN list : list[i].self # r.arc[1]
<1> DEFINE r == regs[l]
<1>1. Found(l) /\ NotFound(l) /\ pc[l] \in Missed
  BY GraphHas DEF Adds, Missed
<1>2. n \in DOMAIN list => r.fn = n /\ n # 0
  <2>1. DOMAIN list = 1 .. Len(list)
    BY RecordsAre, GraphHas DEF GraphTypes
  <2> QED BY <2>1 DEF Adds
<1>3. n \notin DOMAIN list => r.fn = 0
  BY DEF Adds
<1>4. \A arcs, x : Never(arcs, x) => Once(arcs, x)
  BY DEF Never, Once
<1>5. CASE n \in DOMAIN list
  BY <1>1, <1>2, <1>4, <1>5 DEF Found, NotFound
<1>6. CASE n \notin DOMAIN list
  BY <1>1, <1>3, <1>6 DEF NotFound
<1> QED BY <1>5, <1>6

LEMMA AddList ==
  ASSUME GraphInv, NEW l \in Profiler!Level, NEW n, NEW k, Adds(l, n, k)
  PROVE  ListOK'
<1>1. PICK r, arc : r = regs[l] /\ arc = [from |-> r.arc[2], count |-> 1]
  OBVIOUS
<1>2. /\ DOMAIN list' = DOMAIN list \union {n} /\ list'[n].self = r.arc[1]
      /\ \A i \in DOMAIN list : list'[i].self = list[i].self
      /\ \A i \in DOMAIN list : i # n => list'[i].arcs = list[i].arcs
      /\ n \in Nat /\ \A i \in DOMAIN list : i \in Nat
      /\ n \notin DOMAIN list => \A i \in DOMAIN list : i < n
  <2>1. DOMAIN list = 1 .. Len(list)
    BY RecordsAre, GraphHas DEF GraphTypes
  <2> QED BY <1>1, <2>1 DEF Adds
<1>3. /\ n \in DOMAIN list => /\ Once(list[n].arcs, r.arc[2])
                              /\ \A i \in DOMAIN list : list[i].self = r.arc[1] => i <= n
      /\ n \notin DOMAIN list =>
           /\ \A i, j \in DOMAIN list : list[i].self = r.arc[1] /\ list[j].self = r.arc[1] => i = j
           /\ \A i \in DOMAIN list : list[i].self = r.arc[1] => Single(list[i].arcs)
  BY <1>1, AddFinds
<1>4. ListOK
  BY GraphHas
<1>5. ASSUME NEW i \in DOMAIN list', NEW j \in DOMAIN list', NEW m \in DOMAIN list',
             list'[i].self = list'[j].self, list'[j].self = list'[m].self
      PROVE  i = j \/ j = m \/ i = m
  <2>1. CASE n \in DOMAIN list
    BY <1>2, <1>4, <1>5, <2>1 DEF ListOK
  <2>2. CASE n \notin DOMAIN list
    BY <1>2, <1>3, <1>4, <1>5, <2>2 DEF ListOK
  <2> QED BY <2>1, <2>2
<1>6. ASSUME NEW i \in DOMAIN list' PROVE Twice(list'[i].arcs)
  <2>1. CASE i # n
    BY <1>2, <1>4, <2>1 DEF ListOK
  <2>2. CASE i = n /\ n \in DOMAIN list
    <3>1. OneMore(list[n].arcs, list'[n].arcs, arc) /\ Twice(list[n].arcs) /\ arc.from = r.arc[2]
      BY <1>1, <1>4, <2>2 DEF Adds, ListOK
    <3> QED BY <1>3, <2>2, <3>1, CallersGrow
  <2>3. CASE i = n /\ n \notin DOMAIN list
    BY <2>3 DEF Adds, Twice
  <2> QED BY <2>1, <2>2, <2>3
<1>7. ASSUME NEW i \in DOMAIN list', NEW j \in DOMAIN list', i < j, list'[i].self = list'[j].self
      PROVE  Single(list'[i].arcs)
  <2>1. i # n
    <3> SUFFICES ASSUME i = n PROVE FALSE
      OBVIOUS
    <3>1. j \in DOMAIN list /\ list[j].self = r.arc[1] /\ n < j /\ j \in Nat /\ n \in Nat
      BY <1>2, <1>7
    <3> QED BY <1>2, <1>3, <3>1
  <2>2. i \in DOMAIN list /\ list'[i].arcs = list[i].arcs /\ list'[i].self = list[i].self
    BY <1>2, <2>1
  <2>3. CASE j \in DOMAIN list
    BY <1>2, <1>4, <1>7, <2>2, <2>3 DEF ListOK
  <2>4. CASE j \notin DOMAIN list
    <3>1. n \notin DOMAIN list /\ list[i].self = r.arc[1]
      BY <1>2, <1>7, <2>2, <2>4
    <3> QED BY <1>3, <2>2, <3>1
  <2> QED BY <2>3, <2>4
<1> QED BY <1>5, <1>6, <1>7 DEF ListOK

(* The program, interrupted by a handler that adds.                        *)
LEMMA AddLevels ==
  ASSUME GraphInv, NEW l \in Profiler!Level, NEW n, NEW k, Adds(l, n, k), NEW o \in Profiler!Level
  PROVE  LevelOK(o)'
<1>1. \A s \in {"run", "off"} : s \notin Busy /\ s \notin Missed /\ s \notin {"load", "store", "find arc"}
  BY DEF Busy, Missed
<1>2. CASE o = l
  <2>1. pc'[o] = "run" /\ regs'[o].fn = 0
    BY <1>2 DEF Adds, Profiler!NoRegs
  <2> QED BY <1>1, <2>1 DEF LevelOK, Found, Loaded, NotFound
<1>3. CASE o # l /\ l = "program"
  <2>1. pc'[o] = "off" /\ regs'[o].fn = 0
    <3>1. o = "handler" /\ pc[o] = "off" /\ pc'[o] = pc[o] /\ regs'[o] = regs[o]
      BY <1>3, Levels DEF Adds, Alone
    <3>2. regs[o].fn = 0
      BY <3>1, GraphHas DEF Found
    <3> QED BY <3>1, <3>2
  <2> QED BY <1>1, <2>1 DEF LevelOK, Found, Loaded, NotFound
<1>4. CASE o # l /\ l # "program"
  <2> DEFINE q == regs[o]
             r == regs[l]
             arc == [from |-> r.arc[2], count |-> 1]
  <2>1. o = "program" /\ l = "handler" /\ o # "handler"
    BY <1>4, Levels
  <2>2. pc'[o] = pc[o] /\ regs'[o] = regs[o] /\ Found(o) /\ Loaded(o) /\ NotFound(o)
    BY <1>4, GraphHas DEF Adds, Alone
  <2>3. /\ DOMAIN list' = DOMAIN list \union {n} /\ list'[n].self = r.arc[1]
        /\ \A i \in DOMAIN list : list'[i].self = list[i].self
        /\ \A i \in DOMAIN list : i # n => list'[i] = list[i]
        /\ raced' = raced /\ r.arc \in Arc
    BY DEF Adds
  <2>4. /\ n \in DOMAIN list => Never(list[n].arcs, r.arc[2])
        /\ n \notin DOMAIN list => \A i \in DOMAIN list : list[i].self # r.arc[1]
    BY <2>1, AddFinds
  <2>5. \A i \in DOMAIN list : \A j \in DOMAIN list[i].arcs :
          j \in DOMAIN list'[i].arcs /\ list'[i].arcs[j] = list[i].arcs[j]
    BY AddPlaces
  <2>6. Found(o)'
    <3>1. q.fn # 0 => /\ q.fn \in DOMAIN list' /\ list'[q.fn].self = q.arc[1]
                      /\ \A i \in DOMAIN list' : list'[i].self = q.arc[1] => i <= q.fn
      <4> SUFFICES ASSUME q.fn # 0
                   PROVE  /\ q.fn \in DOMAIN list' /\ list'[q.fn].self = q.arc[1]
                          /\ \A i \in DOMAIN list' : list'[i].self = q.arc[1] => i <= q.fn
        OBVIOUS
      <4>1. /\ q.fn \in DOMAIN list /\ list[q.fn].self = q.arc[1]
            /\ \A i \in DOMAIN list : list[i].self = q.arc[1] => i <= q.fn
        BY <2>2 DEF Found
      <4>2. ASSUME NEW i \in DOMAIN list', list'[i].self = q.arc[1] PROVE i <= q.fn
        <5>1. CASE i \in DOMAIN list
          BY <2>3, <4>1, <4>2, <5>1
        <5>2. CASE i \notin DOMAIN list
          BY <2>3, <2>4, <4>1, <4>2, <5>2
        <5> QED BY <5>1, <5>2
      <4> QED BY <2>3, <4>1, <4>2
    <3>2. pc[o] \in {"load", "store"} =>
            /\ q.at \in DOMAIN list'[q.fn].arcs /\ list'[q.fn].arcs[q.at].from = q.arc[2]
      BY <2>2, <2>5 DEF Found
    <3> QED BY <2>2, <3>1, <3>2 DEF Found
  <2>7. Loaded(o)'
    <3>1. pc[o] = "store" => list'[q.fn].arcs[q.at] = list[q.fn].arcs[q.at]
      BY <2>2, <2>5 DEF Found
    <3> QED BY <2>1, <2>2, <2>3, <3>1 DEF Loaded
  <2>8. NotFound(o)'
    <3> SUFFICES ASSUME pc[o] \in Missed
                 PROVE  IF q.fn # 0 THEN Once(list'[q.fn].arcs, q.arc[2])
                        ELSE /\ \A i, j \in DOMAIN list' :
                                  list'[i].self = q.arc[1] /\ list'[j].self = q.arc[1] => i = j
                             /\ \A i \in DOMAIN list' : list'[i].self = q.arc[1] => Single(list'[i].arcs)
      BY <2>1, <2>2 DEF NotFound
    <3>0. n \in DOMAIN list => OneMore(list[n].arcs, list'[n].arcs, arc) /\ arc.from = r.arc[2]
      BY DEF Adds
    <3>1. CASE q.fn # 0
      <4>1. q.fn \in DOMAIN list /\ Once(list[q.fn].arcs, q.arc[2])
        BY <2>1, <2>2, <3>1 DEF Found, NotFound
      <4>2. CASE q.fn # n
        BY <2>3, <3>1, <4>1, <4>2
      <4>3. CASE q.fn = n
        <5>1. Once(list'[n].arcs, q.arc[2])
          BY <2>4, <3>0, <4>1, <4>3, CallersGrow
        <5> QED BY <3>1, <4>3, <5>1
      <4> QED BY <4>2, <4>3
    <3>2. CASE q.fn = 0
      <4>1. /\ \A i, j \in DOMAIN list : list[i].self = q.arc[1] /\ list[j].self = q.arc[1] => i = j
            /\ \A i \in DOMAIN list : list[i].self = q.arc[1] => Single(list[i].arcs)
        BY <2>1, <2>2, <3>2 DEF NotFound
      <4>2. ASSUME NEW i \in DOMAIN list', NEW j \in DOMAIN list',
                   list'[i].self = q.arc[1], list'[j].self = q.arc[1]
            PROVE  i = j
        BY <2>3, <2>4, <4>1, <4>2
      <4>3. ASSUME NEW i \in DOMAIN list', list'[i].self = q.arc[1] PROVE Single(list'[i].arcs)
        <5>1. CASE i # n
          BY <2>3, <4>1, <4>3, <5>1
        <5>2. CASE i = n /\ n \in DOMAIN list
          <6>1. Single(list[n].arcs)
            BY <2>3, <4>1, <4>3, <5>2
          <6> QED BY <2>4, <3>0, <5>2, <6>1, CallersGrow
        <5>3. CASE i = n /\ n \notin DOMAIN list
          BY <5>3 DEF Adds, Single
        <5> QED BY <5>1, <5>2, <5>3
      <4> QED BY <3>2, <4>2, <4>3
    <3> QED BY <3>1, <3>2
  <2> QED BY <2>6, <2>7, <2>8 DEF LevelOK
<1> QED BY <1>2, <1>3, <1>4

LEMMA AddCounts ==
  ASSUME GraphInv, NEW l \in Profiler!Level, NEW n, NEW k, Adds(l, n, k)
  PROVE  Profiler!CountsCalls'
<1>1. PICK e, arc : e = <<n, k>> /\ arc = regs[l].arc
  OBVIOUS
<1>2. /\ Profiler!Places' = Profiler!Places \union {e} /\ e \notin Profiler!Places
      /\ e[1] = n /\ e[2] = k
  BY <1>1, AddPlaces
<1>3. /\ arc \in Arc /\ list'[n].self = arc[1] /\ list'[n].arcs[k].from = arc[2]
      /\ list'[n].arcs[k].count = 1 /\ raced' = raced /\ calls' = [calls EXCEPT ![arc] = @ + 1]
  BY <1>1 DEF Adds
<1>4. ASSUME NEW c \in Profiler!Places
      PROVE  /\ list'[c[1]].self = list[c[1]].self
             /\ list'[c[1]].arcs[c[2]] = list[c[1]].arcs[c[2]]
  <2>1. PICK i \in DOMAIN list : \E j \in DOMAIN list[i].arcs : c = <<i, j>>
    BY PlacesAre
  <2>2. PICK j \in DOMAIN list[i].arcs : c = <<i, j>>
    BY <2>1
  <2>3. c[1] = i /\ c[2] = j
    BY <2>2
  <2>4. list'[i].arcs[j] = list[i].arcs[j]
    BY AddPlaces
  <2>5. list'[i].self = list[i].self
    BY DEF Adds
  <2> QED BY <2>3, <2>4, <2>5
<1>5. Counts'[e] = 1 /\ \A c \in Profiler!Places : Counts'[c] = Counts[c]
  BY <1>2, <1>3, <1>4 DEF Counts
<1>6. ASSUME NEW a \in Arc
      PROVE  Profiler!Copies(a)' = IF a = arc THEN Profiler!Copies(a) \union {e} ELSE Profiler!Copies(a)
  <2>1. arc[1] = a[1] /\ arc[2] = a[2] <=> a = arc
    BY <1>3, ArcParts
  <2> QED BY <1>2, <1>3, <1>4, <2>1 DEF Profiler!Copies
<1>7. ASSUME NEW a \in Arc
      PROVE  Profiler!Total(a)' <= calls'[a] /\ (a \notin raced' => Profiler!Total(a)' = calls'[a])
  <2>1. PICK old : old = Profiler!Copies(a)
    OBVIOUS
  <2>2. /\ old \subseteq Profiler!Places /\ IsFiniteSet(old)
        /\ \A c \in old : Counts[c] \in Int
        /\ Profiler!Total(a) = Profiler!SumFunctionOnSet(Counts, old)
        /\ Profiler!Total(a) \in Nat
    BY <2>1, CopiesAre, GraphHas
  <2>3. /\ \A c \in old : Counts'[c] = Counts[c] /\ Counts'[c] \in Int
        /\ e \notin old
    BY <1>2, <1>5, <2>2
  <2>4. Profiler!SumFunctionOnSet(Counts', old) = Profiler!Total(a)
    BY <2>2, <2>3, SumSame
  <2>5. Profiler!Total(a) <= calls[a] /\ (a \notin raced => Profiler!Total(a) = calls[a])
    BY DEF GraphInv, Profiler!CountsCalls
  <2>6. Profiler!Total(a)' = Profiler!SumFunctionOnSet(Counts', Profiler!Copies(a)')
    BY DEF Profiler!Total, Counts
  <2>7. calls \in [Arc -> Nat] /\ calls[a] \in Nat
    BY GraphHas DEF GraphTypes
  <2>8. CASE a = arc
    <3>1. Profiler!Copies(a)' = old \union {e}
      BY <1>6, <2>1, <2>8
    <3>2. PICK new : new = old \union {e}
      OBVIOUS
    <3>3. /\ IsFiniteSet(new) /\ \A c \in new : Counts'[c] \in Int
          /\ e \in new /\ new \ {e} = old
      BY <1>5, <2>2, <2>3, <3>2, FS_AddElement
    <3>4. Profiler!SumFunctionOnSet(Counts', new)
            = Counts'[e] + Profiler!SumFunctionOnSet(Counts', new \ {e})
      BY <3>3, SumTakes
    <3>5. Profiler!Total(a)' = 1 + Profiler!Total(a)
      BY <1>5, <2>4, <2>6, <3>1, <3>2, <3>3, <3>4
    <3>6. calls'[a] = calls[a] + 1
      BY <1>3, <2>7, <2>8
    <3> QED BY <1>3, <2>2, <2>5, <2>7, <3>5, <3>6
  <2>9. CASE a # arc
    <3>1. Profiler!Total(a)' = Profiler!Total(a)
      BY <1>6, <2>1, <2>4, <2>6, <2>9
    <3>2. calls'[a] = calls[a]
      BY <1>3, <2>7, <2>9
    <3> QED BY <1>3, <2>5, <3>1, <3>2
  <2> QED BY <2>8, <2>9
<1> QED BY <1>7 DEF Profiler!CountsCalls

LEMMA RecordKeeps ==
  ASSUME GraphInv, NEW l \in Profiler!Level, Profiler!Record(l)
  PROVE  GraphInv'
<1>1. PICK n, k : Adds(l, n, k)
  BY RecordIs
<1> QED BY <1>1, AddTypes, AddList, AddLevels, AddCounts DEF GraphInv

-----------------------------------------------------------------------------
(* The heap and the samples (alt_sbrk.c, alt_gmon.c).                      *)

HeapInv == /\ MemoryOK(Profiler!Memory)
           /\ (s_pcsamples = Profiler!Bad => refused) /\ Profiler!SamplesInside

LEMMA MemoryIs ==
  /\ Profiler!Memory.end = heap_end /\ Profiler!Memory.ptr = slab.ptr
  /\ Profiler!Memory.size = slab.size /\ Profiler!Memory.blocks = blocks
  /\ Profiler!Memory.refused = refused
BY DEF Profiler!Memory

LEMMA LaidMore ==
  ASSUME NEW end \in Nat, NEW ptr \in Int, NEW size \in Nat, NEW bs, Laid(end, ptr, size, bs),
         NEW more \in Nat, end <= more
  PROVE  Laid(more, ptr, size, bs)
<1>1. bs \in Seq(Int \X Nat)
  BY DEF Laid
<1>2. \A i \in DOMAIN bs : bs[i][1] \in Int /\ bs[i][2] \in Int
  BY <1>1
<1>3. \A i \in DOMAIN bs : HeapStart <= bs[i][1] /\ bs[i][1] + bs[i][2] <= more
  BY <1>2 DEF Laid
<1>4. size > 0 => HeapStart <= ptr /\ ptr + size <= more
  BY DEF Laid
<1> QED BY <1>1, <1>3, <1>4 DEF Laid

(* A call of sbrk: a block at the new end, or no memory, which the program *)
(* notices and the profiler does not.                                      *)
LEMMA SbrkKeeps ==
  ASSUME MemoryOK(Profiler!Memory), NEW incr \in Nat, heap_end' = Profiler!Grown(heap_end, incr),
         slab' = slab,
         NEW b, b = <<Profiler!ALT_SBRK(heap_end, incr), incr>>,
         \/ Profiler!Fits(heap_end, incr) /\ blocks' = Append(blocks, b) /\ refused' = refused
         \/ ~Profiler!Fits(heap_end, incr) /\ blocks' = blocks /\ refused' = refused
         \/ ~Profiler!Fits(heap_end, incr) /\ blocks' = Append(blocks, b) /\ refused' = TRUE
  PROVE  MemoryOK(Profiler!Memory)'
<1>1. PICK x : x = Profiler!ALT_SBRK(heap_end, incr)
  OBVIOUS
<1>2. /\ heap_end \in HeapStart .. HeapLimit /\ slab.ptr \in Int /\ slab.size \in Nat
      /\ blocks \in Seq(Int \X Nat) /\ refused \in BOOLEAN
      /\ ~refused => Laid(heap_end, slab.ptr, slab.size, blocks)
  BY MemoryIs DEF MemoryOK
<1>3. /\ heap_end' \in HeapStart .. HeapLimit /\ heap_end <= heap_end' /\ x \in Int
      /\ Profiler!Fits(heap_end, incr) => heap_end <= x /\ x + incr = heap_end'
  BY <1>1, <1>2, GrownIs
<1>4. b = <<x, incr>> /\ b \in Int \X Nat
  BY <1>1, <1>3
<1>5. blocks' \in Seq(Int \X Nat) /\ refused' \in BOOLEAN
  <2>1. Append(blocks, b) \in Seq(Int \X Nat)
    BY <1>2, <1>4, Appended
  <2>2. blocks' = Append(blocks, b) \/ blocks' = blocks
    OBVIOUS
  <2>3. refused' = refused \/ refused' = TRUE
    OBVIOUS
  <2> QED BY <1>2, <2>1, <2>2, <2>3, Zenon
<1>6. HeapStart \in Nat /\ heap_end \in Nat /\ heap_end' \in Nat
  <2>1. HeapStart \in Nat
    BY ProfilerAssumption
  <2> QED BY <1>2, <1>3, <2>1
<1>7. ASSUME ~refused' PROVE Laid(heap_end', slab.ptr, slab.size, blocks')
  <2>1. Laid(heap_end, slab.ptr, slab.size, blocks)
    BY <1>2, <1>7
  <2>2. CASE Profiler!Fits(heap_end, incr)
    <3>1. blocks' = Append(blocks, <<x, incr>>)
      BY <1>4, <2>2
    <3>2. x \in Nat /\ HeapStart <= x /\ heap_end <= x /\ x + incr = heap_end'
      BY <1>2, <1>3, <1>6, <2>2
    <3>3. Laid(x + incr, slab.ptr, slab.size, Append(blocks, <<x, incr>>))
      BY <1>2, <1>6, <2>1, <3>2, LaysAbove
    <3> QED BY <3>1, <3>2, <3>3
  <2>3. CASE ~Profiler!Fits(heap_end, incr)
    <3>1. blocks' = blocks
      BY <1>7, <2>3
    <3> QED BY <1>2, <1>3, <1>6, <2>1, <3>1, LaidMore
  <2> QED BY <2>2, <2>3
<1>8. /\ Profiler!Memory'.end = heap_end' /\ Profiler!Memory'.ptr = slab.ptr
      /\ Profiler!Memory'.size = slab.size /\ Profiler!Memory'.blocks = blocks'
      /\ Profiler!Memory'.refused = refused'
  BY DEF Profiler!Memory
<1> QED BY <1>2, <1>3, <1>5, <1>7, <1>8 DEF MemoryOK

LEMMA MallocHeap ==
  ASSUME HeapInv, NEW incr \in Request, Profiler!Malloc(incr)
  PROVE  HeapInv'
<1>1. UNCHANGED <<slab, refused, s_pcsamples, stray>>
  BY DEF Profiler!Malloc, Profiler!sample
<1>2. MemoryOK(Profiler!Memory)'
  <2>1. incr \in Nat /\ heap_end' = Profiler!Grown(heap_end, incr)
    BY ProfilerAssumption DEF Profiler!Malloc
  <2>2. PICK b : b = <<Profiler!ALT_SBRK(heap_end, incr), incr>>
    OBVIOUS
  <2>3. blocks' = IF Profiler!Fits(heap_end, incr) THEN Append(blocks, b) ELSE blocks
    BY <2>2 DEF Profiler!Malloc
  <2> QED BY <1>1, <2>1, <2>2, <2>3, SbrkKeeps DEF HeapInv
<1> QED BY <1>1, <1>2 DEF HeapInv, Profiler!SamplesInside

LEMMA InitHeap ==
  ASSUME HeapInv, NEW l \in Profiler!Level, Profiler!nios2_pcsample_init(l)
  PROVE  HeapInv'
<1>1. UNCHANGED <<slab, stray>>
  BY DEF Profiler!nios2_pcsample_init
<1>2. CASE ~ticking
  <2>1. UNCHANGED <<s_pcsamples, heap_end, blocks, refused>>
    BY <1>2 DEF Profiler!nios2_pcsample_init
  <2> QED BY <1>1, <2>1 DEF HeapInv, MemoryOK, Laid, Profiler!Memory, Profiler!SamplesInside
<1>3. CASE ticking
  <2>1. PICK incr, b : incr = 2 * Profiler!Buckets /\ b = <<Profiler!ALT_SBRK(heap_end, incr), incr>>
    OBVIOUS
  <2>2. /\ s_pcsamples' = Profiler!ALT_SBRK(heap_end, incr)
        /\ heap_end' = Profiler!Grown(heap_end, incr)
        /\ blocks' = Append(blocks, b)
        /\ refused' = (refused \/ s_pcsamples' = Profiler!Bad)
    BY <1>3, <2>1 DEF Profiler!nios2_pcsample_init
  <2>3. incr \in Nat
    BY <2>1, ProfilerAssumption DEF Profiler!Buckets, Profiler!BucketBytes
  <2>4. /\ heap_end \in HeapStart .. HeapLimit /\ refused \in BOOLEAN
    BY MemoryIs DEF HeapInv, MemoryOK
  <2>5. ~Profiler!Fits(heap_end, incr) <=> s_pcsamples' = Profiler!Bad
    BY <2>2, <2>3, <2>4, GrownIs
  <2>6. IF Profiler!Fits(heap_end, incr) THEN refused' = refused ELSE refused' = TRUE
    BY <2>2, <2>4, <2>5
  <2>7. MemoryOK(Profiler!Memory)'
    BY <1>1, <2>1, <2>2, <2>3, <2>6, SbrkKeeps DEF HeapInv
  <2> QED BY <1>1, <2>2, <2>7 DEF HeapInv, Profiler!SamplesInside
<1> QED BY <1>2, <1>3

LEMMA RecordHeap ==
  ASSUME HeapInv, NEW l \in Profiler!Level, Profiler!Record(l)
  PROVE  HeapInv'
<1>1. PICK m0, m : /\ m0 = IF regs[l].fn = 0 THEN Profiler!mcount_allocate(Profiler!Memory)
                                             ELSE Profiler!Memory
                   /\ m = Profiler!mcount_allocate(m0)
  OBVIOUS
<1>2. /\ heap_end' = m.end /\ slab' = [ptr |-> m.ptr, size |-> m.size] /\ refused' = m.refused
      /\ blocks' = m.blocks /\ UNCHANGED <<s_pcsamples, stray>>
  BY <1>1 DEF Profiler!Record, Profiler!sample
<1>3. MemoryOK(m0) /\ (refused => m0.refused)
  BY <1>1, AllocateKeeps, MemoryIs DEF HeapInv
<1>4. MemoryOK(m) /\ (refused => m.refused)
  BY <1>1, <1>3, AllocateKeeps
<1>5. /\ Profiler!Memory'.end = m.end /\ Profiler!Memory'.ptr = m.ptr
      /\ Profiler!Memory'.size = m.size /\ Profiler!Memory'.blocks = m.blocks
      /\ Profiler!Memory'.refused = m.refused
  BY <1>2 DEF Profiler!Memory
<1>6. MemoryOK(Profiler!Memory)'
  BY <1>4, <1>5 DEF MemoryOK
<1> QED BY <1>2, <1>4, <1>6 DEF HeapInv, Profiler!SamplesInside

LEMMA SampleHeap ==
  ASSUME HeapInv, NEW bucket \in 0 .. (TextBytes - 1) \div Profiler!BucketBytes,
         Profiler!nios2_pcsample(bucket)
  PROVE  HeapInv'
<1>1. /\ UNCHANGED <<heap_end, slab, blocks, refused, s_pcsamples>>
      /\ stray' = (stray \/ s_pcsamples = Profiler!Bad \/ bucket >= Profiler!Buckets)
  BY DEF Profiler!nios2_pcsample, Profiler!heap
<1>2. bucket >= Profiler!Buckets => TextBytes % Profiler!BucketBytes # 0
  BY ProfilerAssumption DEF Profiler!Buckets, Profiler!BucketBytes
<1>3. Profiler!SamplesInside'
  BY <1>1, <1>2 DEF HeapInv, Profiler!SamplesInside
<1>4. Profiler!Memory' = Profiler!Memory
  BY <1>1 DEF Profiler!Memory
<1> QED BY <1>1, <1>3, <1>4 DEF HeapInv

LEMMA HeapIdles ==
  ASSUME HeapInv, UNCHANGED <<heap_end, slab, blocks, refused, s_pcsamples, stray>>
  PROVE  HeapInv'
<1>1. Profiler!Memory' = Profiler!Memory
  BY DEF Profiler!Memory
<1> QED BY <1>1 DEF HeapInv, Profiler!SamplesInside

-----------------------------------------------------------------------------
(* The profiler.                                                           *)

ProfilerInv == GraphInv /\ HeapInv

LEMMA ProfilerInit == Profiler!Init => ProfilerInv
<1> SUFFICES ASSUME Profiler!Init PROVE ProfilerInv
  OBVIOUS
<1>1. /\ heap_end = HeapStart /\ slab = [ptr |-> 0, size |-> 0] /\ list = <<>>
      /\ s_pcsamples = 0 /\ pc = [l \in Profiler!Level |-> IF l = "handler" THEN "off" ELSE "run"]
      /\ regs = [l \in Profiler!Level |-> Profiler!NoRegs]
      /\ blocks = <<>> /\ refused = FALSE /\ stray = FALSE
      /\ calls = [a \in Arc |-> 0] /\ raced = {}
  BY DEF Profiler!Init
<1>2. DOMAIN list = {} /\ DOMAIN blocks = {} /\ list \in Seq(Records) /\ blocks \in Seq(Int \X Nat)
  BY <1>1
<1>3. Profiler!Places = {}
  BY <1>2 DEF Profiler!Places
<1>4. IsFiniteSet({})
  BY FS_EmptySet
<1>5. GraphTypes
  <2>1. Profiler!NoRegs \in [arc : Arc \union {<<>>}, fn : Nat, at : Nat, count : Nat]
    BY DEF Profiler!NoRegs
  <2>2. pc \in [Profiler!Level -> Busy \union {"run", "off"}] /\ pc["program"] # "off"
    BY <1>1, Levels
  <2> QED BY <1>1, <1>2, <1>3, <1>4, <2>1, <2>2 DEF GraphTypes, Profiler!NeverEmpty
<1>6. ListOK
  BY <1>2 DEF ListOK
<1>7. ASSUME NEW l \in Profiler!Level PROVE LevelOK(l)
  <2>1. pc[l] \in {"run", "off"} /\ regs[l].fn = 0
    BY <1>1 DEF Profiler!NoRegs
  <2> QED BY <2>1 DEF LevelOK, Found, Loaded, NotFound, Busy, Missed
<1>8. Profiler!CountsCalls
  <2> SUFFICES ASSUME NEW a \in Arc PROVE Profiler!Total(a) = 0 /\ calls[a] = 0
    BY DEF Profiler!CountsCalls
  <2>1. Profiler!Copies(a) = {}
    BY <1>3 DEF Profiler!Copies
  <2>2. Profiler!SumFunctionOnSet(Counts, {}) = 0
    BY <1>4, SumPick
  <2> QED BY <1>1, <2>1, <2>2 DEF Profiler!Total, Counts
<1>9. HeapInv
  <2>1. HeapStart \in HeapStart .. HeapLimit
    BY ProfilerAssumption
  <2>2. Laid(heap_end, slab.ptr, slab.size, blocks)
    BY <1>1, <1>2 DEF Laid
  <2>3. /\ heap_end \in HeapStart .. HeapLimit /\ slab.ptr \in Int /\ slab.size \in Nat
        /\ refused \in BOOLEAN
    <3>1. slab.ptr = 0 /\ slab.size = 0
      BY <1>1
    <3>2. refused \in BOOLEAN
      BY <1>1
    <3> QED BY <1>1, <2>1, <3>1, <3>2
  <2>4. MemoryOK(Profiler!Memory)
    BY <1>2, <2>2, <2>3, MemoryIs DEF MemoryOK
  <2> QED BY <1>1, <2>4 DEF HeapInv, Profiler!SamplesInside, Profiler!Bad
<1> QED BY <1>5, <1>6, <1>7, <1>8, <1>9 DEF ProfilerInv, GraphInv

LEMMA LevelNext ==
  ASSUME ProfilerInv, NEW l \in Profiler!Level,
         \/ \E a \in Arc : Profiler!Call(l, a)
         \/ Profiler!Find_function(l) \/ Profiler!Find_arc(l) \/ Profiler!Load(l) \/ Profiler!Store(l)
         \/ Profiler!Check(l) \/ Profiler!Clear(l) \/ Profiler!nios2_pcsample_init(l)
         \/ Profiler!Start_sampling(l) \/ Profiler!Record(l)
  PROVE  ProfilerInv'
<1>1. GraphInv /\ HeapInv
  BY DEF ProfilerInv
<1>2. CASE \E a \in Arc : Profiler!Call(l, a)
  <2>1. PICK a \in Arc : Profiler!Call(l, a)
    BY <1>2
  <2>2. HeapInv'
    BY <1>1, <2>1, HeapIdles DEF Profiler!Call, Profiler!heap, Profiler!sample
  <2> QED BY <1>1, <2>1, <2>2, CallKeeps DEF ProfilerInv
<1>3. CASE Profiler!Find_function(l)
  <2>1. HeapInv'
    BY <1>1, <1>3, HeapIdles DEF Profiler!Find_function, Profiler!heap, Profiler!sample
  <2> QED BY <1>1, <1>3, <2>1, FindFunctionKeeps DEF ProfilerInv
<1>4. CASE Profiler!Find_arc(l)
  <2>1. HeapInv'
    BY <1>1, <1>4, HeapIdles DEF Profiler!Find_arc, Profiler!heap, Profiler!sample
  <2> QED BY <1>1, <1>4, <2>1, FindArcKeeps DEF ProfilerInv
<1>5. CASE Profiler!Load(l)
  <2>1. HeapInv'
    BY <1>1, <1>5, HeapIdles DEF Profiler!Load, Profiler!heap, Profiler!sample
  <2> QED BY <1>1, <1>5, <2>1, LoadKeeps DEF ProfilerInv
<1>6. CASE Profiler!Store(l)
  <2>1. HeapInv'
    BY <1>1, <1>6, HeapIdles DEF Profiler!Store, Profiler!heap, Profiler!sample
  <2> QED BY <1>1, <1>6, <2>1, StoreKeeps DEF ProfilerInv
<1>7. CASE Profiler!Check(l)
  <2>1. PICK there : there = IF pcsample_need_init THEN "clear" ELSE "record"
    OBVIOUS
  <2>2. /\ Profiler!At(l, "check", there) /\ "check" \in Missed /\ there \in Missed
        /\ UNCHANGED <<regs, list, calls, raced>>
    BY <1>7, <2>1 DEF Profiler!Check, Profiler!graph, Missed
  <2>3. HeapInv'
    BY <1>1, <1>7, HeapIdles DEF Profiler!Check, Profiler!heap, Profiler!sample
  <2> QED BY <1>1, <2>2, <2>3, MissedKeeps DEF ProfilerInv
<1>8. CASE Profiler!Clear(l)
  <2>1. /\ Profiler!At(l, "clear", "init") /\ "clear" \in Missed /\ "init" \in Missed
        /\ UNCHANGED <<regs, list, calls, raced>>
    BY <1>8 DEF Profiler!Clear, Profiler!graph, Missed
  <2>2. HeapInv'
    BY <1>1, <1>8, HeapIdles DEF Profiler!Clear, Profiler!heap
  <2> QED BY <1>1, <2>1, <2>2, MissedKeeps DEF ProfilerInv
<1>9. CASE Profiler!nios2_pcsample_init(l)
  <2>1. PICK there : there = IF ticking THEN "start" ELSE "record"
    OBVIOUS
  <2>2. /\ Profiler!At(l, "init", there) /\ "init" \in Missed /\ there \in Missed
        /\ UNCHANGED <<regs, list, calls, raced>>
    BY <1>9, <2>1 DEF Profiler!nios2_pcsample_init, Profiler!graph, Missed
  <2>3. HeapInv'
    BY <1>1, <1>9, InitHeap
  <2> QED BY <1>1, <2>2, <2>3, MissedKeeps DEF ProfilerInv
<1>10. CASE Profiler!Start_sampling(l)
  <2>1. /\ Profiler!At(l, "start", "record") /\ "start" \in Missed /\ "record" \in Missed
        /\ UNCHANGED <<regs, list, calls, raced>>
    BY <1>10 DEF Profiler!Start_sampling, Profiler!graph, Missed
  <2>2. HeapInv'
    BY <1>1, <1>10, HeapIdles DEF Profiler!Start_sampling, Profiler!heap
  <2> QED BY <1>1, <2>1, <2>2, MissedKeeps DEF ProfilerInv
<1>11. CASE Profiler!Record(l)
  BY <1>1, <1>11, RecordKeeps, RecordHeap DEF ProfilerInv
<1> QED BY <1>2, <1>3, <1>4, <1>5, <1>6, <1>7, <1>8, <1>9, <1>10, <1>11

LEMMA ProfilerNext == ASSUME ProfilerInv, [Profiler!Next]_Profiler!vars PROVE ProfilerInv'
<1>1. GraphInv /\ HeapInv
  BY DEF ProfilerInv
<1>2. CASE Profiler!Clock_starts
  <2>1. GraphInv'
    BY <1>1, <1>2, GraphIdles DEF Profiler!Clock_starts, Profiler!graph
  <2>2. HeapInv'
    BY <1>1, <1>2, HeapIdles DEF Profiler!Clock_starts, Profiler!heap
  <2> QED BY <2>1, <2>2 DEF ProfilerInv
<1>3. CASE Profiler!Handler_begins \/ Profiler!Handler_returns
  <2>1. HeapInv'
    BY <1>1, <1>3, HeapIdles
    DEF Profiler!Handler_begins, Profiler!Handler_returns, Profiler!heap, Profiler!sample
  <2> QED BY <1>1, <1>3, <2>1, HandlerMoves DEF ProfilerInv
<1>4. CASE \E incr \in Request : Profiler!Malloc(incr)
  <2>1. PICK incr \in Request : Profiler!Malloc(incr)
    BY <1>4
  <2>2. GraphInv'
    BY <1>1, <2>1, GraphIdles DEF Profiler!Malloc, Profiler!graph
  <2> QED BY <1>1, <2>1, <2>2, MallocHeap DEF ProfilerInv
<1>5. CASE \E bucket \in 0 .. (TextBytes - 1) \div Profiler!BucketBytes : Profiler!nios2_pcsample(bucket)
  <2>1. PICK bucket \in 0 .. (TextBytes - 1) \div Profiler!BucketBytes : Profiler!nios2_pcsample(bucket)
    BY <1>5
  <2>2. GraphInv'
    BY <1>1, <2>1, GraphIdles DEF Profiler!nios2_pcsample, Profiler!graph
  <2> QED BY <1>1, <2>1, <2>2, SampleHeap DEF ProfilerInv
<1>6. CASE UNCHANGED Profiler!vars
  BY <1>1, <1>6, GraphIdles, HeapIdles DEF Profiler!vars, ProfilerInv
<1>7. CASE \E l \in Profiler!Level :
             \/ \E a \in Arc : Profiler!Call(l, a)
             \/ Profiler!Find_function(l) \/ Profiler!Find_arc(l) \/ Profiler!Load(l)
             \/ Profiler!Store(l)
             \/ Profiler!Check(l) \/ Profiler!Clear(l) \/ Profiler!nios2_pcsample_init(l)
             \/ Profiler!Start_sampling(l) \/ Profiler!Record(l)
  BY <1>7, LevelNext
<1> QED BY <1>2, <1>3, <1>4, <1>5, <1>6, <1>7 DEF Profiler!Next

(* Sets of at most one, two and three members.                             *)
LEMMA AtMost ==
  ASSUME NEW S, IsFiniteSet(S)
  PROVE  /\ (\A x, y \in S : x = y) => Cardinality(S) <= 1
         /\ (\A x, y, z \in S : x = y \/ y = z \/ x = z) => Cardinality(S) <= 2
         /\ (\A w, x, y, z \in S : w = x \/ w = y \/ w = z \/ x = y \/ y = z \/ x = z)
              => Cardinality(S) <= 3
<1>1. ASSUME NEW T, IsFiniteSet(T), NEW x \in T
      PROVE  IsFiniteSet(T \ {x}) /\ Cardinality(T) = Cardinality(T \ {x}) + 1
  <2>1. IsFiniteSet(T \ {x}) /\ Cardinality(T \ {x}) = Cardinality(T) - 1 /\ Cardinality(T) \in Nat
    BY <1>1, FS_RemoveElement, FS_CardinalityType
  <2> QED BY <2>1
<1>2. Cardinality({}) = 0
  BY FS_EmptySet
<1>3. ASSUME NEW T, IsFiniteSet(T), \A x, y \in T : x = y PROVE Cardinality(T) <= 1
  <2>1. CASE T = {}
    BY <1>2, <2>1
  <2>2. CASE T # {}
    <3>1. PICK x \in T : TRUE
      BY <2>2
    <3>2. T \ {x} = {}
      BY <1>3
    <3> QED BY <1>1, <1>2, <1>3, <3>2
  <2> QED BY <2>1, <2>2
<1>4. ASSUME NEW T, IsFiniteSet(T), \A x, y, z \in T : x = y \/ y = z \/ x = z
      PROVE  Cardinality(T) <= 2
  <2>1. CASE T = {}
    BY <1>2, <2>1
  <2>2. CASE T # {}
    <3>1. PICK x \in T : TRUE
      BY <2>2
    <3>2. IsFiniteSet(T \ {x}) /\ Cardinality(T) = Cardinality(T \ {x}) + 1
      BY <1>1, <1>4
    <3>3. \A y, z \in T \ {x} : y = z
      BY <1>4
    <3>4. Cardinality(T \ {x}) <= 1 /\ Cardinality(T \ {x}) \in Nat
      BY <1>3, <3>2, <3>3, FS_CardinalityType
    <3> QED BY <3>2, <3>4
  <2> QED BY <2>1, <2>2
<1>5. ASSUME \A w, x, y, z \in S : w = x \/ w = y \/ w = z \/ x = y \/ y = z \/ x = z
      PROVE  Cardinality(S) <= 3
  <2>1. CASE S = {}
    BY <1>2, <2>1
  <2>2. CASE S # {}
    <3>1. PICK w \in S : TRUE
      BY <2>2
    <3>2. IsFiniteSet(S \ {w}) /\ Cardinality(S) = Cardinality(S \ {w}) + 1
      BY <1>1
    <3>3. \A x, y, z \in S \ {w} : x = y \/ y = z \/ x = z
      BY <1>5
    <3>4. Cardinality(S \ {w}) <= 2 /\ Cardinality(S \ {w}) \in Nat
      BY <1>4, <3>2, <3>3, FS_CardinalityType
    <3> QED BY <3>2, <3>4
  <2> QED BY <2>1, <2>2
<1> QED BY <1>3, <1>4, <1>5

LEMMA CopiesFew == ASSUME GraphInv PROVE Profiler!FewCopies
<1>1. ListOK /\ DOMAIN list = 1 .. Len(list) /\ Len(list) \in Nat
  BY RecordsAre, GraphHas DEF GraphTypes
<1>2. ASSUME NEW f \in Profiler!Function
      PROVE  Cardinality({i \in DOMAIN list : list[i].self = f}) <= 2
  <2>1. PICK S : S = {i \in DOMAIN list : list[i].self = f}
    OBVIOUS
  <2>2. IsFiniteSet(DOMAIN list)
    BY <1>1, FS_Interval
  <2>3. IsFiniteSet(S)
    BY <2>1, <2>2, FS_Subset
  <2>4. \A x, y, z \in S : x = y \/ y = z \/ x = z
    BY <1>1, <2>1 DEF ListOK
  <2> QED BY <2>1, <2>3, <2>4, AtMost
<1>3. ASSUME NEW a \in Arc PROVE Cardinality(Profiler!Copies(a)) <= 3
  <2>1. PICK S : S = Profiler!Copies(a)
    OBVIOUS
  <2>2. IsFiniteSet(S)
    BY <2>1, CopiesAre, GraphHas
  <2>3. ASSUME NEW c \in S
        PROVE  /\ c = <<c[1], c[2]>> /\ c[1] \in DOMAIN list /\ c[2] \in DOMAIN list[c[1]].arcs
               /\ c[1] \in Int
               /\ list[c[1]].self = a[1] /\ list[c[1]].arcs[c[2]].from = a[2]
    <3>1. c \in Profiler!Places /\ list[c[1]].self = a[1] /\ list[c[1]].arcs[c[2]].from = a[2]
      BY <2>1 DEF Profiler!Copies
    <3>2. PICK i \in DOMAIN list : \E j \in DOMAIN list[i].arcs : c = <<i, j>>
      BY <3>1, PlacesAre
    <3>3. PICK j \in DOMAIN list[i].arcs : c = <<i, j>>
      BY <3>2
    <3>4. c[1] = i /\ c[2] = j /\ i \in Int
      BY <1>1, <3>3
    <3> QED BY <3>1, <3>3, <3>4
  <2>4. \A x, y \in S : x[1] = y[1] /\ x[2] = y[2] => x = y
    BY <2>3
  <2>5. \A x, y, z \in S : x[1] = y[1] \/ y[1] = z[1] \/ x[1] = z[1]
    BY <1>1, <2>3 DEF ListOK
  <2>6. ASSUME NEW x \in S, NEW y \in S, NEW z \in S, x[1] = y[1], y[1] = z[1]
        PROVE  x = y \/ y = z \/ x = z
    <3>1. Twice(list[x[1]].arcs)
      BY <1>1, <2>3 DEF ListOK
    <3>2. x[2] = y[2] \/ y[2] = z[2] \/ x[2] = z[2]
      BY <2>3, <2>6, <3>1 DEF Twice
    <3> QED BY <2>4, <2>6, <3>2
  <2>7. ASSUME NEW x \in S, NEW y \in S, NEW z \in S, x[1] = y[1], x[1] < z[1]
        PROVE  x = y
    <3>1. Single(list[x[1]].arcs)
      BY <1>1, <2>3, <2>7 DEF ListOK
    <3>2. x[2] = y[2]
      BY <2>3, <2>7, <3>1 DEF Single
    <3> QED BY <2>4, <2>7, <3>2
  <2>8. \A w, x, y, z \in S : w = x \/ w = y \/ w = z \/ x = y \/ y = z \/ x = z
    <3> SUFFICES ASSUME NEW w \in S, NEW x \in S, NEW y \in S, NEW z \in S,
                        w # x, w # y, w # z, x # y, y # z, x # z
                 PROVE  FALSE
      OBVIOUS
    <3>1. w[1] \in Int /\ x[1] \in Int /\ y[1] \in Int /\ z[1] \in Int
      BY <2>3
    <3> QED BY <2>5, <2>6, <2>7, <3>1
  <2> QED BY <2>1, <2>2, <2>8, AtMost
<1>4. \A f \in Profiler!Function : Cardinality({i \in DOMAIN list : list[i].self = f}) <= 2
  BY <1>2
<1>5. \A a \in Arc : Cardinality(Profiler!Copies(a)) <= 3
  BY <1>3
<1>6. \A S : Profiler!Cardinality(S) = Cardinality(S)
  BY DEF Profiler!Cardinality, Cardinality
<1> QED BY <1>4, <1>5, <1>6, Zenon DEF Profiler!FewCopies

LEMMA ProfilerSound == ProfilerInv => Profiler!CallGraphOK
<1> SUFFICES ASSUME ProfilerInv PROVE Profiler!CallGraphOK
  OBVIOUS
<1>1. GraphInv /\ HeapInv
  BY DEF ProfilerInv
<1>2. Profiler!Apart /\ heap_end \in HeapStart .. HeapLimit
  BY <1>1, LaidApart DEF HeapInv
<1>3. Profiler!TypeOK
  <2>1. \A i \in DOMAIN list : list[i].self \in Profiler!Function
    BY <1>1, RecordsAre, GraphHas DEF GraphTypes
  <2>2. ASSUME NEW l \in Profiler!Level
        PROVE  /\ regs[l].fn \in 0 .. Len(list)
               /\ pc[l] \in {"load", "store"} => regs[l].at \in DOMAIN list[regs[l].fn].arcs
    <3>1. Found(l) /\ regs[l].fn \in Nat /\ DOMAIN list = 1 .. Len(list) /\ Len(list) \in Nat
      BY <1>1, RegistersAre, RecordsAre, GraphHas DEF GraphTypes
    <3>2. regs[l].fn \in 0 .. Len(list)
      <4>1. regs[l].fn = 0 \/ regs[l].fn \in DOMAIN list
        BY <3>1, Zenon DEF Found
      <4> QED BY <3>1, <4>1
    <3>3. pc[l] \in {"load", "store"} => regs[l].at \in DOMAIN list[regs[l].fn].arcs
      BY <3>1, Zenon DEF Found
    <3> QED BY <3>2, <3>3
  <2> QED BY <1>2, <2>1, <2>2 DEF Profiler!TypeOK
<1> QED BY <1>1, <1>2, <1>3, CopiesFew, GraphHas
        DEF HeapInv, GraphInv, GraphTypes, Profiler!CallGraphOK

-----------------------------------------------------------------------------
(* All that runs on the clock.                                             *)

LEMMA PartsRun ==
  [ClockNext]_all => [Next]_vars /\ [Day!Next]_Day!vars /\ [Profiler!Next]_Profiler!vars
<1>1. /\ UNCHANGED times => UNCHANGED Day!vars
      /\ UNCHANGED profile => UNCHANGED Profiler!vars
  BY DEF times, Day!vars, profile, Profiler!vars
<1>2. UNCHANGED all => UNCHANGED vars /\ UNCHANGED times /\ UNCHANGED profile
  BY DEF all
<1> QED BY <1>1, <1>2, Zenon DEF ClockNext

(* Every reachable state of alarms, callbacks and ticks keeps the list in  *)
(* the order the walk relies on.                                           *)
LEMMA Invariance == ASSUME ~StopsNext PROVE ClockSpec => []IInv
<1>1. ClockInit => IInv
  BY InitIInv DEF ClockInit
<1>2. IInv /\ [ClockNext]_all => IInv'
  BY PartsRun, NextIInv
<1> QED BY <1>1, <1>2, PTL DEF ClockSpec

(* Starting and stopping alarms, between ticks or from a callback while    *)
(* alt_tick walks the list, leaves the links of alt_llist.h a ring through *)
(* Root, and the walk never stands on a node outside it.                   *)
THEOREM ListSound == ASSUME ~StopsNext PROVE ClockSpec => []SafeList
<1>1. ClockSpec => []IInv
  BY Invariance
<1> QED BY <1>1, Sound, PTL

(* Through every wrap of the tick counter, an alarm rings on the tick it   *)
(* was set for, neither early nor late, whatever other alarms and          *)
(* callbacks do, and the tick passes over none that is due (alt_tick.c:95).*)
THEOREM Refinement == ASSUME ~StopsNext PROVE ClockSpec => ImplementsAlarmClock
<1>1. ClockSpec => []IInv
  BY Invariance
<1>2. ClockInit => AC!Init
  BY InitMaps DEF ClockInit
<1>3. IInv /\ IInv' /\ [ClockNext]_all => [AC!Next]_([a \in Alarm |-> Left(a)])
  BY PartsRun, NextMaps
<1> QED BY <1>1, <1>2, <1>3, PTL DEF ClockSpec, ImplementsAlarmClock, AC!Spec

(* The time told is the time set plus the ticks since (alt_gettod.c:89-112,*)
(* alt_settod.c:82-90), for every clock rate that divides a second, as     *)
(* long as neither the counter nor the 32-bit product of settimeofday has  *)
(* wrapped; a sleep counts at least the loops it needs, and too many only  *)
(* when it is a whole number of chunks (alt_busy_sleep.c:74-104).          *)
THEOREM ClockTells == ClockSpec => []TimeRight
<1>1. ClockInit => TimeInv
  BY TimeInit DEF ClockInit
<1>2. TimeInv /\ [ClockNext]_all => TimeInv'
  BY PartsRun, TimeNext
<1>3. TimeInv => TimeRight
  BY TimeSound DEF TimeRight
<1> QED BY <1>1, <1>2, <1>3, PTL DEF ClockSpec

(* However the handlers interrupt the program between the steps of mcount, *)
(* and wherever the samples fall: no two pieces of memory handed out by    *)
(* sbrk or cut from a slab overlap until sbrk refuses (alt_sbrk.c,         *)
(* alt_mcount.S); every call is counted once, in one of at most three      *)
(* copies of its arc, unless a handler counts the same arc between the     *)
(* program's load and its store; the registers point to records that       *)
(* exist; and a sample misses the histogram only past an unfinished bucket *)
(* or after a refusal (alt_gmon.c).                                        *)
THEOREM CallsCounted == ClockSpec => []CallGraphOK
<1>1. ClockInit => ProfilerInv
  BY ProfilerInit DEF ClockInit
<1>2. ProfilerInv /\ [ClockNext]_all => ProfilerInv'
  BY PartsRun, ProfilerNext
<1>3. ProfilerInv => CallGraphOK
  BY ProfilerSound DEF CallGraphOK
<1> QED BY <1>1, <1>2, <1>3, PTL DEF ClockSpec
=============================================================================
