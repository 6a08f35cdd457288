------------------------ MODULE PolicyArithmeticProofs ------------------------
(***************************************************************************)
(* The algebra of internal/netpol/ports.go, for ports up to any number and *)
(* lists of any length: what it calls known is known, a canonical list     *)
(* says no more than the list it was made of, an intersection no more than *)
(* each of its sides, and of what may be denied nothing known is left.     *)
(* And that of the address blocks of internal/netpol/evaluator.go, for     *)
(* addresses of any width.                                                 *)
(***************************************************************************)
EXTENDS PortPermissions, Prefixes, FiniteSetTheorems, WellFoundedInduction, TLAPS

(* A permission as the evaluator builds it: one that keeps the name of a   *)
(* port is an upper bound for every port of its protocol.                  *)
WellFormed(p) ==
    /\ p \in Permission
    /\ p.lo <= p.hi
    /\ ~Numeric(p) => p.unknown /\ p.lo = 1 /\ p.hi = MaxPort

LEMMA Induction ==
    ASSUME NEW S, 0 \in S, \A n \in Nat : n \in S => n + 1 \in S
    PROVE  Nat \subseteq S
<1> DEFINE T == Nat \ S
<1> SUFFICES ASSUME T # {} PROVE FALSE
  OBVIOUS
<1>1. PICK x \in T : \A y \in T : ~(<<y, x>> \in OpToRel(<, Nat))
  <2>1. IsWellFoundedOn(OpToRel(<, Nat), Nat)
    BY NatLessThanWellFounded
  <2>2. T \subseteq Nat
    OBVIOUS
  <2> HIDE DEF T
  <2> QED
    BY <2>1, <2>2, WFMin
<1>2. \A y \in T : ~(y < x)
  BY <1>1 DEF OpToRel
<1>3. x - 1 \in Nat /\ x - 1 < x
  OBVIOUS
<1>4. (x - 1) + 1 \in S
  BY <1>2, <1>3
<1> QED
  BY <1>3, <1>4

LEMMA LeastExists ==
    ASSUME NEW T \in SUBSET Nat, T # {}
    PROVE  \E x \in T : \A y \in T : x <= y
<1>1. IsWellFoundedOn(OpToRel(<, Nat), Nat)
  BY NatLessThanWellFounded
<1>2. PICK x \in T : \A y \in T : ~(<<y, x>> \in OpToRel(<, Nat))
  BY <1>1, WFMin
<1>3. \A y \in T : ~(y < x)
  BY <1>2 DEF OpToRel
<1> QED
  BY <1>3

LEMMA PortBound == MaxPort \in Nat /\ MaxPort >= 1 /\ Ports = 1 .. MaxPort
BY PortAssumption DEF Ports

-----------------------------------------------------------------------------
(* A run holds no port that none of its spans holds.                       *)
LEMMA RunIsCovered ==
    ASSUME NEW spans \in SUBSET Permission, NEW run \in Runs(spans),
           NEW n \in Ports, run[1] <= n, n <= run[2]
    PROVE  \E s \in spans : s.lo <= n /\ n <= s.hi
<1>1. /\ run[1] \in Ports /\ run[2] \in Ports
      /\ IsRun(spans, run[1], run[2])
  BY DEF Runs
<1>2. \A s \in spans : s.lo \in Int /\ s.hi \in Int
  BY PortBound DEF Permission
<1>3. CASE n = run[1]
  BY <1>1, <1>3 DEF IsRun
<1>4. CASE n > run[1]
  <2>1. n - 1 \in run[1] .. (run[2] - 1)
    BY <1>1, <1>4, PortBound
  <2>2. Joined(spans, n - 1)
    BY <1>1, <2>1 DEF IsRun
  <2> QED
    BY <1>2, <2>2, PortBound DEF Joined
<1> QED
  BY <1>1, <1>3, <1>4, PortBound

(* Each port a span holds lies on a run: the spans around it are joined    *)
(* down to the first gap below it and up to the first gap above.           *)
LEMMA CoveredIsOnRun ==
    ASSUME NEW spans \in SUBSET Permission, NEW s \in spans, NEW n \in Ports,
           s.lo <= n, n <= s.hi
    PROVE  \E run \in Runs(spans) : run[1] <= n /\ n <= run[2]
<1> USE PortBound
<1>1. \A r \in spans : r.lo \in Ports /\ r.hi \in Ports
  BY DEF Permission
<1>2. ~Joined(spans, 0) /\ ~Joined(spans, MaxPort)
  BY <1>1 DEF Joined
<1>3. PICK i \in Nat : /\ i <= n - 1 /\ ~Joined(spans, n - 1 - i)
                      /\ \A j \in Nat : ~Joined(spans, n - 1 - j) => i <= j
  <2> DEFINE T == {j \in Nat : ~Joined(spans, n - 1 - j)}
  <2>1. n - 1 \in T
    <3>1. n - 1 \in Nat /\ n - 1 - (n - 1) = 0
      OBVIOUS
    <3> QED
      BY <1>2, <3>1
  <2>2. T \in SUBSET Nat /\ T # {}
    BY <2>1
  <2>3. PICK x \in T : \A y \in T : x <= y
    <3> HIDE DEF T
    <3> QED
      BY <2>2, LeastExists
  <2> QED
    BY <2>1, <2>3
<1>4. PICK hi \in Nat : /\ n <= hi /\ hi <= MaxPort /\ ~Joined(spans, hi)
                       /\ \A j \in Nat : n <= j /\ ~Joined(spans, j) => hi <= j
  <2> DEFINE T == {j \in Nat : n <= j /\ ~Joined(spans, j)}
  <2>1. MaxPort \in T
    BY <1>2
  <2>2. T \in SUBSET Nat /\ T # {}
    BY <2>1
  <2>3. PICK x \in T : \A y \in T : x <= y
    <3> HIDE DEF T
    <3> QED
      BY <2>2, LeastExists
  <2> QED
    BY <2>1, <2>3
<1> DEFINE lo == n - i
           run == <<lo, hi>>
<1>5. lo \in Ports /\ hi \in Ports /\ lo <= n /\ n <= hi
  BY <1>3, <1>4
<1>6. \A k \in lo .. (hi - 1) : Joined(spans, k)
  <2> TAKE k \in lo .. (hi - 1)
  <2>1. CASE n <= k
    BY <1>4, <1>5, <2>1
  <2>2. CASE k < n
    <3> DEFINE j == n - 1 - k
    <3>1. j \in Nat /\ n - 1 - j = k /\ ~(i <= j)
      BY <1>3, <1>5, <2>2
    <3>2. ~Joined(spans, n - 1 - j) => i <= j
      BY <1>3, <3>1
    <3> QED
      BY <3>1, <3>2
  <2> QED
    BY <1>5, <2>1, <2>2
<1>7. \E r \in spans : r.lo <= lo /\ lo <= r.hi
  <2>1. CASE i = 0
    BY <2>1
  <2>2. CASE i # 0
    <3>1. lo \in lo .. (hi - 1)
      BY <1>3, <1>5, <2>2
    <3> QED
      BY <1>1, <1>5, <1>6, <3>1 DEF Joined
  <2> QED
    BY <2>1, <2>2
<1>8. ~Joined(spans, lo - 1) /\ ~Joined(spans, hi)
  <2>1. lo - 1 = n - 1 - i
    BY <1>3
  <2> QED
    BY <1>3, <1>4, <2>1
<1>9. IsRun(spans, lo, hi)
  BY <1>6, <1>7, <1>8 DEF IsRun
<1>10. run \in Runs(spans)
  <2> HIDE DEF lo
  <2> QED
    BY <1>5, <1>9 DEF Runs
<1> QED
  BY <1>5, <1>10

(* mergeProtocolPermissions, for the permissions of one protocol.          *)
LEMMA MergeAddsNothing ==
    ASSUME NEW protocol \in Protocols, NEW list \in SUBSET Permission,
           \A p \in list : p.protocol = protocol,
           NEW q \in Protocols, NEW n \in Ports
    PROVE  /\ Certainly(MergeProtocolPermissions(protocol, list), q, n) => Certainly(list, q, n)
           /\ Possibly(MergeProtocolPermissions(protocol, list), q, n) => Possibly(list, q, n)
<1> DEFINE known == {p \in list : ~p.unknown}
           merged == {Span(protocol, run[1], run[2], FALSE) : run \in Runs(known)}
           result == MergeProtocolPermissions(protocol, list)
<1>1. ASSUME NEW m \in merged, Covers(m, q, n)
      PROVE  Certainly(list, q, n)
  <2>1. PICK run \in Runs(known) : m = Span(protocol, run[1], run[2], FALSE)
    OBVIOUS
  <2>2. q = protocol /\ run[1] <= n /\ n <= run[2]
    BY <1>1, <2>1 DEF Covers, Span
  <2>3. PICK s \in known : s.lo <= n /\ n <= s.hi
    BY <2>2, RunIsCovered
  <2> QED
    BY <2>2, <2>3 DEF Certainly, Covers
<1>2. CASE \A k \in Ports : Certainly(list, protocol, k)
  <2>1. result = {Every(protocol, FALSE)}
    BY <1>2 DEF MergeProtocolPermissions
  <2>2. Certainly(result, q, n) \/ Possibly(result, q, n) => q = protocol
    BY <2>1 DEF Certainly, Possibly, Covers, Every, Span
  <2> QED
    BY <1>2, <2>2 DEF Certainly, Possibly
<1>3. CASE ~\A k \in Ports : Certainly(list, protocol, k)
  <2>1. /\ \A p \in result : p \in merged \/ p \in list
        /\ \A p \in result : ~p.unknown => p \in merged \/ p \in known
    BY <1>3 DEF MergeProtocolPermissions
  <2>2. Certainly(result, q, n) => Certainly(list, q, n)
    BY <1>1, <2>1 DEF Certainly
  <2>3. Possibly(result, q, n) => Possibly(list, q, n)
    BY <1>1, <2>1 DEF Certainly, Possibly
  <2> QED
    BY <2>2, <2>3
<1> QED
  BY <1>2, <1>3

LEMMA MergeLosesNothing ==
    ASSUME NEW protocol \in Protocols, NEW list \in SUBSET Permission,
           \A p \in list : p.protocol = protocol,
           NEW q \in Protocols, NEW n \in Ports
    PROVE  /\ Certainly(list, q, n) => Certainly(MergeProtocolPermissions(protocol, list), q, n)
           /\ Possibly(list, q, n) => Possibly(MergeProtocolPermissions(protocol, list), q, n)
<1> DEFINE known == {p \in list : ~p.unknown}
           merged == {Span(protocol, run[1], run[2], FALSE) : run \in Runs(known)}
           covered(p) == Numeric(p) /\ \E m \in merged : m.lo <= p.lo /\ p.hi <= m.hi
           result == MergeProtocolPermissions(protocol, list)
<1>1. CASE \A k \in Ports : Certainly(list, protocol, k)
  <2>1. result = {Every(protocol, FALSE)}
    BY <1>1 DEF MergeProtocolPermissions
  <2>2. Possibly(list, q, n) \/ Certainly(list, q, n) => q = protocol
    BY DEF Possibly, Certainly, Covers
  <2>3. ~Every(protocol, FALSE).unknown /\ Covers(Every(protocol, FALSE), protocol, n)
    BY PortBound DEF Every, Span, Covers
  <2> QED
    BY <2>1, <2>2, <2>3 DEF Possibly, Certainly
<1>2. CASE ~\A k \in Ports : Certainly(list, protocol, k)
  <2>1. result = merged \union {p \in list \ known : ~covered(p)}
    BY <1>2 DEF MergeProtocolPermissions
  <2>2. ASSUME Certainly(list, q, n)
        PROVE  \E m \in merged : ~m.unknown /\ Covers(m, q, n)
    <3>1. PICK s \in known : Covers(s, q, n)
      BY <2>2 DEF Certainly
    <3>2. known \in SUBSET Permission /\ q = protocol /\ s.lo <= n /\ n <= s.hi
      BY <3>1 DEF Covers
    <3>3. PICK run \in Runs(known) : run[1] <= n /\ n <= run[2]
      BY <3>2, CoveredIsOnRun
    <3> WITNESS Span(protocol, run[1], run[2], FALSE) \in merged
    <3> QED
      BY <3>2, <3>3 DEF Span, Covers
  <2>3. ASSUME NEW p \in list, p.unknown, Covers(p, q, n)
        PROVE  Possibly(result, q, n)
    <3>1. CASE covered(p)
      <4>1. PICK m \in merged : m.lo <= p.lo /\ p.hi <= m.hi
        BY <3>1
      <4>2. m.lo \in Ports /\ m.hi \in Ports /\ m.protocol = protocol
        <5>1. PICK run \in Runs(known) : m = Span(protocol, run[1], run[2], FALSE)
          OBVIOUS
        <5> QED
          BY <5>1 DEF Span, Runs
      <4>4. p.lo \in Ports /\ p.hi \in Ports /\ q = protocol
        BY <2>3 DEF Permission, Covers
      <4>3. Covers(m, q, n)
        BY <2>3, <4>1, <4>2, <4>4, PortBound DEF Covers
      <4> QED
        BY <2>1, <4>3 DEF Possibly
    <3>2. CASE ~covered(p)
      <4>1. p \in result
        BY <2>1, <2>3, <3>2
      <4> QED
        BY <2>3, <4>1 DEF Possibly
    <3> QED
      BY <3>1, <3>2
  <2>4. Certainly(list, q, n) => Certainly(result, q, n) /\ Possibly(result, q, n)
    BY <2>1, <2>2 DEF Certainly, Possibly
  <2> QED
    BY <2>3, <2>4 DEF Certainly, Possibly
<1> QED
  BY <1>1, <1>2

(* canonicalPermissions says of each port what the list says it was given. *)
THEOREM CanonicalIsExact ==
    ASSUME NEW list \in SUBSET Permission, NEW q \in Protocols, NEW n \in Ports
    PROVE  /\ Certainly(Canonical(list), q, n) <=> Certainly(list, q, n)
           /\ Possibly(Canonical(list), q, n) <=> Possibly(list, q, n)
<1> DEFINE of(protocol) == {p \in list : p.protocol = protocol}
<1>1. \A protocol \in Protocols :
        /\ Certainly(MergeProtocolPermissions(protocol, of(protocol)), q, n) <=> Certainly(of(protocol), q, n)
        /\ Possibly(MergeProtocolPermissions(protocol, of(protocol)), q, n) <=> Possibly(of(protocol), q, n)
  <2> TAKE protocol \in Protocols
  <2>1. of(protocol) \in SUBSET Permission /\ \A p \in of(protocol) : p.protocol = protocol
    OBVIOUS
  <2> QED
    BY <2>1, MergeAddsNothing, MergeLosesNothing
<1>2. Canonical(list) = UNION {MergeProtocolPermissions(protocol, of(protocol)) : protocol \in Protocols}
  BY DEF Canonical
<1>3. Certainly(Canonical(list), q, n) <=>
        \E protocol \in Protocols : Certainly(MergeProtocolPermissions(protocol, of(protocol)), q, n)
  BY <1>2 DEF Certainly
<1>4. Possibly(Canonical(list), q, n) <=>
        \E protocol \in Protocols : Possibly(MergeProtocolPermissions(protocol, of(protocol)), q, n)
  BY <1>2 DEF Possibly
<1>5. \A p \in list : p.protocol \in Protocols
  BY DEF Permission
<1>6. Certainly(list, q, n) <=> \E protocol \in Protocols : Certainly(of(protocol), q, n)
  BY <1>5 DEF Certainly
<1>7. Possibly(list, q, n) <=> \E protocol \in Protocols : Possibly(of(protocol), q, n)
  BY <1>5 DEF Possibly
<1> HIDE DEF of
<1> QED
  BY <1>1, <1>3, <1>4, <1>6, <1>7

-----------------------------------------------------------------------------
(* A permission that is doubted is for the same ports.                     *)
LEMMA DoubtedCovers ==
    ASSUME NEW p, WellFormed(p), NEW q, NEW n
    PROVE  LET doubted == [p EXCEPT !.unknown = TRUE]
           IN  /\ doubted \in Permission
               /\ doubted.unknown = TRUE
               /\ Covers(doubted, q, n) <=> Covers(p, q, n)
BY DEF WellFormed, Permission, Covers

(* What two permissions have in common.                                    *)
LEMMA MeetIsCommon ==
    ASSUME NEW a, NEW b, WellFormed(a), WellFormed(b), Overlap(a, b),
           NEW q \in Protocols, NEW n \in Ports
    PROVE  /\ Meet(a, b) \in Permission
           /\ Meet(a, b).unknown = (a.unknown \/ b.unknown)
           /\ Covers(Meet(a, b), q, n) <=> Covers(a, q, n) /\ Covers(b, q, n)
<1> USE PortBound DEF WellFormed, Permission, Numeric, Overlap
<1>0. a.name # NoName \/ b.name # NoName => a.unknown \/ b.unknown
  OBVIOUS
<1>1. CASE a.name = NoName /\ b.name = NoName
  <2> DEFINE lo == Larger(a.lo, b.lo)
             hi == Smaller(a.hi, b.hi)
  <2>1. Meet(a, b) = [protocol |-> a.protocol, lo |-> lo, hi |-> hi, name |-> NoName,
                      unknown |-> a.unknown \/ b.unknown]
    BY <1>1 DEF Meet, Span
  <2>2. lo \in Ports /\ hi \in Ports /\ (lo <= n <=> a.lo <= n /\ b.lo <= n) /\ (n <= hi <=> n <= a.hi /\ n <= b.hi)
    BY DEF Larger, Smaller
  <2>3. (a.unknown \/ b.unknown) \in BOOLEAN
    OBVIOUS
  <2> HIDE DEF lo, hi
  <2> QED
    BY <2>1, <2>2, <2>3 DEF Covers
<1>2. CASE a.name # NoName /\ b.name = NoName
  <2>1. CASE Full(b)
    <3>1. Meet(a, b) = [a EXCEPT !.unknown = TRUE]
      BY <1>2, <2>1 DEF Meet
    <3> QED
      BY <1>0, <1>2, <2>1, <3>1, DoubtedCovers DEF Covers, Full
  <2>2. CASE ~Full(b)
    <3>1. Meet(a, b) = [b EXCEPT !.unknown = TRUE]
      BY <1>2, <2>2 DEF Meet
    <3>2. a.unknown = TRUE /\ (Covers(b, q, n) => Covers(a, q, n))
      BY <1>2 DEF Covers
    <3>3. (a.unknown \/ b.unknown) = TRUE
      BY <3>2
    <3>4. /\ Meet(a, b) \in Permission
          /\ Meet(a, b).unknown = TRUE
          /\ Covers(Meet(a, b), q, n) <=> Covers(b, q, n)
      BY <3>1, DoubtedCovers
    <3> QED
      BY <3>2, <3>3, <3>4
  <2> QED
    BY <2>1, <2>2
<1>3. CASE a.name = NoName /\ b.name # NoName
  <2>1. CASE Full(a)
    <3>1. Meet(a, b) = [b EXCEPT !.unknown = TRUE]
      BY <1>3, <2>1 DEF Meet
    <3> QED
      BY <1>0, <1>3, <2>1, <3>1, DoubtedCovers DEF Covers, Full
  <2>2. CASE ~Full(a)
    <3>1. Meet(a, b) = [a EXCEPT !.unknown = TRUE]
      BY <1>3, <2>2 DEF Meet
    <3>2. b.unknown = TRUE /\ (Covers(a, q, n) => Covers(b, q, n))
      BY <1>3 DEF Covers
    <3>3. (a.unknown \/ b.unknown) = TRUE
      BY <3>2
    <3>4. /\ Meet(a, b) \in Permission
          /\ Meet(a, b).unknown = TRUE
          /\ Covers(Meet(a, b), q, n) <=> Covers(a, q, n)
      BY <3>1, DoubtedCovers
    <3> QED
      BY <3>2, <3>3, <3>4
  <2> QED
    BY <2>1, <2>2
<1>4. CASE a.name # NoName /\ b.name # NoName
  <2>1. Meet(a, b) = [(IF b.name = a.name THEN a ELSE Every(a.protocol, TRUE)) EXCEPT !.unknown = TRUE]
    BY <1>4 DEF Meet
  <2> QED
    BY <1>0, <1>4, <2>1 DEF Covers, Every, Span
<1> QED
  BY <1>1, <1>2, <1>3, <1>4

(* intersectPermissions, the rule for the two sides of a pair: it calls     *)
(* known what both sides know, and possible what both call possible.        *)
THEOREM IntersectionIsExact ==
    ASSUME NEW left, NEW right,
           \A p \in left : WellFormed(p), \A p \in right : WellFormed(p),
           NEW q \in Protocols, NEW n \in Ports
    PROVE  /\ Certainly(IntersectPermissions(left, right), q, n) <=>
                Certainly(left, q, n) /\ Certainly(right, q, n)
           /\ Possibly(IntersectPermissions(left, right), q, n) <=>
                Possibly(left, q, n) /\ Possibly(right, q, n)
<1> DEFINE meets == {Meet(p[1], p[2]) : p \in {r \in left \X right : Overlap(r[1], r[2])}}
<1>1. \A m \in meets : \E a \in left, b \in right :
        /\ m \in Permission
        /\ ~m.unknown => ~a.unknown /\ ~b.unknown
        /\ Covers(m, q, n) => Covers(a, q, n) /\ Covers(b, q, n)
  <2> TAKE m \in meets
  <2>1. PICK a \in left, b \in right : Overlap(a, b) /\ m = Meet(a, b)
    OBVIOUS
  <2> QED
    BY <2>1, MeetIsCommon
<1>2. ASSUME NEW a \in left, NEW b \in right, Covers(a, q, n), Covers(b, q, n)
      PROVE  \E m \in meets : Covers(m, q, n) /\ m.unknown = (a.unknown \/ b.unknown)
  <2>1. Overlap(a, b)
    BY <1>2, PortBound DEF Covers, Overlap, WellFormed, Permission
  <2>2. /\ Meet(a, b).unknown = (a.unknown \/ b.unknown)
        /\ Covers(Meet(a, b), q, n)
    BY <1>2, <2>1, MeetIsCommon
  <2>3. Meet(a, b) \in meets
    <3>1. <<a, b>> \in {r \in left \X right : Overlap(r[1], r[2])}
      BY <2>1
    <3> QED
      BY <3>1
  <2> QED
    BY <2>2, <2>3
<1>3. meets \in SUBSET Permission
  BY <1>1
<1>4. /\ Certainly(Canonical(meets), q, n) <=> Certainly(meets, q, n)
      /\ Possibly(Canonical(meets), q, n) <=> Possibly(meets, q, n)
  BY <1>3, CanonicalIsExact
<1>5. IntersectPermissions(left, right) = Canonical(meets)
  BY DEF IntersectPermissions
<1> HIDE DEF meets
<1>6. Certainly(meets, q, n) <=> Certainly(left, q, n) /\ Certainly(right, q, n)
  BY <1>1, <1>2 DEF Certainly
<1>7. Possibly(meets, q, n) <=> Possibly(left, q, n) /\ Possibly(right, q, n)
  BY <1>1, <1>2 DEF Possibly
<1> QED
  BY <1>4, <1>5, <1>6, <1>7

-----------------------------------------------------------------------------
(* subtractPermission: one permission that is denied.  What stays known    *)
(* was known and cannot be denied, and everything that was known and       *)
(* cannot be denied stays; what stays possible was possible and is not     *)
(* denied for certain, and all of that stays.                              *)
THEOREM SubtractionIsExact ==
    ASSUME NEW a, NEW d, WellFormed(a), WellFormed(d),
           NEW q \in Protocols, NEW n \in Ports
    PROVE  LET left == SubtractPermission(a, d)
               known == ~a.unknown /\ Covers(a, q, n)
               denied == ~d.unknown /\ Covers(d, q, n)
           IN  /\ Certainly(left, q, n) => known /\ ~Covers(d, q, n)
               /\ known /\ ~Covers(d, q, n) => Certainly(left, q, n)
               /\ Possibly(left, q, n) => Covers(a, q, n) /\ ~denied
               /\ Covers(a, q, n) /\ ~denied => Possibly(left, q, n)
               /\ left \in SUBSET Permission
<1> USE PortBound DEF WellFormed, Permission, Numeric
<1>1. CASE a.protocol # d.protocol
  <2>1. SubtractPermission(a, d) = {a}
    BY <1>1 DEF SubtractPermission
  <2> QED
    BY <1>1, <2>1 DEF Certainly, Possibly, Covers
<1>2. CASE a.protocol = d.protocol /\ d.name # NoName
  <2>1. SubtractPermission(a, d) = {[a EXCEPT !.unknown = TRUE]}
    BY <1>2 DEF SubtractPermission
  <2>2. d.unknown /\ (Covers(a, q, n) => Covers(d, q, n))
    BY <1>2 DEF Covers
  <2> QED
    BY <2>1, <2>2, DoubtedCovers DEF Certainly, Possibly
<1>3. CASE a.protocol = d.protocol /\ d.name = NoName /\ (d.hi < a.lo \/ a.hi < d.lo)
  <2>1. SubtractPermission(a, d) = {a}
    BY <1>3 DEF SubtractPermission
  <2> QED
    BY <1>3, <2>1 DEF Certainly, Possibly, Covers
<1>4. CASE /\ a.protocol = d.protocol /\ d.name = NoName /\ ~(d.hi < a.lo \/ a.hi < d.lo)
           /\ d.unknown /\ (a.unknown \/ (d.lo <= a.lo /\ a.hi <= d.hi))
  <2>1. SubtractPermission(a, d) = {[a EXCEPT !.unknown = TRUE]}
    BY <1>4 DEF SubtractPermission
  <2>2. d.unknown /\ (~a.unknown /\ Covers(a, q, n) => Covers(d, q, n))
    BY <1>4 DEF Covers
  <2> QED
    BY <2>1, <2>2, DoubtedCovers DEF Certainly, Possibly
<1>5. CASE /\ a.protocol = d.protocol /\ d.name = NoName /\ ~(d.hi < a.lo \/ a.hi < d.lo)
           /\ ~(d.unknown /\ (a.unknown \/ (d.lo <= a.lo /\ a.hi <= d.hi)))
  <2> DEFINE before == Span(a.protocol, a.lo, d.lo - 1, a.unknown)
             within == Span(a.protocol, Larger(a.lo, d.lo), Smaller(a.hi, d.hi), TRUE)
             after == Span(a.protocol, d.hi + 1, a.hi, a.unknown)
  <2>1. SubtractPermission(a, d) = OnlyIf(d.lo > a.lo, before) \union OnlyIf(d.unknown, within)
                                   \union OnlyIf(d.hi < a.hi, after)
    BY <1>5 DEF SubtractPermission
  <2>2. \A p : p \in SubtractPermission(a, d) <=>
                 \/ d.lo > a.lo /\ p = before
                 \/ d.unknown /\ p = within
                 \/ d.hi < a.hi /\ p = after
    BY <2>1 DEF OnlyIf
  <2>3. /\ d.lo > a.lo => before \in Permission
        /\ within \in Permission
        /\ d.hi < a.hi => after \in Permission
    BY <1>5 DEF Span, Larger, Smaller
  <2>4. /\ Covers(before, q, n) <=> Covers(a, q, n) /\ n < d.lo
        /\ Covers(within, q, n) <=> Covers(a, q, n) /\ Covers(d, q, n)
        /\ Covers(after, q, n) <=> Covers(a, q, n) /\ n > d.hi
    BY <1>5 DEF Covers, Span, Larger, Smaller
  <2>5. before.unknown = a.unknown /\ within.unknown = TRUE /\ after.unknown = a.unknown
    BY DEF Span
  <2>6. Covers(a, q, n) => (Covers(d, q, n) <=> d.lo <= n /\ n <= d.hi)
    BY <1>5 DEF Covers
  <2>7. Covers(a, q, n) => a.lo <= n /\ n <= a.hi
    BY DEF Covers
  <2> HIDE DEF before, within, after
  <2> QED
    BY <1>5, <2>2, <2>3, <2>4, <2>5, <2>6, <2>7 DEF Certainly, Possibly
<1> QED
  BY <1>1, <1>2, <1>3, <1>4, <1>5

-----------------------------------------------------------------------------
(* What the evaluator makes of such permissions are such permissions, so   *)
(* the theorems above apply to whatever it computes.                       *)
LEMMA CanonicalIsWellFormed ==
    ASSUME NEW list, \A p \in list : WellFormed(p)
    PROVE  \A p \in Canonical(list) : WellFormed(p)
<1> USE PortBound
<1> DEFINE of(protocol) == {p \in list : p.protocol = protocol}
<1>1. ASSUME NEW protocol \in Protocols,
             NEW m \in MergeProtocolPermissions(protocol, of(protocol))
      PROVE  WellFormed(m)
  <2> DEFINE known == {p \in of(protocol) : ~p.unknown}
             merged == {Span(protocol, run[1], run[2], FALSE) : run \in Runs(known)}
  <2>1. m = Every(protocol, FALSE) \/ m \in merged \/ m \in of(protocol)
    BY <1>1 DEF MergeProtocolPermissions
  <2>2. CASE m = Every(protocol, FALSE)
    BY <2>2 DEF Every, Span, WellFormed, Permission, Numeric
  <2>3. CASE m \in merged
    <3>1. PICK run \in Runs(known) : m = Span(protocol, run[1], run[2], FALSE)
      BY <2>3
    <3>2. run[1] \in Ports /\ run[2] \in Ports /\ run[1] <= run[2]
      BY DEF Runs
    <3> QED
      BY <3>1, <3>2 DEF Span, WellFormed, Permission, Numeric
  <2> QED
    BY <2>1, <2>2, <2>3
<1> QED
  BY <1>1 DEF Canonical

THEOREM ListsStayWellFormed ==
    ASSUME NEW left, NEW right,
           \A p \in left : WellFormed(p), \A p \in right : WellFormed(p)
    PROVE  /\ \A p \in Canonical(left) : WellFormed(p)
           /\ \A p \in IntersectPermissions(left, right) : WellFormed(p)
           /\ \A d \in right : \A p \in SubtractFromEach(left, d) : WellFormed(p)
<1> USE PortBound
<1>1. \A p \in Canonical(left) : WellFormed(p)
  BY CanonicalIsWellFormed
<1>2. \A p \in IntersectPermissions(left, right) : WellFormed(p)
  <2> DEFINE meets == {Meet(p[1], p[2]) : p \in {r \in left \X right : Overlap(r[1], r[2])}}
  <2>1. ASSUME NEW a \in left, NEW b \in right, Overlap(a, b)
        PROVE  WellFormed(Meet(a, b))
    <3>1. WellFormed(a) /\ WellFormed(b)
      OBVIOUS
    <3>2. CASE Numeric(a) /\ Numeric(b)
      BY <2>1, <3>1, <3>2 DEF Meet, Overlap, Span, Larger, Smaller, WellFormed, Permission, Numeric
    <3>3. CASE ~(Numeric(a) /\ Numeric(b))
      <4>1. \E m \in {a, b, Every(a.protocol, TRUE)} : WellFormed(m) /\ Meet(a, b) = [m EXCEPT !.unknown = TRUE]
        <5>1. WellFormed(Every(a.protocol, TRUE))
          BY <3>1 DEF Every, Span, WellFormed, Permission, Numeric
        <5> QED
          BY <3>1, <3>3, <5>1 DEF Meet
      <4> QED
        BY <4>1 DEF WellFormed, Permission, Numeric
    <3> QED
      BY <3>2, <3>3
  <2>2. \A m \in meets : WellFormed(m)
    BY <2>1
  <2> QED
    BY <2>2, CanonicalIsWellFormed DEF IntersectPermissions
<1>3. ASSUME NEW d \in right, NEW a \in left, NEW p \in SubtractPermission(a, d)
      PROVE  WellFormed(p)
  <2>1. WellFormed(a) /\ WellFormed(d)
    OBVIOUS
  <2>2. CASE p = a \/ p = [a EXCEPT !.unknown = TRUE]
    BY <2>1, <2>2 DEF WellFormed, Permission, Numeric
  <2>3. CASE /\ p # a /\ p # [a EXCEPT !.unknown = TRUE]
    <3>1. ~(d.hi < a.lo \/ a.hi < d.lo)
      BY <1>3, <2>3 DEF SubtractPermission
    <3>2. \/ d.lo > a.lo /\ p = Span(a.protocol, a.lo, d.lo - 1, a.unknown \/ ~Numeric(a))
          \/ p = Span(a.protocol, Larger(a.lo, d.lo), Smaller(a.hi, d.hi), TRUE)
          \/ d.hi < a.hi /\ p = Span(a.protocol, d.hi + 1, a.hi, a.unknown \/ ~Numeric(a))
      BY <1>3, <2>3 DEF SubtractPermission, OnlyIf
    <3>3. (a.unknown \/ ~Numeric(a)) = a.unknown
      BY <2>1 DEF WellFormed, Permission
    <3> DEFINE unknown == a.unknown \/ ~Numeric(a)
    <3>4. /\ a.protocol \in Protocols /\ a.lo \in Ports /\ a.hi \in Ports /\ d.lo \in Ports /\ d.hi \in Ports
          /\ a.lo <= a.hi /\ d.lo <= d.hi /\ unknown \in BOOLEAN
      BY <2>1, <3>3 DEF WellFormed, Permission
    <3>5. PICK lo \in Ports, hi \in Ports, doubt \in BOOLEAN :
             lo <= hi /\ p = Span(a.protocol, lo, hi, doubt)
      <4> HIDE DEF unknown
      <4>1. CASE d.lo > a.lo /\ p = Span(a.protocol, a.lo, d.lo - 1, unknown)
        <5>1. d.lo - 1 \in Ports /\ a.lo <= d.lo - 1
          BY <3>4, <4>1
        <5> QED
          BY <3>4, <4>1, <5>1
      <4>2. CASE p = Span(a.protocol, Larger(a.lo, d.lo), Smaller(a.hi, d.hi), TRUE)
        <5>1. /\ Larger(a.lo, d.lo) \in Ports /\ Smaller(a.hi, d.hi) \in Ports
              /\ Larger(a.lo, d.lo) <= Smaller(a.hi, d.hi)
          BY <3>1, <3>4 DEF Larger, Smaller
        <5> QED
          BY <4>2, <5>1
      <4>3. CASE d.hi < a.hi /\ p = Span(a.protocol, d.hi + 1, a.hi, unknown)
        <5>1. d.hi + 1 \in Ports /\ d.hi + 1 <= a.hi
          BY <3>4, <4>3
        <5> QED
          BY <3>4, <4>3, <5>1
      <4> QED
        BY <3>2, <4>1, <4>2, <4>3 DEF unknown
    <3> QED
      BY <3>4, <3>5 DEF Span, WellFormed, Permission, Numeric
  <2> QED
    BY <2>2, <2>3
<1> QED
  BY <1>1, <1>2, <1>3 DEF SubtractFromEach

-----------------------------------------------------------------------------
(* subtractPermissions takes one denied permission after the other.  The   *)
(* fold that says so is a function of the subsets of the denied, built up  *)
(* by their size.                                                          *)
IsSubtracted(f, k, allowed, denied) ==
    f = [s \in {t \in SUBSET denied : Cardinality(t) <= k} |->
            IF s = {} THEN allowed
            ELSE LET d == CHOOSE d \in s : TRUE IN SubtractFromEach(f[s \ {d}], d)]

LEMMA SubtractedExists ==
    ASSUME NEW allowed, NEW denied, IsFiniteSet(denied)
    PROVE  \A k \in Nat : \E f : IsSubtracted(f, k, allowed, denied)
<1> DEFINE upTo(k) == {t \in SUBSET denied : Cardinality(t) <= k}
           one(s) == CHOOSE d \in s : TRUE
           step(f, s) == IF s = {} THEN allowed ELSE SubtractFromEach(f[s \ {one(s)}], one(s))
           T == {k \in Nat : \E f : f = [s \in upTo(k) |-> step(f, s)]}
<1>1. \A s \in SUBSET denied : IsFiniteSet(s) /\ Cardinality(s) \in Nat
  BY FS_Subset, FS_CardinalityType
<1>2. \A s \in SUBSET denied : s # {} =>
        one(s) \in s /\ s \ {one(s)} \in SUBSET denied /\ Cardinality(s \ {one(s)}) = Cardinality(s) - 1
  <2> SUFFICES ASSUME NEW s \in SUBSET denied, s # {}
               PROVE  one(s) \in s /\ s \ {one(s)} \in SUBSET denied /\ Cardinality(s \ {one(s)}) = Cardinality(s) - 1
    OBVIOUS
  <2>1. one(s) \in s
    OBVIOUS
  <2> HIDE DEF one
  <2>2. Cardinality(s \ {one(s)}) = Cardinality(s) - 1
    BY <1>1, <2>1, FS_RemoveElement
  <2> QED
    BY <2>1, <2>2
<1>3. 0 \in T
  <2> DEFINE f == [s \in upTo(0) |-> allowed]
  <2>1. \A s \in upTo(0) : s = {}
    BY <1>1, FS_EmptySet
  <2>2. f = [s \in upTo(0) |-> step(f, s)]
    BY <2>1
  <2> QED
    BY <2>2
<1>4. ASSUME NEW k \in Nat, k \in T
      PROVE  k + 1 \in T
  <2>1. PICK f : f = [s \in upTo(k) |-> step(f, s)]
    BY <1>4
  <2> DEFINE g == [s \in upTo(k + 1) |-> step(f, s)]
  <2>2. \A s \in upTo(k) : g[s] = f[s]
    <3> TAKE s \in upTo(k)
    <3>1. s \in upTo(k + 1)
      BY <1>1
    <3>2. f[s] = step(f, s)
      BY <2>1
    <3> HIDE DEF step, upTo
    <3> QED
      BY <3>1, <3>2
  <2>3. \A s \in upTo(k + 1) : step(f, s) = step(g, s)
    <3> TAKE s \in upTo(k + 1)
    <3>1. CASE s = {}
      BY <3>1
    <3>2. CASE s # {}
      <4>1. s \ {one(s)} \in upTo(k)
        BY <1>1, <1>2, <3>2
      <4>2. g[s \ {one(s)}] = f[s \ {one(s)}]
        BY <2>2, <4>1
      <4> HIDE DEF g, one, upTo
      <4> QED
        BY <4>2
    <3> QED
      BY <3>1, <3>2
  <2>4. g = [s \in upTo(k + 1) |-> step(g, s)]
    <3> HIDE DEF step, upTo
    <3> QED
      BY <2>3
  <2> HIDE DEF g, step, upTo
  <2> QED
    BY <2>4
<1>5. Nat \subseteq T
  <2> HIDE DEF T
  <2> QED
    BY <1>3, <1>4, Induction
<1> QED
  BY <1>5 DEF IsSubtracted

LEMMA SubtractFromEachIsExact ==
    ASSUME NEW list, NEW d, \A p \in list : WellFormed(p), WellFormed(d),
           NEW q \in Protocols, NEW n \in Ports
    PROVE  /\ \A p \in SubtractFromEach(list, d) : WellFormed(p)
           /\ Certainly(SubtractFromEach(list, d), q, n) <=> Certainly(list, q, n) /\ ~Covers(d, q, n)
           /\ Possibly(SubtractFromEach(list, d), q, n) <=>
                Possibly(list, q, n) /\ ~(~d.unknown /\ Covers(d, q, n))
<1>1. \A p \in SubtractFromEach(list, d) : WellFormed(p)
  <2>1. \A e \in {d} : WellFormed(e)
    OBVIOUS
  <2> QED
    BY <2>1, ListsStayWellFormed
<1>2. Certainly(SubtractFromEach(list, d), q, n) <=> \E a \in list : Certainly(SubtractPermission(a, d), q, n)
  BY DEF SubtractFromEach, Certainly
<1>3. Possibly(SubtractFromEach(list, d), q, n) <=> \E a \in list : Possibly(SubtractPermission(a, d), q, n)
  BY DEF SubtractFromEach, Possibly
<1>4. \A a \in list :
        /\ Certainly(SubtractPermission(a, d), q, n) <=> ~a.unknown /\ Covers(a, q, n) /\ ~Covers(d, q, n)
        /\ Possibly(SubtractPermission(a, d), q, n) <=> Covers(a, q, n) /\ ~(~d.unknown /\ Covers(d, q, n))
  BY SubtractionIsExact
<1> QED
  BY <1>1, <1>2, <1>3, <1>4 DEF Certainly, Possibly

(* subtractPermissions, for any number of permissions that are denied: it  *)
(* leaves known what was known and cannot be denied, and possible what was *)
(* possible and is not denied for certain.                                 *)
THEOREM SubtractPermissionsIsExact ==
    ASSUME NEW allowed, NEW denied, IsFiniteSet(denied),
           \A p \in allowed : WellFormed(p), \A p \in denied : WellFormed(p)
    PROVE  /\ \A p \in SubtractPermissions(allowed, denied) : WellFormed(p)
           /\ \A q \in Protocols, n \in Ports :
                /\ Certainly(SubtractPermissions(allowed, denied), q, n) <=>
                     Certainly(allowed, q, n) /\ ~Possibly(denied, q, n)
                /\ Possibly(SubtractPermissions(allowed, denied), q, n) <=>
                     Possibly(allowed, q, n) /\ ~Certainly(denied, q, n)
<1> DEFINE size == Cardinality(denied)
           good(list, s) ==
             /\ \A p \in list : WellFormed(p)
             /\ \A q \in Protocols, n \in Ports :
                  /\ Certainly(list, q, n) <=> Certainly(allowed, q, n) /\ ~Possibly(s, q, n)
                  /\ Possibly(list, q, n) <=> Possibly(allowed, q, n) /\ ~Certainly(s, q, n)
           iter == CHOOSE iter : iter = [s \in SUBSET denied |->
                     IF s = {} THEN allowed
                     ELSE LET d == CHOOSE d \in s : TRUE IN SubtractFromEach(iter[s \ {d}], d)]
<1>1. SubtractPermissions(allowed, denied) = Canonical(iter[denied])
  BY DEF SubtractPermissions, FoldSet, MapThenFoldSet
<1>2. /\ size \in Nat
      /\ \A s \in SUBSET denied : IsFiniteSet(s) /\ Cardinality(s) \in Nat /\ Cardinality(s) <= size
  BY FS_Subset, FS_CardinalityType
<1>3. {t \in SUBSET denied : Cardinality(t) <= size} = SUBSET denied
  BY <1>2
<1>4. iter = [s \in SUBSET denied |->
                IF s = {} THEN allowed
                ELSE LET d == CHOOSE d \in s : TRUE IN SubtractFromEach(iter[s \ {d}], d)]
  <2>1. PICK f : IsSubtracted(f, size, allowed, denied)
    BY <1>2, SubtractedExists
  <2>2. f = [s \in SUBSET denied |->
                IF s = {} THEN allowed
                ELSE LET d == CHOOSE d \in s : TRUE IN SubtractFromEach(f[s \ {d}], d)]
    BY <1>3, <2>1 DEF IsSubtracted
  <2> QED
    BY <2>2
<1> HIDE DEF iter
<1> DEFINE T == {k \in Nat : \A s \in SUBSET denied : Cardinality(s) = k => good(iter[s], s)}
<1>5. 0 \in T
  <2>1. iter[{}] = allowed
    BY <1>4
  <2>2. good(allowed, {})
    BY DEF Certainly, Possibly
  <2>3. \A s \in SUBSET denied : Cardinality(s) = 0 => s = {}
    BY <1>2, FS_EmptySet
  <2> HIDE DEF good
  <2> QED
    BY <2>1, <2>2, <2>3
<1>6. ASSUME NEW k \in Nat, k \in T
      PROVE  k + 1 \in T
  <2> SUFFICES ASSUME NEW s \in SUBSET denied, Cardinality(s) = k + 1
               PROVE  good(iter[s], s)
    OBVIOUS
  <2> DEFINE d == CHOOSE d \in s : TRUE
             rest == s \ {d}
  <2>1. s # {}
    BY FS_EmptySet
  <2>2. d \in s
    BY <2>1
  <2>3. iter[s] = SubtractFromEach(iter[rest], d)
    BY <1>4, <2>1
  <2> HIDE DEF d
  <2>4. Cardinality(rest) = k /\ rest \in SUBSET denied
    <3>1. IsFiniteSet(s)
      BY <1>2
    <3>2. Cardinality(s \ {d}) = Cardinality(s) - 1
      BY <2>2, <3>1, FS_RemoveElement
    <3> QED
      BY <3>2
  <2>5. good(iter[rest], rest)
    BY <1>6, <2>4
  <2>6. \A q \in Protocols, n \in Ports :
          /\ Possibly(s, q, n) <=> Possibly(rest, q, n) \/ Covers(d, q, n)
          /\ Certainly(s, q, n) <=> Certainly(rest, q, n) \/ (~d.unknown /\ Covers(d, q, n))
    BY <2>2 DEF Possibly, Certainly
  <2>7. WellFormed(d)
    BY <2>2
  <2> HIDE DEF rest
  <2>8. \A q \in Protocols, n \in Ports :
          /\ Certainly(iter[s], q, n) <=> Certainly(iter[rest], q, n) /\ ~Covers(d, q, n)
          /\ Possibly(iter[s], q, n) <=> Possibly(iter[rest], q, n) /\ ~(~d.unknown /\ Covers(d, q, n))
    BY <2>3, <2>5, <2>7, SubtractFromEachIsExact
  <2>9. \A p \in iter[s] : WellFormed(p)
    <3>1. \A e \in {d} : WellFormed(e)
      BY <2>7
    <3> QED
      BY <2>3, <2>5, <3>1, ListsStayWellFormed
  <2> QED
    BY <2>5, <2>6, <2>8, <2>9
<1>7. Nat \subseteq T
  <2> HIDE DEF T
  <2> QED
    BY <1>5, <1>6, Induction
<1>8. good(iter[denied], denied)
  <2> HIDE DEF good
  <2> QED
    BY <1>2, <1>7
<1>9. iter[denied] \in SUBSET Permission
  BY <1>8 DEF WellFormed
<1>10. \A p \in Canonical(iter[denied]) : WellFormed(p)
  BY <1>8, CanonicalIsWellFormed
<1> QED
  BY <1>1, <1>8, <1>9, <1>10, CanonicalIsExact

-----------------------------------------------------------------------------
(* Powers of two.                                                          *)
LEMMA PowerIsNat == \A k \in Nat : 2 ^ k \in Nat
<1> TAKE k \in Nat
<1>1. IsFiniteSet(1..k) /\ Cardinality(1..k) = k
  BY FS_Interval
<1>2. IsFiniteSet(SUBSET (1..k)) /\ Cardinality(SUBSET (1..k)) = 2 ^ Cardinality(1..k)
  BY <1>1, FS_SUBSET
<1>3. Cardinality(SUBSET (1..k)) \in Nat
  BY <1>2, FS_CardinalityType
<1> QED
  BY <1>1, <1>2, <1>3

LEMMA PowerDoubles == \A k \in Nat : 2 ^ (k + 1) = 2 * 2 ^ k
<1> TAKE k \in Nat
<1> DEFINE without == SUBSET (1..k)
           with == {s \union {k + 1} : s \in without}
           f == [s \in without |-> s \union {k + 1}]
<1>1. /\ IsFiniteSet(1..k) /\ Cardinality(1..k) = k
      /\ IsFiniteSet(1..(k + 1)) /\ Cardinality(1..(k + 1)) = k + 1
  BY FS_Interval
<1>2. IsFiniteSet(without) /\ Cardinality(without) = 2 ^ k
  BY <1>1, FS_SUBSET
<1>3. Cardinality(SUBSET (1..(k + 1))) = 2 ^ (k + 1)
  BY <1>1, FS_SUBSET
<1>4. SUBSET (1..(k + 1)) = without \union with
  <2>1. 1..(k + 1) = (1..k) \union {k + 1} /\ k + 1 \notin 1..k
    OBVIOUS
  <2>2. \A s \in SUBSET (1..(k + 1)) : k + 1 \in s => s \ {k + 1} \in without /\ s = (s \ {k + 1}) \union {k + 1}
    BY <2>1
  <2>3. \A s \in SUBSET (1..(k + 1)) : k + 1 \notin s => s \in without
    BY <2>1
  <2>4. \A s \in without : s \in SUBSET (1..(k + 1)) /\ s \union {k + 1} \in SUBSET (1..(k + 1))
    BY <2>1
  <2>5. \A u : u \in with <=> \E s \in without : u = s \union {k + 1}
    OBVIOUS
  <2> HIDE DEF with, without
  <2>6. SUBSET (1..(k + 1)) \subseteq without \union with
    BY <2>2, <2>3, <2>5
  <2>7. without \union with \subseteq SUBSET (1..(k + 1))
    BY <2>4, <2>5
  <2> QED
    BY <2>6, <2>7
<1>5. f \in Bijection(without, with)
  <2>1. \A s \in without : k + 1 \notin s
    OBVIOUS
  <2>2. \A s, t \in without : f[s] = f[t] => s = t
    <3> TAKE s, t \in without
    <3> SUFFICES ASSUME f[s] = f[t] PROVE s = t
      OBVIOUS
    <3>1. s = f[s] \ {k + 1} /\ t = f[t] \ {k + 1}
      BY <2>1
    <3> QED
      BY <3>1
  <2>3. f \in [without -> with] /\ \A u \in with : \E s \in without : f[s] = u
    OBVIOUS
  <2> HIDE DEF f, with, without
  <2> QED
    BY <2>2, <2>3 DEF Bijection, Injection, Surjection, IsInjective
<1> HIDE DEF f, with
<1>6. IsFiniteSet(with) /\ Cardinality(with) = Cardinality(without)
  <2> HIDE DEF without
  <2>1. ExistsBijection(without, with)
    BY <1>5 DEF ExistsBijection
  <2> QED
    BY <1>2, <2>1, FS_Bijection
<1>7. without \intersect with = {}
  <2>1. \A s \in without : k + 1 \notin s
    OBVIOUS
  <2>2. \A s \in with : k + 1 \in s
    BY DEF with
  <2> QED
    BY <2>1, <2>2
<1>8. Cardinality({}) = 0
  BY FS_EmptySet
<1> HIDE DEF without
<1>9. Cardinality(without \union with) = Cardinality(without) + Cardinality(with) - 0
  BY <1>2, <1>6, <1>7, <1>8, FS_Union
<1>10. 2 ^ k \in Nat
  BY PowerIsNat
<1> QED
  BY <1>2, <1>3, <1>4, <1>6, <1>9, <1>10

LEMMA PowerIsPositive == \A k \in Nat : 2 ^ k \in Nat /\ 2 ^ k # 0
<1> DEFINE S == {k \in Nat : 2 ^ k # 0}
<1>1. 0 \in S
  <2>1. 2 ^ 0 = 1
    OBVIOUS
  <2> QED
    BY <2>1
<1>2. \A k \in Nat : k \in S => k + 1 \in S
  <2> TAKE k \in Nat
  <2>1. 2 ^ (k + 1) = 2 * 2 ^ k /\ 2 ^ k \in Nat
    BY PowerDoubles, PowerIsNat
  <2> QED
    BY <2>1
<1>3. Nat \subseteq S
  <2> HIDE DEF S
  <2> QED
    BY <1>1, <1>2, Induction
<1> QED
  BY <1>3, PowerIsNat

LEMMA PowerAdds == \A i, k \in Nat : 2 ^ (i + k) = 2 ^ i * 2 ^ k
<1> TAKE i \in Nat
<1> DEFINE S == {k \in Nat : 2 ^ (i + k) = 2 ^ i * 2 ^ k}
<1>1. 0 \in S
  <2>1. 2 ^ 0 = 1 /\ i + 0 = i /\ 2 ^ i \in Nat
    BY PowerIsNat
  <2>2. 2 ^ i * 1 = 2 ^ i
    BY <2>1
  <2> QED
    BY <2>1, <2>2
<1>2. \A k \in Nat : k \in S => k + 1 \in S
  <2> TAKE k \in Nat
  <2> SUFFICES ASSUME 2 ^ (i + k) = 2 ^ i * 2 ^ k PROVE 2 ^ (i + (k + 1)) = 2 ^ i * 2 ^ (k + 1)
    OBVIOUS
  <2>1. 2 ^ (k + 1) = 2 * 2 ^ k /\ 2 ^ i \in Nat /\ 2 ^ k \in Nat
    BY PowerDoubles, PowerIsNat
  <2>2. i + (k + 1) = (i + k) + 1 /\ i + k \in Nat
    OBVIOUS
  <2>3. 2 ^ ((i + k) + 1) = 2 * 2 ^ (i + k)
    BY <2>2, PowerDoubles
  <2> DEFINE a == 2 ^ i
             b == 2 ^ k
  <2>4. a \in Nat /\ b \in Nat
    BY <2>1
  <2> HIDE DEF a, b
  <2>5. 2 * (a * b) = a * (2 * b)
    BY <2>4
  <2> QED
    BY <2>1, <2>2, <2>3, <2>5 DEF a, b
<1>3. Nat \subseteq S
  <2> HIDE DEF S
  <2> QED
    BY <1>1, <1>2, Induction
<1> QED
  BY <1>3

-----------------------------------------------------------------------------
(* Multiples.                                                              *)
LEMMA Division ==
    ASSUME NEW s \in Nat \ {0}, NEW n \in Nat
    PROVE  \E q \in Nat : s * q \in Nat /\ n % s \in 0..(s - 1) /\ n = s * q + (n % s)
<1> DEFINE q == n \div s
<1>1. q \in Nat /\ n % s \in 0..(s - 1) /\ n = s * q + (n % s)
  OBVIOUS
<1> HIDE DEF q
<1>2. s * q \in Nat
  BY <1>1
<1> QED
  BY <1>1, <1>2

LEMMA MultiplesAreApart ==
    ASSUME NEW s \in Nat \ {0}, NEW q \in Nat, NEW r \in Nat
    PROVE  /\ s * q \in Nat /\ s * r \in Nat
           /\ q < r => s * q + s <= s * r
           /\ s * q < s * r => q < r
           /\ (s * q) % s = 0
<1>1. s * q \in Nat /\ s * r \in Nat
  OBVIOUS
<1>2. q < r => s * q + s <= s * r
  OBVIOUS
<1>3. s * q < s * r => q < r
  OBVIOUS
<1>4. (s * q) % s = 0
  OBVIOUS
<1> QED
  BY <1>1, <1>2, <1>3, <1>4

-----------------------------------------------------------------------------
(* A prefix is an aligned interval.                                        *)
SizeOf(p) == Size(p.family, p.bits)
Spans(p, n) == p.addr <= n /\ n < p.addr + SizeOf(p)

LEMMA PrefixIs ==
    ASSUME NEW p \in Prefix
    PROVE  /\ p.family \in Families /\ Width[p.family] \in Nat
           /\ p.bits \in Nat /\ p.bits <= Width[p.family]
           /\ p.addr \in Nat /\ p.addr < 2 ^ Width[p.family]
           /\ SizeOf(p) \in Nat \ {0}
           /\ p.addr % SizeOf(p) = 0
<1>1. PICK f \in Families : /\ p \in [family : {f}, addr : 0..(2 ^ Width[f] - 1), bits : 0..Width[f]]
                            /\ p.addr % Size(f, p.bits) = 0
  BY DEF Prefix
<1>2. Width[f] \in Nat
  BY WidthAssumption
<1> DEFINE top == 2 ^ Width[f]
<1>3. top \in Nat
  BY <1>2, PowerIsNat
<1>4. p.family = f /\ p.addr \in 0..(top - 1) /\ p.bits \in 0..Width[f]
  BY <1>1
<1>5. SizeOf(p) \in Nat \ {0}
  <2>1. Width[f] - p.bits \in Nat
    BY <1>2, <1>4
  <2> QED
    BY <1>4, <2>1, PowerIsPositive DEF SizeOf, Size
<1>6. p.addr % SizeOf(p) = 0
  BY <1>1, <1>4 DEF SizeOf
<1> HIDE DEF top
<1>7. p.addr \in Nat /\ p.addr < top /\ p.bits \in Nat /\ p.bits <= Width[f]
  BY <1>2, <1>3, <1>4
<1> QED
  BY <1>2, <1>4, <1>5, <1>6, <1>7 DEF top

(* The start of a prefix is a multiple of its size.                        *)
LEMMA PrefixIsAligned ==
    ASSUME NEW p \in Prefix
    PROVE  \E q \in Nat : p.addr = SizeOf(p) * q
<1> DEFINE s == SizeOf(p)
<1>1. s \in Nat \ {0} /\ p.addr \in Nat /\ p.addr % s = 0
  BY PrefixIs
<1> HIDE DEF s
<1>2. PICK q \in Nat : s * q \in Nat /\ p.addr = s * q + (p.addr % s)
  BY <1>1, Division
<1>3. p.addr = s * q
  BY <1>1, <1>2
<1> QED
  BY <1>3 DEF s

LEMMA ContainsIsSpans ==
    ASSUME NEW p \in Prefix, NEW a, a.addr \in Nat, a.family = p.family
    PROVE  PrefixContains(p, a) <=> Spans(p, a.addr)
<1> DEFINE s == SizeOf(p)
           n == a.addr
           start == p.addr
<1>1. s \in Nat \ {0} /\ start \in Nat /\ n \in Nat
  BY PrefixIs
<1>2. PrefixContains(p, a) <=> start = n - (n % s)
  BY DEF PrefixContains, SizeOf
<1>3. Spans(p, n) <=> start <= n /\ n < start + s
  BY DEF Spans
<1>4. PICK q \in Nat : start = s * q
  BY PrefixIsAligned
<1> HIDE DEF s, n, start
<1>5. PICK r \in Nat : s * r \in Nat /\ n % s \in 0..(s - 1) /\ n = s * r + (n % s)
  BY <1>1, Division
<1> DEFINE low == s * q
           mine == s * r
           rest == n % s
<1>6. /\ low \in Nat /\ mine \in Nat /\ start = low /\ rest \in 0..(s - 1) /\ n = mine + rest
  BY <1>1, <1>4, <1>5
<1>7. /\ q < r => low + s <= mine
      /\ r < q => mine + s <= low
      /\ q = r => low = mine
  BY <1>1, MultiplesAreApart
<1> HIDE DEF low, mine, rest
<1>8. start = n - rest <=> start <= n /\ n < start + s
  <2>1. start = n - rest <=> low = mine
    BY <1>6
  <2>2. low = mine => start <= n /\ n < start + s
    BY <1>1, <1>6
  <2>3. start <= n /\ n < start + s => ~(q < r) /\ ~(r < q)
    BY <1>1, <1>6, <1>7
  <2>4. ~(q < r) /\ ~(r < q) => q = r
    OBVIOUS
  <2> QED
    BY <1>7, <2>1, <2>2, <2>3, <2>4
<1> QED
  BY <1>2, <1>3, <1>8 DEF rest, n

(* Of two prefixes with an address in common the longer is inside.         *)
LEMMA PrefixesNest ==
    ASSUME NEW e \in Prefix, NEW p \in Prefix, e.family = p.family, e.bits <= p.bits,
           NEW n \in Nat, Spans(e, n), Spans(p, n)
    PROVE  e.addr <= p.addr /\ p.addr + SizeOf(p) <= e.addr + SizeOf(e)
<1> DEFINE s == SizeOf(p)
           wide == SizeOf(e)
<1>1. s \in Nat \ {0} /\ wide \in Nat \ {0}
  BY PrefixIs
<1>2. PICK m \in Nat : wide = s * m
  <2> DEFINE w == Width[p.family]
             i == w - p.bits
             k == p.bits - e.bits
  <2>1. w \in Nat /\ p.bits \in Nat /\ p.bits <= w /\ e.bits \in Nat
    BY PrefixIs
  <2>2. i \in Nat /\ k \in Nat /\ w - e.bits = i + k
    BY <2>1
  <2>3. s = 2 ^ i /\ wide = 2 ^ (w - e.bits)
    BY DEF SizeOf, Size
  <2> HIDE DEF i, k, w, s, wide
  <2>4. wide = s * 2 ^ k /\ 2 ^ k \in Nat
    BY <2>2, <2>3, PowerAdds, PowerIsNat
  <2> QED
    BY <2>4
<1>3. PICK q \in Nat : p.addr = s * q
  BY PrefixIsAligned
<1>4. PICK j \in Nat : e.addr = wide * j
  BY PrefixIsAligned
<1>5. e.addr <= n /\ n < e.addr + wide /\ p.addr <= n /\ n < p.addr + s
  BY DEF Spans
<1> HIDE DEF s, wide
<1> DEFINE first == m * j
           last == m * j + m
<1>6. first \in Nat /\ last \in Nat
  OBVIOUS
<1>7. e.addr = s * first /\ e.addr + wide = s * last
  BY <1>1, <1>2, <1>4
<1> HIDE DEF first, last
<1> DEFINE a == s * first
           b == s * last
           c == s * q
           d == s * (q + 1)
<1>8. a \in Nat /\ b \in Nat /\ c \in Nat /\ d \in Nat /\ d = c + s
  BY <1>1, <1>6
<1>9. (c < b => q < last) /\ (a < d => first < q + 1)
  BY <1>1, <1>6, MultiplesAreApart
<1>10. (q < last => c + s <= b) /\ (first < q => a + s <= c) /\ (first = q => a = c)
  BY <1>1, <1>6, MultiplesAreApart
<1> HIDE DEF a, b, c, d
<1>11. a <= n /\ n < b /\ c <= n /\ n < d
  BY <1>3, <1>5, <1>7, <1>8 DEF a, b, c
<1>12. q < last /\ first < q + 1
  BY <1>8, <1>9, <1>11
<1>13. first < q \/ first = q
  BY <1>6, <1>12
<1>14. c + s <= b /\ a <= c
  BY <1>1, <1>8, <1>10, <1>12, <1>13
<1> QED
  BY <1>3, <1>7, <1>14 DEF a, b, c, s, wide

(* A prefix ends within the addresses of its family.                       *)
LEMMA PrefixFits ==
    ASSUME NEW p \in Prefix
    PROVE  p.addr + SizeOf(p) <= 2 ^ Width[p.family]
<1> DEFINE f == p.family
           w == Width[f]
           s == SizeOf(p)
<1>1. /\ f \in Families /\ w \in Nat /\ p.bits \in Nat /\ p.bits <= w
      /\ p.addr \in Nat /\ p.addr < 2 ^ w /\ s \in Nat \ {0}
  BY PrefixIs
<1>2. PICK q \in Nat : p.addr = s * q
  BY PrefixIsAligned
<1> DEFINE count == 2 ^ p.bits
<1>3. count \in Nat /\ 2 ^ w = s * count
  <2>1. w - p.bits \in Nat /\ w = (w - p.bits) + p.bits
    BY <1>1
  <2>2. 2 ^ w = 2 ^ (w - p.bits) * 2 ^ p.bits
    BY <1>1, <2>1, PowerAdds
  <2> QED
    BY <1>1, <2>2, PowerIsNat DEF SizeOf, Size
<1> HIDE DEF count, s
<1>4. p.addr + s <= 2 ^ w
  <2> DEFINE a == s * q
             b == s * count
  <2>1. a \in Nat /\ b \in Nat /\ (a < b => q < count) /\ (q < count => a + s <= b)
    BY <1>1, <1>3, MultiplesAreApart
  <2> HIDE DEF a, b
  <2>2. p.addr = a /\ 2 ^ w = b
    BY <1>2, <1>3 DEF a, b
  <2> QED
    BY <1>1, <2>1, <2>2
<1> QED
  BY <1>4 DEF s

(* The halves of a prefix are prefixes, side by side.                      *)
LEMMA HalvesAre ==
    ASSUME NEW p \in Prefix, ~Single(p)
    PROVE  /\ LeftHalf(p) \in Prefix /\ RightHalf(p) \in Prefix
           /\ LeftHalf(p).family = p.family /\ RightHalf(p).family = p.family
           /\ LeftHalf(p).bits = p.bits + 1 /\ RightHalf(p).bits = p.bits + 1
           /\ \A n \in Nat : Spans(p, n) <=> Spans(LeftHalf(p), n) \/ Spans(RightHalf(p), n)
<1> DEFINE f == p.family
           w == Width[f]
           s == SizeOf(p)
           half == Size(f, p.bits + 1)
           left == LeftHalf(p)
           right == RightHalf(p)
<1>1. /\ f \in Families /\ w \in Nat /\ p.bits \in Nat /\ p.bits < w
      /\ p.addr \in Nat /\ p.addr < 2 ^ w /\ s \in Nat \ {0}
  BY PrefixIs DEF Single
<1>2. /\ left = [family |-> f, addr |-> p.addr, bits |-> p.bits + 1]
      /\ right = [family |-> f, addr |-> p.addr + half, bits |-> p.bits + 1]
  <2>1. p = [family |-> p.family, addr |-> p.addr, bits |-> p.bits]
    BY DEF Prefix
  <2> HIDE DEF half
  <2>2. left = [p EXCEPT !.bits = @ + 1] /\ right = [p EXCEPT !.bits = @ + 1, !.addr = @ + half]
    BY DEF LeftHalf, RightHalf, half
  <2> HIDE DEF left, right
  <2> QED
    BY <2>1, <2>2
<1>3. s = 2 * half /\ half \in Nat \ {0}
  <2> DEFINE k == w - (p.bits + 1)
  <2>1. k \in Nat /\ w - p.bits = k + 1
    BY <1>1
  <2>2. s = 2 ^ (w - p.bits) /\ half = 2 ^ k
    BY DEF SizeOf, Size
  <2> HIDE DEF k, w, s, half
  <2> QED
    BY <2>1, <2>2, PowerDoubles, PowerIsPositive
<1>4. PICK q \in Nat : p.addr = s * q
  BY PrefixIsAligned
<1> HIDE DEF s
<1>6. p.addr + s <= 2 ^ w
  BY PrefixFits DEF s
<1>7. p.addr % half = 0 /\ (p.addr + half) % half = 0
  <2>1. p.addr = half * (2 * q)
    BY <1>3, <1>4
  <2>2. p.addr + half = half * (2 * q + 1)
    BY <1>3, <2>1
  <2>3. (half * (2 * q)) % half = 0 /\ (half * (2 * q + 1)) % half = 0
    BY <1>3, MultiplesAreApart
  <2> QED
    BY <2>1, <2>2, <2>3
<1>8. left \in Prefix /\ right \in Prefix
  <2> DEFINE top == 2 ^ w
             bits == p.bits + 1
             next == p.addr + half
             set == {c \in [family : {f}, addr : 0..(2 ^ Width[f] - 1), bits : 0..Width[f]] :
                       c.addr % Size(f, c.bits) = 0}
  <2>1. top \in Nat
    BY <1>1, PowerIsNat
  <2>2. p.addr \in 0..(top - 1) /\ next \in 0..(top - 1) /\ bits \in 0..w
    <3> HIDE DEF top, w, half
    <3>1. p.addr + s <= top /\ p.addr < top
      BY <1>1, <1>6 DEF top
    <3> QED
      BY <1>1, <1>3, <2>1, <3>1
  <2>3. half = Size(f, bits)
    OBVIOUS
  <2>4. p.addr % half = 0 /\ next % half = 0
    BY <1>7
  <2>5. left = [family |-> f, addr |-> p.addr, bits |-> bits] /\ right = [family |-> f, addr |-> next, bits |-> bits]
    BY <1>2
  <2>6. p.addr \in 0..(2 ^ Width[f] - 1) /\ next \in 0..(2 ^ Width[f] - 1) /\ bits \in 0..Width[f]
    BY <2>2
  <2> HIDE DEF half, left, right, next, bits, f
  <2>7. left \in set /\ right \in set
    BY <2>3, <2>4, <2>5, <2>6
  <2>8. set \subseteq Prefix
    BY <1>1 DEF Prefix
  <2> HIDE DEF set
  <2> QED
    BY <2>7, <2>8
<1>9. SizeOf(left) = half /\ SizeOf(right) = half
  BY <1>2 DEF SizeOf
<1>10. \A n \in Nat : Spans(p, n) <=> Spans(left, n) \/ Spans(right, n)
  <2> TAKE n \in Nat
  <2>1. /\ Spans(p, n) <=> p.addr <= n /\ n < p.addr + s
        /\ Spans(left, n) <=> p.addr <= n /\ n < p.addr + half
        /\ Spans(right, n) <=> p.addr + half <= n /\ n < (p.addr + half) + half
    BY <1>2, <1>9 DEF Spans, s
  <2> DEFINE start == p.addr
  <2>2. start \in Nat
    BY <1>1
  <2> HIDE DEF half, start
  <2>3. /\ Spans(p, n) <=> start <= n /\ n < start + s
        /\ Spans(left, n) <=> start <= n /\ n < start + half
        /\ Spans(right, n) <=> start + half <= n /\ n < (start + half) + half
    BY <2>1 DEF start
  <2>4. (start <= n /\ n < start + s) <=>
          (start <= n /\ n < start + half) \/ (start + half <= n /\ n < (start + half) + half)
    BY <1>3, <2>2
  <2> QED
    BY <2>3, <2>4
<1> QED
  BY <1>2, <1>8, <1>10

-----------------------------------------------------------------------------
(* A function on prefixes by their halves.                                 *)
Halved(f, c, A, B, both) ==
    \/ c \in A
    \/ /\ c \in B /\ ~Single(c)
       /\ IF both THEN f[LeftHalf(c)] /\ f[RightHalf(c)] ELSE f[LeftHalf(c)] \/ f[RightHalf(c)]
IsHalved(f, A, B, both) == f = [c \in Prefix |-> Halved(f, c, A, B, both)]

Rank(c) == Width[c.family] - c.bits

LEMMA RankIs ==
    ASSUME NEW c \in Prefix
    PROVE  /\ Rank(c) \in Nat
           /\ Rank(c) = 0 <=> Single(c)
           /\ ~Single(c) => /\ LeftHalf(c) \in Prefix /\ RightHalf(c) \in Prefix
                            /\ Rank(LeftHalf(c)) = Rank(c) - 1 /\ Rank(RightHalf(c)) = Rank(c) - 1
<1>1. Width[c.family] \in Nat /\ c.bits \in Nat /\ c.bits <= Width[c.family]
  BY PrefixIs
<1>2. Rank(c) \in Nat /\ (Rank(c) = 0 <=> Single(c))
  BY <1>1 DEF Rank, Single
<1>3. ASSUME ~Single(c)
      PROVE  /\ LeftHalf(c) \in Prefix /\ RightHalf(c) \in Prefix
             /\ Rank(LeftHalf(c)) = Rank(c) - 1 /\ Rank(RightHalf(c)) = Rank(c) - 1
  <2>1. /\ LeftHalf(c) \in Prefix /\ RightHalf(c) \in Prefix
        /\ LeftHalf(c).family = c.family /\ RightHalf(c).family = c.family
        /\ LeftHalf(c).bits = c.bits + 1 /\ RightHalf(c).bits = c.bits + 1
    BY <1>3, HalvesAre
  <2> QED
    BY <1>1, <2>1 DEF Rank
<1> QED
  BY <1>2, <1>3

LEMMA WidthsAreBounded ==
    \E top \in Nat : \A f \in Families : Width[f] <= top
<1> DEFINE n == Cardinality(Families)
<1>1. n \in Nat /\ ExistsBijection(1..n, Families)
  BY WidthAssumption, FS_CardinalityType
<1>2. PICK g : g \in Bijection(1..n, Families)
  BY <1>1 DEF ExistsBijection
<1> HIDE DEF n
<1>3. (\A i \in 1..n : g[i] \in Families) /\ (\A f \in Families : \E i \in 1..n : g[i] = f)
  BY <1>2 DEF Bijection, Injection, Surjection
<1> DEFINE S == {k \in Nat : k <= n => \E top \in Nat : \A i \in 1..k : Width[g[i]] <= top}
<1>4. 0 \in S
  OBVIOUS
<1>5. \A k \in Nat : k \in S => k + 1 \in S
  <2> TAKE k \in Nat
  <2> SUFFICES ASSUME k \in S, k + 1 <= n
               PROVE  \E top \in Nat : \A i \in 1..(k + 1) : Width[g[i]] <= top
    OBVIOUS
  <2>0. k <= n
    BY <1>1
  <2>1. PICK top \in Nat : \A i \in 1..k : Width[g[i]] <= top
    BY <2>0
  <2> DEFINE last == Width[g[k + 1]]
             next == IF last > top THEN last ELSE top
  <2>2. \A i \in 1..(k + 1) : Width[g[i]] \in Nat
    BY <1>1, <1>3, WidthAssumption
  <2>3. last \in Nat
    BY <2>2
  <2>4. \A i \in 1..(k + 1) : i \in 1..k \/ Width[g[i]] = last
    OBVIOUS
  <2> HIDE DEF last
  <2>5. \A i \in 1..(k + 1) : Width[g[i]] <= next
    BY <2>1, <2>2, <2>3, <2>4
  <2> QED
    BY <2>3, <2>5
<1>6. Nat \subseteq S
  <2> HIDE DEF S
  <2> QED
    BY <1>4, <1>5, Induction
<1>7. PICK top \in Nat : \A i \in 1..n : Width[g[i]] <= top
  <2>1. n \in S
    <3> HIDE DEF S
    <3> QED
      BY <1>1, <1>6
  <2>2. n <= n
    BY <1>1
  <2> QED
    BY <2>1, <2>2
<1> QED
  BY <1>3, <1>7

LEMMA HalvedExists ==
    ASSUME NEW A, NEW B, NEW both
    PROVE  \E f : IsHalved(f, A, B, both)
<1> DEFINE Good(f, n) == /\ f = [c \in Prefix |-> f[c]]
                         /\ \A c \in Prefix : Rank(c) <= n => f[c] = Halved(f, c, A, B, both)
           S == {n \in Nat : \E f : Good(f, n)}
<1>1. 0 \in S
  <2> DEFINE none == [c \in Prefix |-> FALSE]
             g == [c \in Prefix |-> Halved(none, c, A, B, both)]
  <2>1. /\ g = [c \in Prefix |-> g[c]]
        /\ \A c \in Prefix : g[c] = Halved(none, c, A, B, both)
    OBVIOUS
  <2> HIDE DEF g, none
  <2>2. \A c \in Prefix : Rank(c) <= 0 => g[c] = Halved(g, c, A, B, both)
    <3> TAKE c \in Prefix
    <3> SUFFICES ASSUME Rank(c) <= 0 PROVE g[c] = Halved(g, c, A, B, both)
      OBVIOUS
    <3>1. Single(c)
      BY RankIs
    <3>2. Halved(none, c, A, B, both) = Halved(g, c, A, B, both)
      BY <3>1 DEF Halved
    <3> QED
      BY <2>1, <3>2
  <2> QED
    BY <2>1, <2>2
<1>2. \A n \in Nat : n \in S => n + 1 \in S
  <2> TAKE n \in Nat
  <2> SUFFICES ASSUME n \in S PROVE \E g : Good(g, n + 1)
    OBVIOUS
  <2>1. PICK f : Good(f, n)
    OBVIOUS
  <2> DEFINE g == [c \in Prefix |-> Halved(f, c, A, B, both)]
  <2>2. \A c \in Prefix : g[c] = Halved(f, c, A, B, both)
    OBVIOUS
  <2>3. g = [c \in Prefix |-> g[c]]
    OBVIOUS
  <2> HIDE DEF g
  <2>4. \A c \in Prefix : Rank(c) <= n => g[c] = f[c]
    BY <2>1, <2>2
  <2>5. ASSUME NEW c \in Prefix, Rank(c) <= n + 1
        PROVE  Halved(f, c, A, B, both) = Halved(g, c, A, B, both)
    <3>1. CASE Single(c)
      BY <3>1 DEF Halved
    <3>2. CASE ~Single(c)
      <4>1. /\ LeftHalf(c) \in Prefix /\ RightHalf(c) \in Prefix
            /\ Rank(LeftHalf(c)) <= n /\ Rank(RightHalf(c)) <= n
        BY <2>5, <3>2, RankIs
      <4>2. g[LeftHalf(c)] = f[LeftHalf(c)] /\ g[RightHalf(c)] = f[RightHalf(c)]
        BY <2>4, <4>1
      <4> QED
        BY <4>2 DEF Halved
    <3> QED
      BY <3>1, <3>2
  <2>6. Good(g, n + 1)
    BY <2>2, <2>3, <2>5
  <2> QED
    BY <2>6
<1>3. Nat \subseteq S
  <2> HIDE DEF S
  <2> QED
    BY <1>1, <1>2, Induction
<1>4. PICK top \in Nat : \A f \in Families : Width[f] <= top
  BY WidthsAreBounded
<1>5. PICK f : Good(f, top)
  BY <1>3
<1>6. \A c \in Prefix : Rank(c) <= top
  <2> TAKE c \in Prefix
  <2>1. c.family \in Families /\ Width[c.family] \in Nat /\ c.bits \in Nat
    BY PrefixIs
  <2>2. Width[c.family] <= top
    BY <1>4, <2>1
  <2> QED
    BY <2>1, <2>2 DEF Rank
<1>7. f = [c \in Prefix |-> f[c]] /\ \A c \in Prefix : f[c] = Halved(f, c, A, B, both)
  BY <1>5, <1>6
<1>8. f = [c \in Prefix |-> Halved(f, c, A, B, both)]
  BY <1>7
<1> QED
  BY <1>8 DEF IsHalved

-----------------------------------------------------------------------------
LEMMA BlockIs ==
    ASSUME NEW b \in Block
    PROVE  b.prefix \in Prefix /\ b.except \subseteq Prefix
BY DEF Block

LEMMA AddressIs ==
    ASSUME NEW a \in Address
    PROVE  a.family \in Families /\ a.addr \in Nat
<1>1. PICK f \in Families : a \in [family : {f}, addr : 0..(2 ^ Width[f] - 1)]
  BY DEF Address
<1> DEFINE top == 2 ^ Width[f]
<1>2. top \in Nat
  BY WidthAssumption, PowerIsNat
<1>3. a.family = f /\ a.addr \in 0..(top - 1)
  BY <1>1
<1> HIDE DEF top
<1> QED
  BY <1>2, <1>3

(* A prefix at least as long whose start another holds is inside it.       *)
LEMMA CoveredIsInside ==
    ASSUME NEW c \in Prefix, NEW exclusions, exclusions \subseteq Prefix, PrefixCovered(c, exclusions),
           NEW n \in Nat, Spans(c, n)
    PROVE  \E e \in exclusions : e.family = c.family /\ Spans(e, n)
<1>1. PICK e \in exclusions : PrefixContains(e, c) /\ e.bits <= c.bits
  BY DEF PrefixCovered
<1>2. e \in Prefix /\ e.family = c.family
  BY <1>1 DEF PrefixContains
<1>3. /\ c.addr \in Nat /\ SizeOf(c) \in Nat \ {0}
      /\ e.addr \in Nat /\ SizeOf(e) \in Nat \ {0}
  BY <1>2, PrefixIs
<1>4. Spans(e, c.addr) /\ Spans(c, c.addr)
  BY <1>1, <1>2, <1>3, ContainsIsSpans DEF Spans
<1>5. e.addr <= c.addr /\ c.addr + SizeOf(c) <= e.addr + SizeOf(e)
  BY <1>1, <1>2, <1>3, <1>4, PrefixesNest
<1>6. Spans(e, n)
  BY <1>3, <1>5 DEF Spans
<1> QED
  BY <1>2, <1>6

(* Two prefixes with a common address overlap: one holds the start of the  *)
(* other.                                                                  *)
LEMMA CommonOverlaps ==
    ASSUME NEW c \in Prefix, NEW e \in Prefix, e.family = c.family,
           NEW n \in Nat, Spans(c, n), Spans(e, n)
    PROVE  PrefixContains(c, e) \/ PrefixContains(e, c)
<1>1. /\ c.addr \in Nat /\ SizeOf(c) \in Nat \ {0}
      /\ e.addr \in Nat /\ SizeOf(e) \in Nat \ {0}
  BY PrefixIs
<1>2. Spans(c, e.addr) \/ Spans(e, c.addr)
  BY <1>1 DEF Spans
<1> QED
  BY <1>1, <1>2, ContainsIsSpans

IsContained(f, block, ref) ==
    f = [c \in Prefix |->
            \/ PrefixCovered(c, ref.except)
            \/ /\ PrefixOverlapsAny(c, {block.prefix})
               /\ \/ /\ PrefixCovered(c, {block.prefix})
                     /\ ~PrefixOverlapsAny(c, block.except)
                  \/ /\ ~Single(c)
                     /\ f[LeftHalf(c)]
                     /\ f[RightHalf(c)]]

LEMMA ContainedUnfolds ==
    ASSUME NEW block, NEW ref, IpBlockContains(block, ref)
    PROVE  \E f : /\ \A c \in Prefix : f[c] =>
                        \/ PrefixCovered(c, ref.except)
                        \/ PrefixCovered(c, {block.prefix}) /\ ~PrefixOverlapsAny(c, block.except)
                        \/ ~Single(c) /\ f[LeftHalf(c)] /\ f[RightHalf(c)]
                  /\ f[ref.prefix] /\ block.prefix.family = ref.prefix.family
<1> DEFINE A == {c \in Prefix : \/ PrefixCovered(c, ref.except)
                                \/ /\ PrefixOverlapsAny(c, {block.prefix})
                                   /\ PrefixCovered(c, {block.prefix})
                                   /\ ~PrefixOverlapsAny(c, block.except)}
           B == {c \in Prefix : PrefixOverlapsAny(c, {block.prefix})}
           f == CHOOSE f : IsContained(f, block, ref)
<1>1. PICK g : IsHalved(g, A, B, TRUE)
  BY HalvedExists
<1>2. IsContained(g, block, ref)
  BY <1>1 DEF IsHalved, Halved, IsContained
<1>3. IsContained(f, block, ref)
  BY <1>2
<1>4. f[ref.prefix] /\ block.prefix.family = ref.prefix.family
  BY DEF IpBlockContains, IsContained
<1> HIDE DEF f
<1>5. \A c \in Prefix : f[c] =>
        \/ PrefixCovered(c, ref.except)
        \/ PrefixCovered(c, {block.prefix}) /\ ~PrefixOverlapsAny(c, block.except)
        \/ ~Single(c) /\ f[LeftHalf(c)] /\ f[RightHalf(c)]
  BY <1>3 DEF IsContained
<1> QED
  BY <1>4, <1>5

(* What the evaluator takes for contained is: every address of the         *)
(* candidate that it does not except is in the allowed block.              *)
THEOREM ContainmentIsSound ==
    ASSUME NEW block \in Block, NEW ref \in Block, IpBlockContains(block, ref),
           NEW a \in Address, InBlock(ref, a)
    PROVE  InBlock(block, a)
<1> DEFINE n == a.addr
<1>1. n \in Nat
  BY AddressIs
<1>2. /\ block.prefix \in Prefix /\ block.except \subseteq Prefix
      /\ ref.prefix \in Prefix /\ ref.except \subseteq Prefix
  BY BlockIs
<1>3. PICK f : /\ \A c \in Prefix : f[c] =>
                      \/ PrefixCovered(c, ref.except)
                      \/ PrefixCovered(c, {block.prefix}) /\ ~PrefixOverlapsAny(c, block.except)
                      \/ ~Single(c) /\ f[LeftHalf(c)] /\ f[RightHalf(c)]
               /\ f[ref.prefix] /\ block.prefix.family = ref.prefix.family
  BY ContainedUnfolds
<1>4. ref.prefix.family = a.family /\ Spans(ref.prefix, n)
  <2>1. PrefixContains(ref.prefix, a)
    BY DEF InBlock
  <2>2. ref.prefix.family = a.family
    BY <2>1 DEF PrefixContains
  <2> QED
    BY <1>1, <1>2, <2>1, <2>2, ContainsIsSpans
<1>5. ASSUME NEW c \in Prefix, c.family = a.family, Spans(c, n)
      PROVE  ~PrefixCovered(c, ref.except)
  <2> SUFFICES ASSUME PrefixCovered(c, ref.except) PROVE FALSE
    OBVIOUS
  <2>1. PICK e \in ref.except : e.family = c.family /\ Spans(e, n)
    BY <1>1, <1>2, <1>5, CoveredIsInside
  <2>2. PrefixContains(e, a)
    BY <1>1, <1>2, <1>5, <2>1, ContainsIsSpans
  <2> QED
    BY <2>2 DEF InBlock
<1>6. ASSUME NEW c \in Prefix, c.family = a.family, Spans(c, n),
             PrefixCovered(c, {block.prefix}), ~PrefixOverlapsAny(c, block.except)
      PROVE  InBlock(block, a)
  <2>1. {block.prefix} \subseteq Prefix
    BY <1>2
  <2>2. PICK b \in {block.prefix} : b.family = c.family /\ Spans(b, n)
    BY <1>1, <1>6, <2>1, CoveredIsInside
  <2>3. PrefixContains(block.prefix, a)
    BY <1>1, <1>2, <1>6, <2>2, ContainsIsSpans
  <2>4. ASSUME NEW e \in block.except, PrefixContains(e, a)
        PROVE  FALSE
    <3>1. e \in Prefix /\ e.family = a.family
      BY <1>2, <2>4 DEF PrefixContains
    <3>2. Spans(e, n)
      BY <1>1, <2>4, <3>1, ContainsIsSpans
    <3>3. PrefixContains(c, e) \/ PrefixContains(e, c)
      BY <1>1, <1>6, <3>1, <3>2, CommonOverlaps
    <3> QED
      BY <1>6, <3>3 DEF PrefixOverlapsAny
  <2> QED
    BY <2>3, <2>4 DEF InBlock
<1> DEFINE Found(c) == c.family = a.family /\ Spans(c, n) /\ f[c] => InBlock(block, a)
           S == {k \in Nat : \A c \in Prefix : Rank(c) = k => Found(c)}
<1>7. 0 \in S
  <2> SUFFICES ASSUME NEW c \in Prefix, Rank(c) = 0, c.family = a.family, Spans(c, n), f[c]
               PROVE  InBlock(block, a)
    OBVIOUS
  <2>1. Single(c)
    BY RankIs
  <2> QED
    BY <1>3, <1>5, <1>6, <2>1
<1>8. \A k \in Nat : k \in S => k + 1 \in S
  <2> SUFFICES ASSUME NEW k \in Nat, k \in S,
                      NEW c \in Prefix, Rank(c) = k + 1, c.family = a.family, Spans(c, n), f[c]
               PROVE  InBlock(block, a)
    OBVIOUS
  <2>1. ~Single(c)
    BY RankIs
  <2>2. /\ LeftHalf(c) \in Prefix /\ RightHalf(c) \in Prefix
        /\ Rank(LeftHalf(c)) = k /\ Rank(RightHalf(c)) = k
    BY <2>1, RankIs
  <2>3. /\ LeftHalf(c).family = a.family /\ RightHalf(c).family = a.family
        /\ Spans(LeftHalf(c), n) \/ Spans(RightHalf(c), n)
    BY <1>1, <2>1, HalvesAre
  <2>4. Found(LeftHalf(c)) /\ Found(RightHalf(c))
    BY <2>2
  <2>5. \/ PrefixCovered(c, ref.except)
        \/ PrefixCovered(c, {block.prefix}) /\ ~PrefixOverlapsAny(c, block.except)
        \/ f[LeftHalf(c)] /\ f[RightHalf(c)]
    BY <1>3
  <2> QED
    BY <1>5, <1>6, <2>3, <2>4, <2>5
<1>9. Nat \subseteq S
  <2> HIDE DEF S
  <2> QED
    BY <1>7, <1>8, Induction
<1>10. Found(ref.prefix)
  BY <1>2, <1>9, RankIs
<1> QED
  BY <1>3, <1>4, <1>10

IsOpen(f, exclusions) ==
    f = [p \in Prefix |->
            /\ ~PrefixCovered(p, exclusions)
            /\ \/ \A e \in exclusions : ~PrefixContains(p, e)
               \/ ~Single(p) /\ (f[LeftHalf(p)] \/ f[RightHalf(p)])]

Narrower(block, ref) == IF block.prefix.bits > ref.prefix.bits THEN block.prefix ELSE ref.prefix
Wider(block, ref) == IF block.prefix.bits > ref.prefix.bits THEN ref.prefix ELSE block.prefix

LEMMA OpenUnfolds ==
    ASSUME NEW block, NEW ref
    PROVE  \E f : /\ \A p \in Prefix : f[p] <=>
                        /\ ~PrefixCovered(p, block.except \union ref.except)
                        /\ \/ \A e \in block.except \union ref.except : ~PrefixContains(p, e)
                           \/ ~Single(p) /\ (f[LeftHalf(p)] \/ f[RightHalf(p)])
                  /\ IpBlockIntersects(block, ref) <=>
                        /\ PrefixContains(Wider(block, ref), Narrower(block, ref))
                        /\ f[Narrower(block, ref)]
<1> DEFINE exclusions == block.except \union ref.except
           A == {p \in Prefix : /\ ~PrefixCovered(p, exclusions)
                                /\ \A e \in exclusions : ~PrefixContains(p, e)}
           B == {p \in Prefix : ~PrefixCovered(p, exclusions)}
           f == CHOOSE f : IsOpen(f, exclusions)
<1>1. PICK g : IsHalved(g, A, B, FALSE)
  BY HalvedExists
<1>2. IsOpen(g, exclusions)
  BY <1>1 DEF IsHalved, Halved, IsOpen
<1>3. IsOpen(f, exclusions)
  BY <1>2
<1>4. IpBlockIntersects(block, ref) <=>
          /\ PrefixContains(Wider(block, ref), Narrower(block, ref))
          /\ f[Narrower(block, ref)]
  BY DEF IpBlockIntersects, IsOpen, Narrower, Wider
<1> HIDE DEF f
<1>5. \A p \in Prefix : f[p] <=>
        /\ ~PrefixCovered(p, exclusions)
        /\ \/ \A e \in exclusions : ~PrefixContains(p, e)
           \/ ~Single(p) /\ (f[LeftHalf(p)] \/ f[RightHalf(p)])
  BY <1>3 DEF IsOpen
<1> QED
  BY <1>4, <1>5

(* A prefix holds the start of a longer one it has an address with.        *)
LEMMA InsideIsContained ==
    ASSUME NEW e \in Prefix, NEW p \in Prefix, e.family = p.family, e.bits <= p.bits,
           NEW n \in Nat, Spans(e, n), Spans(p, n)
    PROVE  PrefixContains(e, p)
<1>1. /\ p.addr \in Nat /\ SizeOf(p) \in Nat \ {0}
      /\ e.addr \in Nat /\ SizeOf(e) \in Nat \ {0}
  BY PrefixIs
<1>2. e.addr <= p.addr /\ p.addr + SizeOf(p) <= e.addr + SizeOf(e)
  BY PrefixesNest
<1>3. Spans(e, p.addr)
  BY <1>1, <1>2 DEF Spans
<1> QED
  BY <1>1, <1>3, ContainsIsSpans

(* Two blocks share an address exactly when the evaluator says so.         *)
THEOREM IntersectionOfBlocksIsExact ==
    ASSUME NEW block \in Block, NEW ref \in Block
    PROVE  IpBlockIntersects(block, ref) <=>
               \E a \in Address : InBlock(block, a) /\ InBlock(ref, a)
<1> DEFINE exclusions == block.except \union ref.except
           near == Narrower(block, ref)
           wide == Wider(block, ref)
<1>1. /\ block.prefix \in Prefix /\ ref.prefix \in Prefix
      /\ exclusions \subseteq Prefix
  BY BlockIs
<1>2. /\ near \in Prefix /\ wide \in Prefix /\ wide.bits <= near.bits
      /\ \/ near = block.prefix /\ wide = ref.prefix
         \/ near = ref.prefix /\ wide = block.prefix
  <2>1. block.prefix.bits \in Nat /\ ref.prefix.bits \in Nat
    BY <1>1, PrefixIs
  <2> QED
    BY <1>1, <2>1 DEF Narrower, Wider
<1>3. ASSUME NEW a \in Address
      PROVE  InBlock(block, a) /\ InBlock(ref, a) <=>
                 /\ PrefixContains(near, a) /\ PrefixContains(wide, a)
                 /\ \A e \in exclusions : ~PrefixContains(e, a)
  BY <1>2 DEF InBlock
<1>4. PICK f : /\ \A p \in Prefix : f[p] <=>
                      /\ ~PrefixCovered(p, exclusions)
                      /\ \/ \A e \in exclusions : ~PrefixContains(p, e)
                         \/ ~Single(p) /\ (f[LeftHalf(p)] \/ f[RightHalf(p)])
               /\ IpBlockIntersects(block, ref) <=> PrefixContains(wide, near) /\ f[near]
  BY OpenUnfolds
<1> HIDE DEF exclusions, near, wide
<1>5. ASSUME NEW a \in Address, PrefixContains(near, a), PrefixContains(wide, a),
             \A e \in exclusions : ~PrefixContains(e, a)
      PROVE  PrefixContains(wide, near) /\ f[near]
  <2> DEFINE n == a.addr
  <2>1. n \in Nat
    BY AddressIs
  <2>2. near.family = a.family /\ wide.family = a.family
    BY <1>5 DEF PrefixContains
  <2>3. Spans(near, n) /\ Spans(wide, n)
    BY <1>2, <1>5, <2>1, <2>2, ContainsIsSpans
  <2>4. PrefixContains(wide, near)
    BY <1>2, <2>1, <2>2, <2>3, InsideIsContained
  <2>5. ASSUME NEW p \in Prefix, p.family = a.family, Spans(p, n)
        PROVE  ~PrefixCovered(p, exclusions)
    <3> SUFFICES ASSUME PrefixCovered(p, exclusions) PROVE FALSE
      OBVIOUS
    <3>1. PICK e \in exclusions : e.family = p.family /\ Spans(e, n)
      BY <1>1, <2>1, <2>5, CoveredIsInside
    <3>2. PrefixContains(e, a)
      BY <1>1, <2>1, <2>5, <3>1, ContainsIsSpans
    <3> QED
      BY <1>5, <3>2
  <2> DEFINE Found(p) == p.family = a.family /\ Spans(p, n) => f[p]
             S == {k \in Nat : \A p \in Prefix : Rank(p) = k => Found(p)}
  <2>6. 0 \in S
    <3> SUFFICES ASSUME NEW p \in Prefix, Rank(p) = 0, p.family = a.family, Spans(p, n)
                 PROVE  f[p]
      OBVIOUS
    <3>1. ASSUME NEW e \in exclusions, PrefixContains(p, e)
          PROVE  FALSE
      <4>1. e \in Prefix /\ e.family = a.family /\ e.addr \in Nat
        BY <1>1, <3>1, PrefixIs DEF PrefixContains
      <4>2. e.addr = n
        <5>1. Spans(p, e.addr)
          BY <3>1, <4>1, ContainsIsSpans
        <5>2. SizeOf(p) = 1
          <6>1. SizeOf(p) = 2 ^ Rank(p)
            BY DEF SizeOf, Size, Rank
          <6>2. 2 ^ 0 = 1
            OBVIOUS
          <6> QED
            BY <6>1, <6>2
        <5>3. p.addr \in Nat
          BY PrefixIs
        <5> QED
          BY <2>1, <4>1, <5>1, <5>2, <5>3 DEF Spans
      <4>3. Spans(e, n)
        <5>1. SizeOf(e) \in Nat \ {0}
          BY <4>1, PrefixIs
        <5> QED
          BY <4>1, <4>2, <5>1 DEF Spans
      <4>4. PrefixContains(e, a)
        BY <2>1, <4>1, <4>3, ContainsIsSpans
      <4> QED
        BY <1>5, <4>4
    <3>2. ~PrefixCovered(p, exclusions)
      BY <2>5
    <3> QED
      BY <1>4, <3>1, <3>2
  <2>7. \A k \in Nat : k \in S => k + 1 \in S
    <3> SUFFICES ASSUME NEW k \in Nat, k \in S,
                        NEW p \in Prefix, Rank(p) = k + 1, p.family = a.family, Spans(p, n)
                 PROVE  f[p]
      OBVIOUS
    <3>1. ~Single(p)
      BY RankIs
    <3>2. /\ LeftHalf(p) \in Prefix /\ RightHalf(p) \in Prefix
          /\ Rank(LeftHalf(p)) = k /\ Rank(RightHalf(p)) = k
      BY <3>1, RankIs
    <3>3. /\ LeftHalf(p).family = a.family /\ RightHalf(p).family = a.family
          /\ Spans(LeftHalf(p), n) \/ Spans(RightHalf(p), n)
      BY <2>1, <3>1, HalvesAre
    <3>4. Found(LeftHalf(p)) /\ Found(RightHalf(p))
      BY <3>2
    <3>5. f[LeftHalf(p)] \/ f[RightHalf(p)]
      BY <3>3, <3>4
    <3>6. ~PrefixCovered(p, exclusions)
      BY <2>5
    <3> QED
      BY <1>4, <3>1, <3>5, <3>6
  <2>8. Nat \subseteq S
    <3> HIDE DEF S
    <3> QED
      BY <2>6, <2>7, Induction
  <2>9. Found(near)
    BY <1>2, <2>8, RankIs
  <2> QED
    BY <2>2, <2>3, <2>4, <2>9
<1>6. ASSUME PrefixContains(wide, near), f[near]
      PROVE  \E a \in Address : /\ PrefixContains(near, a) /\ PrefixContains(wide, a)
                                /\ \A e \in exclusions : ~PrefixContains(e, a)
  <2> DEFINE Free(p, n) == Spans(p, n) /\ \A e \in exclusions : e.family = p.family => ~Spans(e, n)
             Found(p) == f[p] => \E n \in Nat : Free(p, n)
             S == {k \in Nat : \A p \in Prefix : Rank(p) = k => Found(p)}
  <2>1. ASSUME NEW p \in Prefix, ~PrefixCovered(p, exclusions),
               \A e \in exclusions : ~PrefixContains(p, e)
        PROVE  \E n \in Nat : Free(p, n)
    <3>1. p.addr \in Nat /\ SizeOf(p) \in Nat \ {0} /\ p.bits \in Nat
      BY PrefixIs
    <3>2. Spans(p, p.addr)
      BY <3>1 DEF Spans
    <3>3. ASSUME NEW e \in exclusions, e.family = p.family, Spans(e, p.addr)
          PROVE  FALSE
      <4>1. e \in Prefix /\ e.bits \in Nat
        BY <1>1, PrefixIs
      <4>2. PrefixContains(e, p)
        BY <3>1, <3>3, <4>1, ContainsIsSpans
      <4>3. p.bits <= e.bits
        BY <2>1, <3>1, <4>1, <4>2 DEF PrefixCovered
      <4>4. PrefixContains(p, e)
        BY <3>1, <3>2, <3>3, <4>1, <4>3, InsideIsContained
      <4> QED
        BY <2>1, <4>4
    <3> QED
      BY <3>1, <3>2, <3>3
  <2>2. 0 \in S
    <3> SUFFICES ASSUME NEW p \in Prefix, Rank(p) = 0, f[p]
                 PROVE  \E n \in Nat : Free(p, n)
      OBVIOUS
    <3>1. Single(p)
      BY RankIs
    <3>2. ~PrefixCovered(p, exclusions) /\ \A e \in exclusions : ~PrefixContains(p, e)
      BY <1>4, <3>1
    <3> QED
      BY <2>1, <3>2
  <2>3. \A k \in Nat : k \in S => k + 1 \in S
    <3> SUFFICES ASSUME NEW k \in Nat, k \in S, NEW p \in Prefix, Rank(p) = k + 1, f[p]
                 PROVE  \E n \in Nat : Free(p, n)
      OBVIOUS
    <3>1. ~Single(p)
      BY RankIs
    <3>2. /\ LeftHalf(p) \in Prefix /\ RightHalf(p) \in Prefix
          /\ Rank(LeftHalf(p)) = k /\ Rank(RightHalf(p)) = k
      BY <3>1, RankIs
    <3>3. /\ LeftHalf(p).family = p.family /\ RightHalf(p).family = p.family
          /\ \A n \in Nat : Spans(p, n) <=> Spans(LeftHalf(p), n) \/ Spans(RightHalf(p), n)
      BY <3>1, HalvesAre
    <3>4. Found(LeftHalf(p)) /\ Found(RightHalf(p))
      BY <3>2
    <3>5. CASE \A e \in exclusions : ~PrefixContains(p, e)
      BY <1>4, <2>1, <3>5
    <3>6. CASE f[LeftHalf(p)] \/ f[RightHalf(p)]
      BY <3>3, <3>4, <3>6
    <3> QED
      BY <1>4, <3>5, <3>6
  <2>4. Nat \subseteq S
    <3> HIDE DEF S
    <3> QED
      BY <2>2, <2>3, Induction
  <2>5. Found(near)
    BY <1>2, <2>4, RankIs
  <2>6. PICK n \in Nat : Free(near, n)
    BY <1>6, <2>5
  <2> DEFINE a == [family |-> near.family, addr |-> n]
  <2>7. a.family = near.family /\ a.addr = n
    OBVIOUS
  <2>8. a \in Address
    <3> DEFINE top == 2 ^ Width[near.family]
    <3>1. near.family \in Families /\ near.addr \in Nat /\ SizeOf(near) \in Nat /\ top \in Nat
      BY <1>2, PrefixIs, PowerIsNat
    <3>2. near.addr + SizeOf(near) <= top
      BY <1>2, PrefixFits
    <3>3. n \in 0..(top - 1)
      <4> HIDE DEF top
      <4> QED
        BY <2>6, <3>1, <3>2 DEF Spans
    <3>4. a \in [family : {near.family}, addr : 0..(top - 1)]
      <4> HIDE DEF top
      <4> QED
        BY <3>3
    <3> QED
      BY <3>1, <3>4 DEF Address
  <2> HIDE DEF a
  <2>9. PrefixContains(near, a)
    BY <1>2, <2>6, <2>7, ContainsIsSpans
  <2>10. PrefixContains(wide, a)
    <3>1. wide.family = near.family /\ Spans(wide, near.addr) /\ Spans(near, near.addr)
      <4>1. near.addr \in Nat /\ SizeOf(near) \in Nat \ {0}
        BY <1>2, PrefixIs
      <4>2. wide.family = near.family
        BY <1>6 DEF PrefixContains
      <4> QED
        BY <1>2, <1>6, <4>1, <4>2, ContainsIsSpans DEF Spans
    <3>2. /\ near.addr \in Nat /\ SizeOf(near) \in Nat
          /\ wide.addr \in Nat /\ SizeOf(wide) \in Nat
      BY <1>2, PrefixIs
    <3>3. wide.addr <= near.addr /\ near.addr + SizeOf(near) <= wide.addr + SizeOf(wide)
      BY <1>2, <3>1, <3>2, PrefixesNest
    <3>4. Spans(wide, n)
      BY <2>6, <3>2, <3>3 DEF Spans
    <3> QED
      BY <1>2, <2>7, <3>1, <3>4, ContainsIsSpans
  <2>11. ASSUME NEW e \in exclusions PROVE ~PrefixContains(e, a)
    <3>1. CASE e.family = near.family
      BY <1>1, <2>6, <2>7, <3>1, ContainsIsSpans
    <3>2. CASE e.family # near.family
      BY <2>7, <3>2 DEF PrefixContains
    <3> QED
      BY <3>1, <3>2
  <2> QED
    BY <2>8, <2>9, <2>10, <2>11
<1> QED
  BY <1>3, <1>4, <1>5, <1>6
=============================================================================
