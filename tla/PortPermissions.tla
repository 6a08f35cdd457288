--------------------------- MODULE PortPermissions ---------------------------
(***************************************************************************)
(* internal/netpol/ports.go: lists of port permissions, and what the       *)
(* evaluator does with them.  A list is deduplicated by key and sorted, so *)
(* it is a set here.  A permission is a range of ports; one for every port *)
(* of a protocol is the full range, and so is, as an upper bound, one for  *)
(* a named port that is not resolved, which keeps its name.                *)
(***************************************************************************)
EXTENDS Integers, FiniteSets, FiniteSetsExt

CONSTANTS
    TCP, OtherProtocols,
    MaxPort,            \* 65535
    Names, NoName,      \* names of container ports
    NoPod,              \* the destination of traffic that leaves the cluster
    NumbersOf(_, _, _)  \* NumbersOf(pod, name, protocol): the container ports

Protocols == {TCP} \union OtherProtocols
Ports == 1..MaxPort

ASSUME PortAssumption ==
    /\ MaxPort \in Nat \ {0}
    /\ NoName \notin Names
    /\ TCP \notin OtherProtocols
    /\ IsFiniteSet(OtherProtocols) /\ IsFiniteSet(Names)

Permission ==
    [protocol : Protocols, lo : Ports, hi : Ports, name : Names \union {NoName},
     unknown : BOOLEAN]

Span(protocol, lo, hi, unknown) ==
    [protocol |-> protocol, lo |-> lo, hi |-> hi, name |-> NoName, unknown |-> unknown]

Every(protocol, unknown) == Span(protocol, 1, MaxPort, unknown)
Named(protocol, name) ==
    [protocol |-> protocol, lo |-> 1, hi |-> MaxPort, name |-> name, unknown |-> TRUE]

Larger(a, b) == IF a > b THEN a ELSE b
Smaller(a, b) == IF a < b THEN a ELSE b

Numeric(p) == p.name = NoName
Full(p) == Numeric(p) /\ p.lo = 1 /\ p.hi = MaxPort

AllPermissions == {Every(protocol, FALSE) : protocol \in Protocols}
KnownPermissions(list) == \E p \in list : ~p.unknown

(* What a list says about traffic: the ports it allows for certain, and    *)
(* those it may allow.                                                     *)
Covers(p, protocol, n) == p.protocol = protocol /\ p.lo <= n /\ n <= p.hi
Certainly(list, protocol, n) == \E p \in list : ~p.unknown /\ Covers(p, protocol, n)
Possibly(list, protocol, n) == \E p \in list : Covers(p, protocol, n)

-----------------------------------------------------------------------------
(* Sorted spans are joined as long as they overlap.  What is left are the  *)
(* longest runs in which some span holds every port with the next one.     *)
Joined(spans, n) == \E s \in spans : s.lo <= n /\ n + 1 <= s.hi

IsRun(spans, lo, hi) ==
    /\ \E s \in spans : s.lo <= lo /\ lo <= s.hi
    /\ \A n \in lo..(hi - 1) : Joined(spans, n)
    /\ ~Joined(spans, lo - 1) /\ ~Joined(spans, hi)

Runs(spans) == {run \in Ports \X Ports : run[1] <= run[2] /\ IsRun(spans, run[1], run[2])}

(* An uncertain range inside one known range adds nothing; when every port *)
(* is known, nothing adds to it.                                           *)
MergeProtocolPermissions(protocol, list) ==
    LET known == {p \in list : ~p.unknown}
        merged == {Span(protocol, run[1], run[2], FALSE) : run \in Runs(known)}
        covered(p) == Numeric(p) /\ \E m \in merged : m.lo <= p.lo /\ p.hi <= m.hi
    IN  IF \A n \in Ports : Certainly(list, protocol, n)
        THEN {Every(protocol, FALSE)}
        ELSE merged \union {p \in list \ known : ~covered(p)}

Canonical(list) ==
    UNION {MergeProtocolPermissions(protocol, {p \in list : p.protocol = protocol}) :
              protocol \in Protocols}

-----------------------------------------------------------------------------
(* One entry of a rule's ports, for a destination.  A name the pod does    *)
(* not have allows nothing; one it has twice is not resolved.              *)
PermissionsForPort(port, destination) ==
    LET numbers == NumbersOf(destination, port.name, port.protocol)
    IN  IF port.name = NoName THEN {Span(port.protocol, port.lo, port.hi, FALSE)}
        ELSE IF destination = NoPod \/ Cardinality(numbers) > 1
        THEN {Named(port.protocol, port.name)}
        ELSE {Span(port.protocol, n, n, FALSE) : n \in numbers}

PermissionsForPorts(ports, destination) ==
    IF ports = {} THEN AllPermissions
    ELSE Canonical(UNION {PermissionsForPort(port, destination) : port \in ports})

-----------------------------------------------------------------------------
Meet(a, b) ==
    LET named == IF Numeric(a) THEN b ELSE a
        other == IF Numeric(a) THEN a ELSE b
        common ==
            IF Numeric(a) /\ Numeric(b)
            THEN Span(a.protocol, Larger(a.lo, b.lo), Smaller(a.hi, b.hi), FALSE)
            ELSE IF Numeric(other) THEN IF Full(other) THEN named ELSE other
            ELSE IF a.name = b.name THEN a ELSE Every(a.protocol, TRUE)
        unknown == a.unknown \/ b.unknown \/ ~Numeric(a) \/ ~Numeric(b)
    IN  [common EXCEPT !.unknown = unknown]

Overlap(a, b) ==
    /\ a.protocol = b.protocol
    /\ a.lo <= b.hi /\ b.lo <= a.hi

IntersectPermissions(left, right) ==
    Canonical({Meet(p[1], p[2]) : p \in {q \in left \X right : Overlap(q[1], q[2])}})

-----------------------------------------------------------------------------
OnlyIf(condition, p) == IF condition THEN {p} ELSE {}

(* Plausible mistake: what may be denied is taken away like what is.       *)
SubtractPermissionBluntly(a, d) ==
    IF a.protocol # d.protocol \/ d.hi < a.lo \/ a.hi < d.lo THEN {a}
    ELSE OnlyIf(d.lo > a.lo, Span(a.protocol, a.lo, d.lo - 1, a.unknown))
         \union OnlyIf(d.hi < a.hi, Span(a.protocol, d.hi + 1, a.hi, a.unknown))

SubtractPermission(a, d) ==
    LET unknown == a.unknown \/ ~Numeric(a)
        doubted == [a EXCEPT !.unknown = TRUE]
    IN  IF a.protocol # d.protocol THEN {a}
        ELSE IF ~Numeric(d) THEN {doubted}
        ELSE IF d.hi < a.lo \/ a.hi < d.lo THEN {a}
        ELSE IF d.unknown /\ (unknown \/ (d.lo <= a.lo /\ a.hi <= d.hi)) THEN {doubted}
        ELSE OnlyIf(d.lo > a.lo, Span(a.protocol, a.lo, d.lo - 1, unknown))
             \union OnlyIf(d.unknown, Span(a.protocol, Larger(a.lo, d.lo), Smaller(a.hi, d.hi), TRUE))
             \union OnlyIf(d.hi < a.hi, Span(a.protocol, d.hi + 1, a.hi, unknown))

SubtractFromEach(list, d) == UNION {SubtractPermission(a, d) : a \in list}

(* One denied permission after the other, in the order of their keys: what *)
(* remains does not depend on it.                                          *)
SubtractPermissions(allowed, denied) ==
    Canonical(FoldSet(LAMBDA d, list : SubtractFromEach(list, d), allowed, denied))
=============================================================================
