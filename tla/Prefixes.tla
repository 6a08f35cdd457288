------------------------------ MODULE Prefixes ------------------------------
(***************************************************************************)
(* The address arithmetic of internal/netpol/evaluator.go: whether an      *)
(* IP block with exceptions contains, or shares an address with, another.  *)
(* A prefix is a family of addresses, a masked address and its length.     *)
(***************************************************************************)
EXTENDS Integers, FiniteSets

CONSTANTS
    Families,
    Width           \* Width[family]: bits of an address, 32 or 128

ASSUME WidthAssumption ==
    /\ IsFiniteSet(Families)
    /\ Width \in [Families -> Nat]

Address == UNION {[family : {f}, addr : 0..(2 ^ Width[f] - 1)] : f \in Families}

Size(f, bits) == 2 ^ (Width[f] - bits)

Prefix == UNION {{p \in [family : {f}, addr : 0..(2 ^ Width[f] - 1), bits : 0..Width[f]] :
                     p.addr % Size(f, p.bits) = 0} : f \in Families}

(* A block is a prefix without some other prefixes.                        *)
Block == [prefix : Prefix, except : SUBSET Prefix]

PrefixContains(p, a) ==
    /\ p.family = a.family
    /\ p.addr = a.addr - (a.addr % Size(p.family, p.bits))

InBlock(block, a) ==
    /\ PrefixContains(block.prefix, a)
    /\ \A e \in block.except : ~PrefixContains(e, a)

Single(p) == p.bits = Width[p.family]

LeftHalf(p) == [p EXCEPT !.bits = @ + 1]
RightHalf(p) == [p EXCEPT !.bits = @ + 1, !.addr = @ + Size(p.family, p.bits + 1)]

PrefixCovered(p, exclusions) == \E e \in exclusions : PrefixContains(e, p) /\ e.bits <= p.bits
PrefixOverlapsAny(p, others) == \E o \in others : PrefixContains(p, o) \/ PrefixContains(o, p)

(* prefixSetContained: every address of the candidate that is not excepted *)
(* belongs to the allowed block.                                           *)
IpBlockContains(block, ref) ==
    LET contained[c \in Prefix] ==
            \/ PrefixCovered(c, ref.except)
            \/ /\ PrefixOverlapsAny(c, {block.prefix})
               /\ \/ /\ PrefixCovered(c, {block.prefix})
                     /\ ~PrefixOverlapsAny(c, block.except)
                  \/ /\ ~Single(c)
                     /\ contained[LeftHalf(c)]
                     /\ contained[RightHalf(c)]
    IN  /\ block.prefix.family = ref.prefix.family
        /\ contained[ref.prefix]

(* ipBlockIntersects: the narrower of two nested prefixes has an address   *)
(* that neither block excepts.                                             *)
IpBlockIntersects(block, ref) ==
    LET exclusions == block.except \union ref.except
        narrower == IF block.prefix.bits > ref.prefix.bits THEN block.prefix ELSE ref.prefix
        wider == IF block.prefix.bits > ref.prefix.bits THEN ref.prefix ELSE block.prefix
        open[p \in Prefix] ==
            /\ ~PrefixCovered(p, exclusions)
            /\ \/ \A e \in exclusions : ~PrefixContains(p, e)
               \/ ~Single(p) /\ (open[LeftHalf(p)] \/ open[RightHalf(p)])
    IN  /\ PrefixContains(wider, narrower)
        /\ open[narrower]
=============================================================================
