----------------------------- MODULE Validation -----------------------------
(***************************************************************************)
(* The validators of the library as records and one operator: the verdict  *)
(* of a validator on a payload is "ok", the name it fails with, or "panic" *)
(* where the code would index past the end of the payload.                 *)
(***************************************************************************)
EXTENDS Integers, Sequences, SequencesExt

CONSTANTS
    Shape(_),           \* the verifier of the flatbuffers crate on a payload: the root
                        \* types it accepts, the depth and the tables it counts
    DefaultLimits       \* VerifierOptions of a validator created without limits

ASSUME ValidationAssumption ==
    DefaultLimits.depth \in Nat /\ DefaultLimits.tables \in Nat

\* The type-agnostic root: any table.
AnyTable == "table"

\* flatbuffers::Verifier on a root of this type with these limits.
Verifies(type, limits, payload) ==
    /\ type \in Shape(payload).roots
    /\ Shape(payload).depth <= limits.depth
    /\ Shape(payload).tables <= limits.tables

-----------------------------------------------------------------------------
(* Constructors. *)

NoValidator == [kind |-> "none", name |-> "NoValidator"]

SizeValidator(min, max) ==
    [kind |-> "size", name |-> "SizeValidator", min |-> min, max |-> max]

TableRootWithLimits(limits) ==
    [kind |-> "root", name |-> "TableRootValidator", limits |-> limits]
TableRootValidator == TableRootWithLimits(DefaultLimits)

TypedWithLimitsNamed(limits, name, type) ==
    [kind |-> "typed", name |-> name, limits |-> limits, type |-> type]
TypedWithLimits(limits, type) == TypedWithLimitsNamed(limits, "TypedValidator", type)
TypedFrom(type) == TypedWithLimits(DefaultLimits, type)
TypedNamed(name, type) == TypedWithLimitsNamed(DefaultLimits, name, type)

\* CompositeValidator::new, and add, of validators that are no composites themselves
\* (one inside another runs as its parts do, in their place).
EmptyComposite == [kind |-> "composite", name |-> "CompositeValidator", parts |-> <<>>]
Add(composite, validator) == [composite EXCEPT !.parts = Append(@, validator)]

\* What these make: no validator is named like a verdict of the model's.
IsPart(v) ==
    /\ v.kind \in {"none", "size", "root", "typed"}
    /\ v.name \notin {"ok", "panic"}
    /\ v.kind \in {"root", "typed"} => v.limits.depth \in Nat /\ v.limits.tables \in Nat
IsValidator(v) ==
    \/ IsPart(v)
    \/ /\ v.kind = "composite"
       /\ v.parts \in Seq(Range(v.parts)) /\ \A part \in Range(v.parts) : IsPart(part)

-----------------------------------------------------------------------------
(* Validator::validate *)

Fails(validator, bad) == IF bad THEN validator.name ELSE "ok"

\* TableRootValidator reads the root offset from the first four bytes.
RootWithoutSizeCheck(v, payload) ==  \* mutant
    IF Len(payload) < 4 THEN "panic" ELSE Fails(v, ~Verifies(AnyTable, v.limits, payload))
RootVerdict(v, payload) ==
    Fails(v, Len(payload) < 4 \/ ~Verifies(AnyTable, v.limits, payload))

SizeVerdict(v, payload) == Fails(v, Len(payload) < v.min \/ Len(payload) > v.max)

TypedVerdict(v, payload) == Fails(v, ~Verifies(v.type, v.limits, payload))

PartVerdict(v, payload) ==
    CASE v.kind = "none"  -> "ok"
      [] v.kind = "size"  -> SizeVerdict(v, payload)
      [] v.kind = "root"  -> RootVerdict(v, payload)
      [] v.kind = "typed" -> TypedVerdict(v, payload)

\* CompositeValidator asks its parts in the order they were added.
AsksAll(parts, payload) ==  \* mutant
    FoldLeft(LAMBDA verdict, v : IF PartVerdict(v, payload) = "ok" THEN verdict
                                 ELSE PartVerdict(v, payload),
             "ok", parts)
FirstFailure(parts, payload) ==
    LET after[i \in 0..Len(parts)] ==
            IF i = 0 THEN "ok"
            ELSE IF after[i - 1] = "ok" THEN PartVerdict(parts[i], payload)
            ELSE after[i - 1]
    IN  after[Len(parts)]

Verdict(v, payload) ==
    IF v.kind = "composite" THEN FirstFailure(v.parts, payload) ELSE PartVerdict(v, payload)

=============================================================================
