------------------------------ MODULE ReadStack ------------------------------
(***************************************************************************)
(* A StreamReader on the bytes of a whole stream, as operators: a deframer *)
(* with adapters around it, the loops that take payloads or typed roots,   *)
(* and the application's own loop that leaves early.                       *)
(***************************************************************************)
EXTENDS Framing, Validation

-----------------------------------------------------------------------------
(* DeframerExt: each method puts an adapter around the deframer built so far. *)

ObservedBy(deframer) == [deframer EXCEPT !.adapters = Append(@, [kind |-> "observe"])]
ValidatedBy(deframer, v) ==
    [deframer EXCEPT !.adapters = Append(@, [kind |-> "validate", validator |-> v])]

\* What an adapter returns for what the deframer inside it returned.
PassesAll(adapter, got) == got  \* mutant
Through(adapter, got) ==
    IF /\ adapter.kind = "validate"
       /\ got.kind = "Some"
       /\ Verdict(adapter.validator, got.payload) # "ok"
    THEN Result("ValidationFailed")
    ELSE got

\* The deframer's result at offset p behind its first k adapters.
ReadBehind(deframer, k, bytes, p) ==
    LET behind[j \in 0..k] ==
            IF j = 0 THEN ReadAndDeframe(deframer.format, bytes, p, deframer.max)
            ELSE Through(deframer.adapters[j], behind[j - 1])
    IN  behind[k]

-----------------------------------------------------------------------------
(* StreamReader *)

\* read_message
ReadMessage(deframer, bytes, p) == ReadBehind(deframer, Len(deframer.adapters), bytes, p)

\* The payloads that an adapter's callback is called with, given the result inside it.
CallBack(adapter, got) ==
    IF adapter.kind = "observe" /\ got.kind = "Some" THEN << got.payload >> ELSE << >>

\* Those of each adapter during one read_message.
CalledBack(deframer, bytes, p) ==
    [k \in DOMAIN deframer.adapters |->
        CallBack(deframer.adapters[k], ReadBehind(deframer, k - 1, bytes, p))]

\* StreamDeserialize::from_payload with flatbuffers::root, which verifies the root
\* with the default limits; the loops over raw payloads have none.
Raw == "raw"
AnyRoot(type, got) ==  \* mutant
    IF got.kind = "Some" /\ type # Raw /\ ~Verifies(AnyTable, DefaultLimits, got.payload)
    THEN Result("FlatbuffersError") ELSE got
FromPayload(type, got) ==
    IF got.kind = "Some" /\ type # Raw /\ ~Verifies(type, DefaultLimits, got.payload)
    THEN Result("FlatbuffersError") ELSE got

\* What a loop over the messages comes to, given the result of a read_message, what its
\* observers were called with, and what the loop comes to from each offset on.
Collected(got, called, from) ==
    IF got.kind # "Some"
    THEN [payloads |-> << >>, end |-> got.kind, seen |-> called]
    ELSE LET rest == from[got.next]
         IN  [payloads |-> << got.payload >> \o rest.payloads,
              end      |-> rest.end,
              seen     |-> [k \in DOMAIN called |-> called[k] \o rest.seen[k]]]

\* process_all, and process_typed of a type, from offset `first` on: the payloads given
\* to the closure, what ended the loop, and the payloads given to each observer.
Process(deframer, type, bytes, first) ==
    LET from[p \in 0..Len(bytes)] ==
            Collected(FromPayload(type, ReadMessage(deframer, bytes, p)),
                      CalledBack(deframer, bytes, p), from)
    IN  from[first]

\* A loop over messages() that examines each payload as a root of the type, and leaves
\* at the first that is wanted: how many it has examined, how it ended, and where.
Examined(got, wanted, p, from) ==
    IF got.kind # "Some" THEN [examined |-> 0, end |-> got.kind, next |-> p]
    ELSE IF got.payload \in wanted THEN [examined |-> 1, end |-> "found", next |-> got.next]
    ELSE [from[got.next] EXCEPT !.examined = @ + 1]
FirstWanted(deframer, type, wanted, bytes) ==
    LET from[p \in 0..Len(bytes)] ==
            Examined(FromPayload(type, ReadMessage(deframer, bytes, p)), wanted, p, from)
    IN  from[0]

=============================================================================
