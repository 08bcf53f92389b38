--------------------------------- MODULE Codec ---------------------------------
(***************************************************************************)
(* A message on its way through a dump: grpc-dump makes it readable with   *)
(* the types it has or can guess (internal/proto_decoder), the user may    *)
(* edit what is written, and grpc-fixture or grpc-replay encodes it again, *)
(* perhaps with other types.                                               *)
(*                                                                         *)
(* A message is the sequence of its fields as they are on the wire. What   *)
(* matters of a field's content is what it can be read as, ASCII text, a   *)
(* message, packed numbers or several of them; a tag stands for the rest.  *)
(* Zeros, the elements of packed fields and the numbers that a field of    *)
(* the wrong numeric type would turn into are left out.                    *)
(***************************************************************************)
EXTENDS Integers, Sequences, SequencesExt

CONSTANTS
    Truth,     \* the type with which the message's sender has made it
    Versions,  \* what the tools' .proto files may say the type is
    Recorded   \* the messages that are recorded

(* A type maps field numbers to                                            *)
(*    [type, repeated, named, sub]                                         *)
(* where `named` says that the name is from a .proto file and not made up. *)
(* A field is [num, wire, tag, reads, fields], and a message by itself     *)
(* [reads, fields].                                                        *)
EmptyType == <<>>

VARIABLES
    stage,      \* how far the message has come
    raw,        \* RawMessage as it was recorded; kept, whether the dump still has it
    kept,
    resolvers,  \* those of the tool that is running: at most one, of {} if it does
                \* not know the method and of {D} if it does
    dumpedWith, \* history: grpc-dump's resolvers
    shown,      \* Message in the dump: {} for null
    edited,     \* whether the user has changed it
    out         \* what the encoder returns: {} for an error

vars == <<stage, raw, kept, resolvers, dumpedWith, shown, edited, out>>

Empty == [reads |-> {"message"}, fields |-> <<>>]

\* Messages are recorded with their bytes, but for the empty ones of a client: grpc
\* hands those over as nil (if they were not compressed), which RecvMsg records as it
\* is, and the dump has null for the raw message. SendMsg makes it an empty slice.
Init ==
    /\ stage = "recorded" /\ raw \in Recorded /\ kept \in BOOLEAN
    /\ kept \/ raw = Empty
    /\ resolvers = <<>> /\ dumpedWith = <<>>
    /\ shown = {} /\ edited = FALSE /\ out = {}

Nums(fields) == {fields[i].num : i \in DOMAIN fields}
Of(fields, n) == SelectSeq(fields, LAMBDA f : f.num = n)
Only(S) == CHOOSE x \in S : TRUE

\* The fields of one embedded message that came in several parts.
Merged(fs) == FlattenSeq([i \in DOMAIN fs |-> fs[i].fields])

IsMessage(t) == t.type \in {"message", "map"}

-----------------------------------------------------------------------------
(* Protobuf, as protoreflect's dynamic messages do it.                     *)

\* Unmarshal succeeds with type D: a field it knows has a content it can have. Numbers
\* take any numeric wire type, and bytes as packed ones.
RECURSIVE Unmarshals(_, _)
Unmarshals(D, fields) ==
    \A i \in DOMAIN fields : fields[i].num \in DOMAIN D =>
       LET f == fields[i] t == D[f.num] IN
       CASE IsMessage(t)       -> "message" \in f.reads /\ Unmarshals(t.sub, f.fields)
         [] t.type = "string"  -> f.wire = "bytes"
         [] OTHER              -> f.wire # "group" /\ (f.wire = "bytes" => "packed" \in f.reads)

\* The JSON of a message of type D; fields that D does not know are not in it.
RECURSIVE JSON(_, _)
JSON(D, fields) ==
    LET Value(t, f) == IF IsMessage(t) THEN [tag |-> "", sub |-> JSON(t.sub, f.fields)]
                                       ELSE [tag |-> f.tag, sub |-> EmptyType]
        Values(t, fs) ==
           IF t.repeated THEN [i \in DOMAIN fs |-> Value(t, fs[i])]
           ELSE <<Value(t, [Last(fs) EXCEPT !.fields = Merged(fs)])>>
    IN [n \in Nums(fields) \cap DOMAIN D |->
          [named |-> D[n].named, type |-> D[n].type, repeated |-> D[n].repeated,
           values |-> Values(D[n], Of(fields, n))]]

\* Mutant: keys that the type does not have are passed over.
RECURSIVE ParsesLoosely(_, _)
ParsesLoosely(D, json) ==
    \A n \in DOMAIN json : n \in DOMAIN D /\ json[n].named =>
       /\ D[n].type = json[n].type /\ D[n].repeated = json[n].repeated
       /\ IsMessage(D[n]) =>
             \A i \in DOMAIN json[n].values : ParsesLoosely(D[n].sub, json[n].values[i].sub)

\* jsonpb reads it as a message of type D: every key is a name in D, with its type.
RECURSIVE Parses(_, _)
Parses(D, json) ==
    \A n \in DOMAIN json :
       /\ json[n].named /\ n \in DOMAIN D
       /\ D[n].type = json[n].type /\ D[n].repeated = json[n].repeated
       /\ IsMessage(D[n]) =>
             \A i \in DOMAIN json[n].values : Parses(D[n].sub, json[n].values[i].sub)

WireOf(type) == CASE type = "int64" -> "varint" [] type = "double" -> "fixed64" [] OTHER -> "bytes"

\* Marshal writes the fields that D knows in the order of their numbers.
RECURSIVE Marshal(_, _)
Marshal(D, json) ==
    LET FieldsOf(n) ==
           [i \in DOMAIN json[n].values |->
              [num |-> n, wire |-> WireOf(D[n].type), tag |-> json[n].values[i].tag,
               reads |-> {IF IsMessage(D[n]) THEN "message" ELSE "text"},
               fields |-> Marshal(D[n].sub, json[n].values[i].sub)]]
        nums == SetToSortSeq(DOMAIN json \cap DOMAIN D, <)
    IN FlattenSeq([i \in DOMAIN nums |-> FieldsOf(nums[i])])

-----------------------------------------------------------------------------
(* unknownFieldResolver: a type with which nothing stays hidden.           *)

MadeUp(type, sub, fs) ==
    [type |-> type, repeated |-> Len(fs) > 1, named |-> FALSE, sub |-> sub]

\* What a nested field is searched as: all of it, or the first of a repeated one.
Searched(t, fs) == IF t.repeated THEN fs[1].fields ELSE Merged(fs)

RECURSIVE Enrich(_, _)

\* detectUnknownFieldType: from the first of the fields with this number.
Detect(fs) ==
    CASE fs[1].wire = "varint"  -> {MadeUp("int64", EmptyType, fs)}
      [] fs[1].wire = "fixed64" -> {MadeUp("double", EmptyType, fs)}
      [] fs[1].wire = "fixed32" -> {MadeUp("float", EmptyType, fs)}
      [] fs[1].wire = "group"   -> {}
      [] fs[1].wire = "bytes" /\ ("text" \in fs[1].reads \/ "message" \notin fs[1].reads) ->
            {MadeUp("string", EmptyType, fs)}
      [] OTHER -> {MadeUp("message", D, fs) : D \in Enrich(EmptyType, fs[1].fields)}

\* Mutant: fields that are known are not searched.
EnrichTop(D, fields) ==
    LET unknown == Nums(fields) \ DOMAIN D IN
    IF \E n \in unknown : Detect(Of(fields, n)) = {} THEN {}
    ELSE {[n \in DOMAIN D \cup unknown |->
              IF n \in DOMAIN D THEN D[n] ELSE Only(Detect(Of(fields, n)))]}

\* enrichMessage: {} is an error. A map is not a message to it.
Enrich(D, fields) ==
    LET deeper(n) ==
           IF D[n].type = "map" THEN {}
           ELSE {[D[n] EXCEPT !.sub = sub] : sub \in Enrich(D[n].sub, Searched(D[n], Of(fields, n)))}
        found(n) ==
           CASE n \notin DOMAIN D                        -> Detect(Of(fields, n))
             [] n \in Nums(fields) /\ IsMessage(D[n])     -> deeper(n)
             [] OTHER                                    -> {D[n]}
        all == DOMAIN D \cup Nums(fields)
    IN IF \E n \in all : found(n) = {} THEN {} ELSE {[n \in all |-> Only(found(n))]}

-----------------------------------------------------------------------------
(* The tools.                                                              *)

\* A tool starts with the .proto files it is given: none, or some that do or do not
\* define the method. It fails if they define no service at all, and whenever it is
\* given descriptors, whose paths it takes from the other option.
StartTool(from, to) ==
    /\ stage = from
    /\ \/ stage' = "failed" /\ UNCHANGED resolvers
       \/ stage' = to /\ resolvers' \in {<<>>, <<{}>>} \cup {<<{D}>> : D \in Versions}

StartDump ==
    /\ StartTool("recorded", "decode")
    /\ dumpedWith' = resolvers'
    /\ UNCHANGED <<raw, kept, shown, edited, out>>

\* The first resolver that knows the method; the decoder's last one is emptyResolver,
\* which knows every method, and no field.
Resolved == IF resolvers # <<>> /\ resolvers[1] # {} THEN Only(resolvers[1]) ELSE EmptyType

\* enrichDecodeDescriptor, whose failure is only a warning.
DecodeType ==
    IF Unmarshals(Resolved, raw.fields) /\ Enrich(Resolved, raw.fields) # {}
    THEN Only(Enrich(Resolved, raw.fields)) ELSE Resolved

\* Decode, and dumpInterceptor: a message that does not decode is written as null.
Decode ==
    /\ stage = "decode"
    /\ shown' = IF "message" \in raw.reads /\ Unmarshals(DecodeType, raw.fields)
                THEN {JSON(DecodeType, raw.fields)} ELSE {}
    /\ stage' = "dumped"
    /\ UNCHANGED <<raw, kept, resolvers, dumpedWith, edited, out>>

\* The user changes a value in the dump, and may remove the raw message.
Edit ==
    /\ stage = "dumped" /\ ~edited
    /\ \E json \in shown : \E n \in DOMAIN json :
          /\ json[n].type \in {"int64", "string"}
          /\ shown' = {[json EXCEPT ![n].values[1].tag = "edited"]}
    /\ edited' = TRUE
    /\ kept' \in BOOLEAN
    /\ UNCHANGED <<stage, raw, resolvers, dumpedWith, out>>

StartEncoder ==
    /\ StartTool("dumped", "encode")
    /\ UNCHANGED <<raw, kept, dumpedWith, shown, edited, out>>

KnowsMethod == resolvers \notin {<<>>, <<{}>>}

\* encodeFromHumanReadable; the encoder has no emptyResolver.
FromHumanReadable ==
    {[reads |-> {"message"}, fields |-> Marshal(Resolved, json)] :
        json \in {j \in shown : KnowsMethod /\ Parses(Resolved, j)}}

\* Mutant: the raw message is used when there is one.
EncodeRaw ==
    /\ stage = "encode"
    /\ out' = IF kept THEN {raw} ELSE FromHumanReadable
    /\ stage' = "encoded"
    /\ UNCHANGED <<raw, kept, resolvers, dumpedWith, shown, edited>>

\* What is readable comes first, the raw message is what it falls back to.
Encode ==
    /\ stage = "encode"
    /\ out' = IF FromHumanReadable = {} /\ kept THEN {raw} ELSE FromHumanReadable
    /\ stage' = "encoded"
    /\ UNCHANGED <<raw, kept, resolvers, dumpedWith, shown, edited>>

Stop == stage \in {"encoded", "failed"} /\ UNCHANGED vars

Next == StartDump \/ Decode \/ Edit \/ StartEncoder \/ Encode \/ Stop

Spec == Init /\ [][Next]_vars

-----------------------------------------------------------------------------
(* Properties.                                                             *)

\* The fields of the message and, at every depth, the JSON that stands for them.
RECURSIVE Whole(_, _)
Whole(json, fields) ==
    /\ Nums(fields) \subseteq DOMAIN json
    /\ \A n \in Nums(fields) :
          LET fs == Of(fields, n)
              of(i) == json[n].values[i].sub
          IN json[n].type = "message" =>
                IF json[n].repeated THEN \A i \in DOMAIN fs : Whole(of(i), fs[i].fields)
                                    ELSE Whole(of(1), Merged(fs))

\* The fields inside a field whose type is a message.
Embedded(D, f) == IF f.num \in DOMAIN D /\ IsMessage(D[f.num]) THEN f.fields ELSE <<>>
SubType(D, n) == IF n \in DOMAIN D THEN D[n].sub ELSE EmptyType

\* The same fields in the same order: the bytes that are sent and compared.
RECURSIVE Bare(_, _)
Bare(D, fields) ==
    [i \in DOMAIN fields |-> LET f == fields[i] IN
        [num |-> f.num, wire |-> f.wire, tag |-> f.tag,
         sub |-> Bare(SubType(D, f.num), Embedded(D, f))]]

RECURSIVE InOrder(_, _)
InOrder(D, fields) ==
    \A i \in DOMAIN fields :
       /\ \A j \in DOMAIN fields : i < j => fields[i].num <= fields[j].num
       /\ Len(Of(fields, fields[i].num)) > 1 =>
             fields[i].num \in DOMAIN D /\ D[fields[i].num].repeated
       /\ InOrder(SubType(D, fields[i].num), Embedded(D, fields[i]))

\* A dump that nobody has edited says what was recorded, to any tool, with the types
\* of whatever version or with none: encoded again, a message means to its receiver
\* what the original meant, and one whose sender wrote its fields in order is the same
\* byte by byte, as replay compares it. There are two exceptions. A message may have
\* fields that the dump does not show: the encoder prefers what it shows, and those are
\* lost. And an empty request that was recorded without its bytes is an error to a tool
\* that does not know its method.
RoundTrip ==
    /\ stage = "encoded" /\ ~edited
    /\ \A json \in shown : Whole(json, raw.fields)
    /\ kept \/ KnowsMethod
    =>
       /\ out # {}
       /\ JSON(Truth, Only(out).fields) = JSON(Truth, raw.fields)
       /\ InOrder(Truth, raw.fields) => Bare(Truth, Only(out).fields) = Bare(Truth, raw.fields)

\* No number more than once, no map and no group, at any depth.
RECURSIVE Plain(_, _)
Plain(D, fields) ==
    /\ \A i \in DOMAIN fields : fields[i].wire # "group" /\ Len(Of(fields, fields[i].num)) = 1
    /\ \A i \in DOMAIN fields :
          LET n == fields[i].num IN
          IF n \in DOMAIN D THEN D[n].type # "map" /\ Plain(D[n].sub, fields[i].fields)
                            ELSE Plain(EmptyType, fields[i].fields)

\* unknown_message.go:22, "This means that all unknown fields will show up in the
\* dump": they do, under whatever types, with text taken for messages and messages for
\* text, as long as no number occurs twice and there is neither a map nor a group.
AllShown ==
    stage = "dumped" /\ "message" \in raw.reads /\ Plain(Truth, raw.fields) =>
       \E json \in shown : Whole(json, raw.fields)

\* The message has no field that D does not know.
RECURSIVE KnownTo(_, _)
KnownTo(D, fields) ==
    \A i \in DOMAIN fields :
       /\ fields[i].num \in DOMAIN D
       /\ IsMessage(D[fields[i].num]) => KnownTo(D[fields[i].num].sub, fields[i].fields)

\* With the same types on both sides, and no field that they lack, an edit arrives:
\* it is what is encoded, and the raw message beside it does not win.
EditArrives ==
    stage = "encoded" /\ edited /\ resolvers = dumpedWith =>
       (KnowsMethod /\ KnownTo(Resolved, raw.fields) =>
           /\ out # {}
           /\ {JSON(Resolved, Only(out).fields)} = shown)

=============================================================================
