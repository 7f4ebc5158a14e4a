------------------------------ MODULE JsonNode ------------------------------
(***************************************************************************)
(* The JSON that the parity bridge and the reference runner exchange, and   *)
(* the two ways a binary node is put into it: normalizeJsonNode of the      *)
(* runner (dev/tools/run_baileys_reference.mts) and normalize_binary_node/1 *)
(* of the suite (test/support/parity/case.ex).  A JSON value is a tuple     *)
(* whose first element names its type.  A node of the program, on either    *)
(* side, is a record of a tag, a function from attribute names to values    *)
(* and a content, itself tagged: nothing, text, bytes or a list of nodes.   *)
(***************************************************************************)
EXTENDS Naturals, Sequences, Functions

Undefined == <<"undefined">>
Null      == <<"null">>
Str(s)    == <<"string", s>>
Num(n)    == <<"number", n>>
Obj(f)    == <<"object", f>>
Arr(s)    == <<"array", s>>

IsString(v) == v[1] = "string"
IsNumber(v) == v[1] = "number"
IsObject(v) == v[1] = "object"
IsArray(v)  == v[1] = "array"
Absent(v)   == v \in {Undefined, Null}

\* The member f of an object, undefined where it is not there.
Field(o, f) == IF f \in DOMAIN o THEN o[f] ELSE Undefined

Base64(b) == <<"base64", b>>        \* the text that stands for the bytes b

JsonBytes(b) == Obj([type |-> Str("binary"), base64 |-> Str(Base64(b))])

IsJsonBytes(v) ==
    /\ IsObject(v)
    /\ Field(v[2], "type") = Str("binary")
    /\ IsString(Field(v[2], "base64"))

-----------------------------------------------------------------------------
(* Nodes of the program. *)

NoContent == <<"none">>
Text(s)   == <<"text", s>>
Bytes(b)  == <<"bytes", b>>
Nodes(s)  == <<"nodes", s>>

Node(tag, attrs, content) == [tag |-> tag, attrs |-> attrs, content |-> content]

NoAttrs == [a \in {} |-> {}]

\* normalizeJsonNode and normalizeContent
RECURSIVE NormalizeJsonNode(_)
NormalizeJsonNode(n) ==
    LET c == n.content
        content == CASE c = NoContent    -> Null
                     [] c[1] = "text"  -> Str(c[2])
                     [] c[1] = "bytes" -> JsonBytes(c[2])
                     [] c[1] = "nodes" ->
                            Arr([i \in DOMAIN c[2] |-> NormalizeJsonNode(c[2][i])])
    IN  Obj([tag     |-> Str(n.tag),
             attrs   |-> Obj([a \in DOMAIN n.attrs |-> Str(n.attrs[a])]),
             content |-> content])

\* normalize_binary_node/1 and normalize_binary_content/1 of the suite.
RECURSIVE NormalizeBinaryNode(_)
NormalizeBinaryNode(n) ==
    LET c == n.content
    IN  Obj([tag     |-> Str(n.tag),
             attrs   |-> Obj([a \in DOMAIN n.attrs |-> Str(n.attrs[a])]),
             content |->
               IF c = NoContent THEN Null
               ELSE IF c[1] = "text" THEN Str(c[2])
               ELSE IF c[1] = "bytes" THEN JsonBytes(c[2])
               ELSE Arr([i \in DOMAIN c[2] |-> NormalizeBinaryNode(c[2][i])])])

\* assertJsonNode at the top, decodeContent below it: what they accept.
IsJsonNode(v) == IsObject(v) /\ IsString(Field(v[2], "tag"))

RECURSIVE DecodableContent(_)
DecodableContent(v) ==
    \/ Absent(v)
    \/ IsString(v)
    \/ IsJsonBytes(v)
    \/ IsArray(v) /\ \A i \in DOMAIN v[2] :
                        IsObject(v[2][i]) /\ DecodableContent(Field(v[2][i][2], "content"))

\* decodeAttrs: attributes without a value are dropped.
DecodeAttrs(v) ==
    IF Absent(v) THEN NoAttrs
    ELSE LET kept == {a \in DOMAIN v[2] : ~Absent(v[2][a])}
         IN  [a \in kept |-> v[2][a][2]]

\* decodeJsonNode and decodeContent
RECURSIVE DecodeJsonNode(_)
DecodeJsonNode(v) ==
    LET c == Field(v[2], "content")
    IN  Node(Field(v[2], "tag")[2], DecodeAttrs(Field(v[2], "attrs")),
             CASE Absent(c)      -> NoContent
               [] IsString(c)    -> Text(c[2])
               [] IsJsonBytes(c) -> Bytes(c[2].base64[2][2])
               [] IsArray(c)     ->
                      Nodes([i \in DOMAIN c[2] |-> DecodeJsonNode(c[2][i])]))
=============================================================================
