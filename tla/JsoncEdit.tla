------------------------------- MODULE JsoncEdit -------------------------------
(***************************************************************************)
(* The two readers of an OpenCode configuration and the edit planned on    *)
(* it.  The diagnosis reads the file as JSON once comments and trailing    *)
(* commas are gone (adapters/clients/opencode) and recommends a new value  *)
(* for a setting it found; the planner finds the setting again with a      *)
(* parser of its own that keeps the place of every scalar                  *)
(* (planning/opencode), and the edit replaces the text at that place.      *)
(*                                                                         *)
(* A file is the sequence of its tokens, [kind, text]; white space is left *)
(* out.  The text of a key is the sequence of its dot-separated parts, so  *)
(* that the path of a setting, the keys that lead to it joined by dots, is *)
(* their concatenation.                                                    *)
(***************************************************************************)
EXTENDS Integers, Sequences

Token(kind, text) == [kind |-> kind, text |-> text]
Mark(kind) == Token(kind, <<>>)

At(doc, p, kind) == p \in DOMAIN doc /\ doc[p].kind = kind
IndexPart == <<"[0]", "[1]", "[2]", "[3]">>
Put(f, x, y) == [z \in DOMAIN f \cup {x} |-> IF z = x THEN y ELSE f[z]]

-----------------------------------------------------------------------------
(* locate_scalar_spans.  A parser's state is the place it has come to, 0   *)
(* once it failed, and the spans found so far.                             *)
State(pos, spans) == [pos |-> pos, spans |-> spans]
Failed == State(0, <<>>)

RECURSIVE Skip(_, _)
Skip(doc, p) == IF At(doc, p, "comment") THEN Skip(doc, p + 1) ELSE p

RECURSIVE ObjectAt(_, _, _, _), Members(_, _, _, _), ArrayAt(_, _, _, _),
          Items(_, _, _, _, _), ValueAt(_, _, _, _)

ObjectAt(doc, p, path, spans) ==
    LET next == Skip(doc, p + 1)
    IN  IF ~At(doc, p, "{") THEN Failed
        ELSE IF At(doc, next, "}") THEN State(next + 1, spans)
        ELSE Members(doc, next, path, spans)

Members(doc, p, path, spans) ==
    LET colon == Skip(doc, p + 1)
        value == ValueAt(doc, colon + 1, path \o doc[p].text, spans)
        comma == Skip(doc, value.pos)
        next == Skip(doc, comma + 1)
    IN  IF ~At(doc, p, "string") \/ ~At(doc, colon, ":") THEN Failed
        ELSE IF value.pos = 0 THEN Failed
        ELSE IF At(doc, comma, "}") THEN State(comma + 1, value.spans)
        ELSE IF ~At(doc, comma, ",") THEN Failed
        ELSE IF At(doc, next, "}") THEN State(next + 1, value.spans)
        ELSE Members(doc, next, path, value.spans)

ArrayAt(doc, p, path, spans) ==
    LET next == Skip(doc, p + 1)
    IN  IF At(doc, next, "]") THEN State(next + 1, spans)
        ELSE Items(doc, next, path, 1, spans)

Items(doc, p, path, index, spans) ==
    LET value == ValueAt(doc, p, path \o <<IndexPart[index]>>, spans)
        comma == Skip(doc, value.pos)
        next == Skip(doc, comma + 1)
    IN  IF value.pos = 0 THEN Failed
        ELSE IF At(doc, comma, "]") THEN State(comma + 1, value.spans)
        ELSE IF ~At(doc, comma, ",") THEN Failed
        ELSE IF At(doc, next, "]") THEN State(next + 1, value.spans)
        ELSE Items(doc, next, path, index + 1, value.spans)

\* A later scalar with the same path replaces the span of an earlier one.
ValueAt(doc, p0, path, spans) ==
    LET p == Skip(doc, p0)
    IN  IF At(doc, p, "{") THEN ObjectAt(doc, p, path, spans)
        ELSE IF At(doc, p, "[") THEN ArrayAt(doc, p, path, spans)
        ELSE IF At(doc, p, "string") \/ At(doc, p, "literal")
        THEN State(p + 1, Put(spans, path, p))
        ELSE Failed

\* The place of every scalar by its path, as an optional value.
LocateScalarSpans(doc) ==
    LET root == ObjectAt(doc, Skip(doc, 1), <<>>, <<>>)
    IN  IF root.pos # 0 /\ Skip(doc, root.pos) = Len(doc) + 1 THEN {root.spans} ELSE {}

-----------------------------------------------------------------------------
(* parse_jsonc: without comments and without every comma that a closing    *)
(* bracket follows, the file is JSON.  A value is [kind, members, items,   *)
(* token]; a key that is repeated keeps its last value.                    *)
WithoutComments(doc) == SelectSeq(doc, LAMBDA t : t.kind # "comment")

WithoutTrailingCommas(doc) ==
    LET kept == {i \in DOMAIN doc : ~(/\ doc[i].kind = ","
                                      /\ At(doc, i + 1, "}") \/ At(doc, i + 1, "]"))}
        place(n) == CHOOSE i \in kept : n = 1 + Len(SelectSeq([j \in 1..(i-1) |-> j], LAMBDA j : j \in kept))
    IN  [n \in 1..Len(SelectSeq([i \in DOMAIN doc |-> i], LAMBDA i : i \in kept)) |-> doc[place(n)]]

JsonObject(members) == [kind |-> "object", members |-> members, items |-> <<>>, token |-> Mark("none")]
JsonArray(items) == [kind |-> "array", members |-> <<>>, items |-> items, token |-> Mark("none")]
JsonScalar(token) == [kind |-> "scalar", members |-> <<>>, items |-> <<>>, token |-> token]

Read(pos, value) == [pos |-> pos, value |-> value]
Unreadable == Read(0, JsonObject(<<>>))

RECURSIVE JsonAt(_, _), JsonMembers(_, _, _), JsonItems(_, _, _)

JsonAt(doc, p) ==
    IF At(doc, p, "{")
    THEN IF At(doc, p + 1, "}") THEN Read(p + 2, JsonObject(<<>>)) ELSE JsonMembers(doc, p + 1, <<>>)
    ELSE IF At(doc, p, "[")
    THEN IF At(doc, p + 1, "]") THEN Read(p + 2, JsonArray(<<>>)) ELSE JsonItems(doc, p + 1, <<>>)
    ELSE IF At(doc, p, "string") \/ At(doc, p, "literal") THEN Read(p + 1, JsonScalar(doc[p]))
    ELSE Unreadable

JsonMembers(doc, p, members) ==
    LET value == JsonAt(doc, p + 2)
        now == Put(members, doc[p].text, value.value)
    IN  IF ~At(doc, p, "string") \/ ~At(doc, p + 1, ":") THEN Unreadable
        ELSE IF value.pos = 0 THEN Unreadable
        ELSE IF At(doc, value.pos, "}") THEN Read(value.pos + 1, JsonObject(now))
        ELSE IF At(doc, value.pos, ",") THEN JsonMembers(doc, value.pos + 1, now)
        ELSE Unreadable

JsonItems(doc, p, items) ==
    LET value == JsonAt(doc, p)
        now == Append(items, value.value)
    IN  IF value.pos = 0 THEN Unreadable
        ELSE IF At(doc, value.pos, "]") THEN Read(value.pos + 1, JsonArray(now))
        ELSE IF At(doc, value.pos, ",") THEN JsonItems(doc, value.pos + 1, now)
        ELSE Unreadable

\* The document, as an optional value.  _read_config warns of a root that is no object.
ParseJsonc(doc) ==
    LET tokens == WithoutTrailingCommas(WithoutComments(doc))
        root == JsonAt(tokens, 1)
    IN  IF root.pos = Len(tokens) + 1 /\ root.value.kind = "object" THEN {root.value} ELSE {}

\* extract_settings: every scalar under a key of `keys`, by its path.
RECURSIVE Scalars(_, _), Visit(_, _, _)
Scalars(value, path) ==
    CASE value.kind = "scalar" -> {<<path, value.token>>}
      [] value.kind = "object" -> UNION {Scalars(value.members[k], path \o k) : k \in DOMAIN value.members}
      [] value.kind = "array" ->
            UNION {Scalars(value.items[i], path \o <<IndexPart[i]>>) : i \in DOMAIN value.items}

Visit(value, path, keys) ==
    UNION {(IF k \in keys THEN Scalars(value.members[k], path \o k) ELSE {})
              \cup Visit(value.members[k], path \o k, keys) : k \in DOMAIN value.members}
    \cup UNION {Visit(value.items[i], path \o <<IndexPart[i]>>, keys) : i \in DOMAIN value.items}

ExtractSettings(doc, keys) == UNION {Visit(root, <<>>, keys) : root \in ParseJsonc(doc)}

-----------------------------------------------------------------------------
(* The planned change: the scalar at the setting's span gets the           *)
(* recommended value; refused, {}, when the scalar is not there or is not  *)
(* the one that was diagnosed.                                             *)
PlannedEdit(doc, path, current, recommended) ==
    {[doc EXCEPT ![spans[path]] = recommended] :
        spans \in {s \in LocateScalarSpans(doc) : path \in DOMAIN s /\ doc[s[path]] = current}}
=============================================================================
