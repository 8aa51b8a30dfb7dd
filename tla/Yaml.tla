-------------------------------- MODULE Yaml --------------------------------
(***************************************************************************)
(* The frontmatter of a bundle's documents: what yamlfmt.py writes, and    *)
(* what the subset parser of validate.py reads.                            *)
(*                                                                         *)
(* A value is a scalar, a list of values or a map, a sequence of pairs     *)
(* <<key, value>>.  A string is a sequence of characters; a line is its    *)
(* indentation, whether it opens an item, its key and the rest.            *)
(***************************************************************************)
EXTENDS Integers, Sequences, SequencesExt

CONSTANTS
    Values,   \* what may be written, with the values it is made of
    Nesting   \* how many maps and lists are opened within each other in each

Str(chars) == [type |-> "str", chars |-> chars]
Bare(word) == [type |-> "bare", word |-> word]      \* true, null, 7, 0.5
List(items) == [type |-> "list", items |-> items]
Map(pairs) == [type |-> "map", pairs |-> pairs]

NoKey == "none"
Nothing == Bare("nothing after the colon")

\* A dict has one value for a key.  What a list holds is no list, which _emit_list refuses,
\* and no empty dict: its {} would be read as a string there.
Writable(v) ==
    /\ v.type \in {"str", "bare", "list", "map"}
    /\ v.type = "str" => v = Str(v.chars) /\ v.chars \in Seq(STRING)
    /\ v.type = "bare" => v = Bare(v.word) /\ v \notin {Nothing, Bare("[]"), Bare("{}")}
    /\ v.type = "list" =>
          /\ v = List(v.items) /\ v.items \in Seq(Values)
          /\ \A i \in DOMAIN v.items : /\ v.items[i].type # "list" /\ v.items[i] # Map(<<>>)
                                       /\ Nesting[v.items[i]] < Nesting[v]
    /\ v.type = "map" =>
          /\ v = Map(v.pairs) /\ v.pairs \in Seq(STRING \X Values)
          /\ \A i \in DOMAIN v.pairs : /\ v.pairs[i][1] # NoKey
                                       /\ Nesting[v.pairs[i][2]] < Nesting[v]
                                       /\ \A j \in DOMAIN v.pairs :
                                             v.pairs[i][1] = v.pairs[j][1] => i = j

ASSUME ValuesAssumption == Nesting \in [Values -> Nat] /\ \A v \in Values : Writable(v)

(***************************************************************************)
(* Strings                                                                 *)
(***************************************************************************)
Escaped == [newline |-> <<"backslash", "n">>, tab |-> <<"backslash", "t">>,
            return |-> <<"backslash", "r">>, control |-> <<"backslash", "x", "0", "1">>]
Escape(c) == IF c \in {"backslash", "quote"} THEN <<"backslash", c>>
             ELSE IF c \in DOMAIN Escaped THEN Escaped[c] ELSE <<c>>

\* Mutant of Quote: a backslash is written as it is.
QuoteRaw(chars) ==
    <<"quote">> \o FlattenSeq([i \in DOMAIN chars |->
                      IF chars[i] = "backslash" THEN <<"backslash">> ELSE Escape(chars[i])])
    \o <<"quote">>

Quote(chars) == <<"quote">> \o FlattenSeq([i \in DOMAIN chars |-> Escape(chars[i])]) \o <<"quote">>

Unescaped == [n |-> "newline", t |-> "tab", r |-> "return", x |-> "control"]
Width(s, i) == IF s[i] # "backslash" THEN 1 ELSE IF s[i + 1] = "x" THEN 4 ELSE 2
Character(s, i) == IF s[i] # "backslash" THEN s[i]
                   ELSE IF s[i + 1] \in DOMAIN Unescaped THEN Unescaped[s[i + 1]] ELSE s[i + 1]

\* _parse_dquoted, quotes and all: <<>> where it raises, <<chars>> otherwise.
Unescape(s) ==
    LET read[i \in 2 .. Len(s)] ==
            IF i = Len(s) THEN << <<>> >>
            ELSE IF /\ i + Width(s, i) <= Len(s)
                    /\ s[i] = "backslash" =>
                          s[i + 1] \in {"quote", "backslash", "/"} \cup DOMAIN Unescaped
                    /\ read[i + Width(s, i)] # <<>>
            THEN << <<Character(s, i)>> \o read[i + Width(s, i)][1] >>
            ELSE <<>>
    IN IF Len(s) < 2 \/ s[Len(s)] # "quote" THEN <<>> ELSE read[2]

(***************************************************************************)
(* Writing                                                                 *)
(***************************************************************************)
Line(indent, item, key, rest) == [indent |-> indent, item |-> item, key |-> key, rest |-> rest]

\* Maps and lists with something in them take lines of their own.
Opens(v) == \/ v.type = "map" /\ v.pairs # <<>>
            \/ v.type = "list" /\ v.items # <<>>

Scalar(v) == IF v.type = "str" THEN [type |-> "quoted", chars |-> Quote(v.chars)]
             ELSE IF v.type = "map" THEN Bare("{}")
             ELSE IF v.type = "list" THEN Bare("[]") ELSE v

\* The items of a list stand no deeper than its key.
EmitMap(pairs, depth, lines) ==
    FlattenSeq([i \in DOMAIN pairs |->
        LET k == pairs[i][1] v == pairs[i][2] IN
        IF Opens(v)
        THEN <<Line(2 * depth, FALSE, k, Nothing)>>
             \o lines[<<v, IF v.type = "map" THEN depth + 1 ELSE depth>>]
        ELSE <<Line(2 * depth, FALSE, k, Scalar(v))>>])

\* The first line of a map in a list stands behind its dash.
EmitList(items, depth, lines) ==
    FlattenSeq([i \in DOMAIN items |->
        LET v == items[i] IN
        IF Opens(v)
        THEN LET inner == lines[<<v, depth + 1>>]
             IN <<[inner[1] EXCEPT !.indent = 2 * depth, !.item = TRUE]>> \o Tail(inner)
        ELSE <<Line(2 * depth, TRUE, NoKey, Scalar(v))>>])

Containers == {v \in Values : v.type \in {"map", "list"}}

\* The lines of a map or a list at a depth.
Lines[a \in Containers \X Nat] ==
    IF a[1].type = "map" THEN EmitMap(a[1].pairs, a[2], Lines)
    ELSE EmitList(a[1].items, a[2], Lines)

Emit(map) == Lines[<<map, 0>>]

(***************************************************************************)
(* Reading.  A call of _map or of _list returns what it read and the line  *)
(* the parser is at then; spliced, when the call is for an item's map and  *)
(* the line at hand has lost its dash.                                     *)
(***************************************************************************)
Read(v, next) == [ok |-> TRUE, v |-> v, next |-> next]
Malformed == [ok |-> FALSE, v |-> Bare("null"), next |-> 0]

\* _parse_scalar; a bare word it does not know is a string.
ParseScalar(v, next) ==
    IF v.type # "quoted" THEN Read(v, next)
    ELSE LET s == Unescape(v.chars) IN IF s = <<>> THEN Malformed ELSE Read(Str(s[1]), next)

Calls(lines) == [of : {"map", "list"}, at : 1 .. Len(lines) + 1, indent : Nat, depth : Int,
                 spliced : BOOLEAN]
Call(of, at, indent, depth, spliced) ==
    [of |-> of, at |-> at, indent |-> indent, depth |-> depth, spliced |-> spliced]

Block(lines, at, depth, read) ==
    IF depth < 0 THEN Malformed
    ELSE read[Call(IF lines[at].item THEN "list" ELSE "map", at, lines[at].indent, depth, FALSE)]

\* The value of an entry.
Value(lines, c, rest, read) ==
    LET next == c.at + 1 IN
    IF rest = Nothing
    THEN IF next > Len(lines) THEN Read(Bare("null"), next)
         ELSE IF lines[next].item /\ lines[next].indent = c.indent
         THEN read[Call("list", next, c.indent, c.depth - 1, FALSE)]
         ELSE IF lines[next].indent > c.indent THEN Block(lines, next, c.depth - 1, read)
         ELSE Read(Bare("null"), next)
    ELSE IF rest = Bare("[]") THEN Read(List(<<>>), next)
    ELSE IF rest = Bare("{}") THEN Read(Map(<<>>), next)
    ELSE ParseScalar(rest, next)

ReadMap(lines, c, read) ==
    LET l == IF c.spliced THEN [lines[c.at] EXCEPT !.indent = c.indent, !.item = FALSE]
             ELSE lines[c.at]
        value == Value(lines, c, l.rest, read)
        others == read[Call("map", value.next, c.indent, c.depth, FALSE)]
    IN IF c.at > Len(lines) \/ l.indent # c.indent \/ l.item THEN Read(Map(<<>>), c.at)
       ELSE IF l.key = NoKey \/ ~value.ok \/ ~others.ok THEN Malformed
       ELSE Read(Map(<< <<l.key, value.v>> >> \o others.v.pairs), others.next)

ReadList(lines, c, read) ==
    LET l == lines[c.at]
        value == IF l.key # NoKey
                 THEN read[Call("map", c.at, c.indent + 2, c.depth - 1, TRUE)]
                 ELSE ParseScalar(l.rest, c.at + 1)
        others == read[Call("list", value.next, c.indent, c.depth, FALSE)]
    IN IF c.at > Len(lines) \/ l.indent # c.indent \/ ~l.item THEN Read(List(<<>>), c.at)
       ELSE IF ~value.ok \/ ~others.ok THEN Malformed
       ELSE Read(List(<<value.v>> \o others.v.items), others.next)

Reader(lines) ==
    LET read[c \in Calls(lines)] == IF c.of = "map" THEN ReadMap(lines, c, read)
                                    ELSE ReadList(lines, c, read)
    IN read

\* _Frontmatter.parse; depth is max_yaml_depth.
Parse(lines, depth) ==
    IF lines = <<>> THEN Read(Map(<<>>), 1)
    ELSE LET node == Block(lines, 1, depth, Reader(lines))
         IN IF node.next # Len(lines) + 1 THEN Malformed ELSE node
=============================================================================
