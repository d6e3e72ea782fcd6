-------------------------------- MODULE Toon --------------------------------
(***************************************************************************)
(* The TOON codec (toon.rs) and the two filters of the command line that   *)
(* are built from it (erc-llmd toon dec and enc in main.rs): a value is    *)
(* written as lines, and lines are read back into a value.                 *)
(*                                                                         *)
(* A value is a record with a kind: the primitives of ToonText, an array   *)
(* of items, an object of fields in order.  A line is its depth, in whole  *)
(* levels of indentation, and its text; a blank line has no text.          *)
(***************************************************************************)
EXTENDS ToonText

CONSTANTS
  Held,      \* values to write: records of a value, enc and dec
  Given,     \* documents to read: records of lines, enc and dec
  Unlimited  \* a flatten_depth longer than every chain of keys

Array(items)   == [kind |-> "array", items |-> items]
Object(fields) == [kind |-> "object", fields |-> fields]
Field(k, v)    == [key |-> k, value |-> v]
Keys(fields)   == {fields[i].key : i \in DOMAIN fields}

EncodeOptions == [delimiter : {",", "\t", "|"}, key_folding : BOOLEAN, flatten_depth : Nat]
DecodeOptions == [strict : BOOLEAN, expand_paths : BOOLEAN]

ASSUME OptionsAssumption ==
  /\ Unlimited \in Nat
  /\ \A i \in Held \cup Given : i.enc \in EncodeOptions /\ i.dec \in DecodeOptions

Line(depth, text) == [depth |-> depth, text |-> text]

-----------------------------------------------------------------------------
(* Encoding. *)

\* The columns of an array of like objects with primitive values; none when
\* it cannot be a table.
tabular_fields(items) ==
  LET IsRow(v, names) ==
        /\ v.kind = "object" /\ Len(v.fields) = Len(names)
        /\ \A i \in DOMAIN v.fields :
             Contains(names, v.fields[i].key) /\ is_primitive(v.fields[i].value)
      names == [i \in DOMAIN items[1].fields |-> items[1].fields[i].key]
  IN IF items = <<>> THEN <<>>
     ELSE IF items[1].kind # "object" THEN <<>>
     ELSE IF \A n \in DOMAIN items : IsRow(items[n], names) THEN names ELSE <<>>

encode_tabular_row(item, names, o) ==
  LET Cell(k) == item.fields[Min({i \in DOMAIN item.fields : item.fields[i].key = k})].value
  IN Joined([i \in DOMAIN names |-> encode_primitive(Cell(names[i]), o.delimiter)], o.delimiter)

\* The keys below a value that is an object of one identifier key, and so on.
RECURSIVE Chain(_)
Chain(v) ==
  IF v.kind = "object" /\ Len(v.fields) = 1 /\ is_identifier_segment(v.fields[1].key)
    THEN <<v.fields[1].key>> \o Chain(v.fields[1].value)
    ELSE <<>>

RECURSIVE Descend(_, _)
Descend(v, n) == IF n = 0 THEN v ELSE Descend(v.fields[1].value, n - 1)

\* How a field is written: the key, the value under it and whether fields
\* below may be folded.
AsIs(f, fold) == [key |-> f.key, value |-> f.value, fold |-> fold]

\* Seeded fault: a folded key may be that of another field.
fold_any(f, siblings, o) ==
  LET segments == <<f.key>> \o Chain(f.value)
      d        == Min({Len(segments), o.flatten_depth})
  IN IF o.flatten_depth < 2 \/ ~is_identifier_segment(f.key) \/ Len(segments) < 2
       THEN AsIs(f, TRUE)
       ELSE [key |-> Joined(SubSeq(segments, 1, d), "."), value |-> Descend(f.value, d - 1),
             fold |-> d = Len(segments)]

try_fold(f, siblings, o) ==
  LET segments == <<f.key>> \o Chain(f.value)
      d        == Min({Len(segments), o.flatten_depth})
  IN IF o.flatten_depth < 2 \/ ~is_identifier_segment(f.key) \/ Len(segments) < 2
       THEN AsIs(f, TRUE)
     ELSE IF Joined(segments, ".") \in siblings THEN AsIs(f, FALSE)
     ELSE [key |-> Joined(SubSeq(segments, 1, d), "."), value |-> Descend(f.value, d - 1),
           fold |-> d = Len(segments)]

RECURSIVE encode_object_fields(_, _, _, _), encode_field(_, _, _, _),
          encode_array(_, _, _, _, _, _), encode_list_item(_, _, _)

encode_object_fields(fields, depth, fold, o) ==
  FlattenSeq([i \in 1 .. Len(fields) |->
    encode_field(IF fold THEN try_fold(fields[i], Keys(fields), o) ELSE AsIs(fields[i], FALSE),
                 depth, depth + 1, o)])

\* One field, the fields of an object in it at the depth below.
encode_field(f, depth, below, o) ==
  LET key == encode_key(f.key)
      v   == f.value
  IN CASE v.kind = "array"  -> encode_array(key, v.items, depth, depth + 1, depth + 1, o)
       [] v.kind = "object" -> <<Line(depth, key \o <<":">>)>>
                               \o encode_object_fields(v.fields, below, f.fold, o)
       [] OTHER -> <<Line(depth, key \o <<":", " ">> \o encode_primitive(v, o.delimiter))>>

\* An array under a key, if any: a table with its rows at the depth of rows,
\* primitives in line, or a list with its items at the depth of list.
encode_array(key, items, depth, rows, list, o) ==
  LET names        == tabular_fields(items)
      Header(t)    == write_header(key, Len(items), o.delimiter, names, t)
      cells        == [i \in DOMAIN items |-> encode_primitive(items[i], o.delimiter)]
  IN CASE items = <<>> -> <<Line(depth, Header(FALSE))>>
       [] items # <<>> /\ names # <<>> ->
            <<Line(depth, Header(TRUE))>>
            \o [i \in DOMAIN items |-> Line(rows, encode_tabular_row(items[i], names, o))]
       [] items # <<>> /\ \A i \in DOMAIN items : is_primitive(items[i]) ->
            <<Line(depth, Header(FALSE) \o <<" ">> \o Joined(cells, o.delimiter))>>
       [] OTHER ->
            <<Line(depth, Header(FALSE))>>
            \o FlattenSeq([i \in DOMAIN items |-> encode_list_item(items[i], list, o)])

Hyphen(lines) == [lines EXCEPT ![1].text = <<"-", " ">> \o @]

\* encode_field_at: the key is not folded, the keys below it are.
FieldAt(f, depth, o) == encode_field(AsIs(f, o.key_folding), depth, depth + 1, o)

\* An item at a depth.  The first field of an object shares the line of the
\* hyphen; the fields of an object in it are one level down, like the
\* fields that follow it.
encode_list_item(v, depth, o) ==
  LET f == v.fields[1]
  IN CASE v.kind = "object" ->
            IF v.fields = <<>> THEN <<Line(depth, <<"-">>)>>
            ELSE Hyphen(IF f.value.kind = "array"
                          THEN encode_array(encode_key(f.key), f.value.items,
                                            depth, depth + 2, depth + 2, o)
                          ELSE FieldAt(f, depth, o))
                 \o FlattenSeq([i \in 1 .. Len(v.fields) - 1 |->
                                 FieldAt(v.fields[i + 1], depth + 1, o)])
       [] v.kind = "array" -> Hyphen(encode_array(<<>>, v.items, depth, depth + 2, depth + 1, o))
       [] OTHER -> Hyphen(<<Line(depth, encode_primitive(v, o.delimiter))>>)

encode(v, o) ==
  CASE v.kind = "object" -> encode_object_fields(v.fields, 0, o.key_folding, o)
    [] v.kind = "array"  -> encode_array(<<>>, v.items, 0, 1, 1, o)
    [] OTHER             -> <<Line(0, encode_primitive(v, o.delimiter))>>

-----------------------------------------------------------------------------
(* Path expansion. *)

RECURSIVE merge_into(_, _, _, _)

\* Two objects meeting at one key.
deep_merge(fields, more, strict) ==
  FoldLeft(LAMBDA r, f : IF Failed(r) THEN Fail
                         ELSE merge_into(r.fields, <<f.key>>, f.value, strict),
           Object(fields), more)

\* The fields with a value put at a path; a later value replaces an earlier
\* one unless the decoder is strict.
merge_into(fields, path, v, strict) ==
  LET at    == Min({i \in DOMAIN fields : fields[i].key = path[1]} \cup {Len(fields) + 1})
      there == at <= Len(fields)
      old   == fields[at].value
      inner == IF there /\ old.kind = "object" THEN old.fields ELSE <<>>
      clash == there /\ ~(old.kind = "object" /\ (Len(path) > 1 \/ v.kind = "object"))
  IN IF clash /\ strict THEN Fail
     ELSE IfRead(
       CASE Len(path) > 1 -> merge_into(inner, Tail(path), v, strict)
         [] Len(path) = 1 /\ there /\ old.kind = "object" /\ v.kind = "object" ->
              deep_merge(old.fields, v.fields, strict)
         [] OTHER -> v,
       LAMBDA new : Object(IF there THEN [fields EXCEPT ![at].value = new]
                           ELSE Append(fields, Field(path[1], new))))

expansion_segments(k, quoted) ==
  LET parts == CutAt(k, {i \in DOMAIN k : k[i] = "."})
  IN IF quoted \/ \E i \in DOMAIN parts : ~is_identifier_segment(parts[i]) THEN <<k>> ELSE parts

\* The object of fields that were read, their dotted keys expanded.
expand_object(read, d) ==
  IF ~d.expand_paths
    THEN Object([i \in DOMAIN read |-> Field(read[i].key, read[i].value)])
    ELSE FoldLeft(LAMBDA r, f : IF Failed(r) THEN Fail
                                ELSE merge_into(r.fields, expansion_segments(f.key, f.quoted),
                                                f.value, d.strict),
                  Object(<<>>), read)

-----------------------------------------------------------------------------
(* Decoding.  A parser is given the reader, a record of the lines, strict    *)
(* and expand_paths, and the place it is at; it returns what it read and the *)
(* place after it, or Fail.                                                  *)

next_content_index(r, pos) == FirstAt(r.lines, pos, LAMBDA l : l.text # <<>>)

\* The depth of the next line with content; -1 at the end.
DepthAt(r, pos) ==
  LET i == next_content_index(r, pos)
  IN IF i > Len(r.lines) THEN -1 ELSE r.lines[i].depth
TextAt(r, pos) == r.lines[next_content_index(r, pos)].text

At(v, pos) == [value |-> v, pos |-> pos]

\* A blank line before the next member of an array is an error when strict.
BlankInside(r, pos, depth) ==
  r.strict /\ DepthAt(r, pos) >= depth /\ next_content_index(r, pos) > pos

\* The members of an array at one depth: where they are, if there are any.
BodyDepth(r, pos, depth) == IF DepthAt(r, pos) > depth THEN DepthAt(r, pos) ELSE depth + 1

CountIsWrong(r, h, n) == r.strict /\ n # h.n

parse_inline(r, pos, h) ==
  LET Of(cells) ==
        IF CountIsWrong(r, h, Len(cells)) THEN Fail
        ELSE AllRead([i \in DOMAIN cells |-> parse_primitive_token(cells[i])],
                     LAMBDA values : At(Array(values), pos))
  IN Of(split_delimited(h.inline, h.delim))

\* A row of a table; a missing cell is an empty string.
parse_row(r, text, h) ==
  LET Of(cells) ==
        IF r.strict /\ Len(cells) # Len(h.fields) THEN Fail
        ELSE AllRead([i \in DOMAIN h.fields |->
                        parse_primitive_token(IF i <= Len(cells) THEN cells[i] ELSE <<>>)],
                     LAMBDA values :
                       Object([i \in DOMAIN values |-> Field(h.fields[i], values[i])]))
  IN Of(split_delimited(text, h.delim))

RECURSIVE parse_tabular(_, _, _, _, _)
parse_tabular(r, pos, h, depth, rows) ==
  IF BlankInside(r, pos, depth) THEN Fail
  ELSE IF DepthAt(r, pos) # depth \/ is_row_terminator(TextAt(r, pos), h.delim)
    THEN IF CountIsWrong(r, h, Len(rows)) THEN Fail ELSE At(Array(rows), pos)
  ELSE IfRead(parse_row(r, TextAt(r, pos), h),
              LAMBDA row : parse_tabular(r, next_content_index(r, pos) + 1, h, depth,
                                         Append(rows, row)))

RECURSIVE parse_object(_, _, _, _), parse_field(_, _, _, _),
          parse_list(_, _, _, _, _), parse_list_item(_, _, _), Siblings(_, _, _, _)

\* The array of a header at a depth.  A header with both columns and values
\* in line is a table in a field, and a list of values in a list item.
parse_array_value(r, pos, h, depth, inField) ==
  LET body == BodyDepth(r, pos, depth)
  IN CASE h.tabular /\ (inField \/ h.inline = <<>>) -> parse_tabular(r, pos, h, body, <<>>)
       [] h.inline # <<>> /\ ~(h.tabular /\ inField) -> parse_inline(r, pos, h)
       [] OTHER ->
            IF DepthAt(r, pos) > depth /\ TextAt(r, pos)[1] = "-"
              THEN parse_list(r, pos, h, body, <<>>)
            ELSE IF CountIsWrong(r, h, 0) THEN Fail ELSE At(Array(<<>>), pos)

ReadField(k, got) ==
  IfRead(got, LAMBDA g : [key |-> k.key, quoted |-> k.quoted, value |-> g.value, pos |-> g.pos])

\* A key and its value: on the line, or an object whose fields are at a depth.
key_value(r, pos, text, depth, fieldsAt) ==
  IfRead(parse_key(text),
    LAMBDA k :
      ReadField(k,
        IF Trim(k.rest) # <<>>
          THEN IfRead(parse_primitive_token(k.rest), LAMBDA v : At(v, pos))
        ELSE IF DepthAt(r, pos) > depth THEN parse_object(r, pos, fieldsAt, <<>>)
        ELSE At(Object(<<>>), pos)))

\* The fields at a depth; read holds those before pos.
parse_object(r, pos, depth, read) ==
  CASE DepthAt(r, pos) < depth -> IfRead(expand_object(read, r), LAMBDA v : At(v, pos))
    [] DepthAt(r, pos) > depth -> Fail
    [] OTHER ->
         IfRead(parse_field(r, next_content_index(r, pos) + 1, TextAt(r, pos), depth),
                LAMBDA f : parse_object(r, f.pos, depth, Append(read, f)))

\* A field whose text is on a line of a depth, with pos after the line.
parse_field(r, pos, text, depth) ==
  IfRead(parse_array_header(text),
    LAMBDA h :
      IF h.header /\ h.keyed
        THEN ReadField(h, parse_array_value(r, pos, h, depth, TRUE))
        ELSE key_value(r, pos, text, depth, depth + 1))

parse_list(r, pos, h, depth, items) ==
  IF BlankInside(r, pos, depth) THEN Fail
  ELSE IF DepthAt(r, pos) # depth \/ TextAt(r, pos)[1] # "-"
    THEN IF CountIsWrong(r, h, Len(items)) THEN Fail ELSE At(Array(items), pos)
  ELSE IfRead(parse_list_item(r, next_content_index(r, pos), depth),
              LAMBDA item : parse_list(r, item.pos, h, depth, Append(items, item.value)))

\* An item: nothing, an array, a primitive, or an object whose first field is
\* on the line of the item, and whose fields are on deeper lines.
parse_list_item(r, i, depth) ==
  LET text  == r.lines[i].text
      after == From(text, IF Len(text) > 1 /\ text[2] = " " THEN 3 ELSE 2)
      Opens(h) == IF h.header THEN h.keyed ELSE is_key_value_line(after)
  IN IF Trim(after) = <<>> THEN At(Object(<<>>), i + 1)
     ELSE IfRead(parse_array_header(after),
       LAMBDA h :
         IfRead(CASE h.header -> parse_array_value(r, i + 1, h, depth, FALSE)
                  [] ~h.header /\ Opens(h) ->
                       key_value(r, i + 1, after, depth, DepthAt(r, i + 1))
                  [] OTHER -> IfRead(parse_primitive_token(after), LAMBDA v : At(v, i + 1)),
           LAMBDA got :
             IF ~Opens(h) THEN got
             ELSE Siblings(r, got.pos, depth + 1,
                           <<IF h.header THEN ReadField(h, got) ELSE got>>)))

\* collect_list_item_siblings: the other fields of the item.
Siblings(r, pos, depth, read) ==
  IF DepthAt(r, pos) # depth \/ TextAt(r, pos)[1] = "-"
    THEN IfRead(expand_object(read, r), LAMBDA v : At(v, pos))
    ELSE IfRead(parse_field(r, next_content_index(r, pos) + 1, TextAt(r, pos), depth),
                LAMBDA f : Siblings(r, f.pos, depth, Append(read, f)))

\* A line that is no field of an object.
IsBare(text) ==
  LET h == parse_array_header(text)
  IN ~is_key_value_line(text) /\ (Failed(h) \/ ~h.header)

parse_document(r) ==
  LET i       == next_content_index(r, 1)
      content == {n \in DOMAIN r.lines : r.lines[n].text # <<>>}
      bare    == {n \in content : r.lines[n].depth = 0 /\ IsBare(r.lines[n].text)}
  IN IF content = {} THEN Object(<<>>)
     ELSE IfRead(parse_array_header(r.lines[i].text),
       LAMBDA h :
         IF h.header /\ ~h.keyed
           THEN IfRead(parse_array_value(r, i + 1, h, r.lines[i].depth, TRUE), LAMBDA v : v.value)
         ELSE IF ~h.header /\ content = {i} /\ ~is_key_value_line(r.lines[i].text)
           THEN parse_primitive_token(r.lines[i].text)
         ELSE IF ~h.header /\ r.strict /\ Cardinality(content) > 1 /\ Cardinality(bare) > 1
           THEN Fail
         ELSE IfRead(parse_object(r, i, 0, <<>>), LAMBDA v : v.value))

decode_with(lines, d) ==
  parse_document([lines |-> lines, strict |-> d.strict, expand_paths |-> d.expand_paths])

-----------------------------------------------------------------------------
(* The filters: a value is written, the text read, the value written again. *)

VARIABLES
  form,    \* what is at hand: "value", "text" or, after an error, "refused"
  lines,   \* the text
  enc,     \* the options it is written with
  dec,     \* the options it is read with
  values,  \* the values so far; the last one is at hand
  written  \* the texts written so far

vars == <<form, lines, enc, dec, values, written>>

Init ==
  \/ \E i \in Held :
       /\ form = "value" /\ values = <<i.value>> /\ lines = <<>>
       /\ enc = i.enc /\ dec = i.dec /\ written = <<>>
  \/ \E i \in Given :
       /\ form = "text" /\ values = <<>> /\ lines = i.lines
       /\ enc = i.enc /\ dec = i.dec /\ written = <<>>

\* encode; twice at most, which is all there is to compare.
Encode ==
  /\ form = "value" /\ Len(written) < 2
  /\ lines' = encode(Last(values), enc)
  /\ written' = Append(written, lines')
  /\ form' = "text"
  /\ UNCHANGED <<enc, dec, values>>

\* Seeded fault: an error is not noticed.
DecodeAnyway ==
  LET v == decode_with(lines, dec)
  IN /\ form = "text" /\ form' = "value"
     /\ values' = IF Failed(v) THEN values ELSE Append(values, v)
     /\ UNCHANGED <<lines, enc, dec, written>>

\* decode_with, or an error.
Decode ==
  LET v == decode_with(lines, dec)
  IN /\ form = "text"
     /\ IF Failed(v) THEN form' = "refused" /\ values' = values
                     ELSE form' = "value" /\ values' = Append(values, v)
     /\ UNCHANGED <<lines, enc, dec, written>>

Next == Encode \/ Decode

Spec == Init /\ [][Next]_vars

-----------------------------------------------------------------------------
(* Properties. *)

\* A value is at hand, or a text, or the last text was refused; texts and
\* values alternate.
TypeOK ==
  /\ form \in {"value", "text", "refused"}
  /\ enc \in EncodeOptions /\ dec \in DecodeOptions
  /\ \A i \in DOMAIN lines : lines[i].depth \in Nat
  /\ Len(written) <= 2 /\ Len(values) <= 3
  /\ form = "value" => values # <<>>
  /\ form # "value" /\ written # <<>> => lines = Last(written)

\* A value and all the values in it.
RECURSIVE Parts(_)
Parts(v) ==
  {v} \cup CASE v.kind = "array"  -> UNION {Parts(v.items[i]) : i \in DOMAIN v.items}
             [] v.kind = "object" -> UNION {Parts(v.fields[i].value) : i \in DOMAIN v.fields}
             [] OTHER             -> {}

ObjectsIn(v) == {p \in Parts(v) : p.kind = "object"}

DistinctKeys(v) == \A p \in ObjectsIn(v) : Cardinality(Keys(p.fields)) = Len(p.fields)

NoDots(v) ==
  \A p \in ObjectsIn(v) : \A k \in Keys(p.fields) : Len(expansion_segments(k, FALSE)) = 1

\* No list has an item whose first field is an object and which has others.
NoLeadingObject(v) ==
  \A p \in Parts(v) : p.kind = "array" =>
    \A i \in DOMAIN p.items :
      LET v1 == p.items[i]
      IN v1.kind = "object" /\ Len(v1.fields) > 1 => v1.fields[1].value.kind # "object"

\* The objects of a table have their keys in the order of its columns.
InColumnOrder(v) ==
  \A p \in Parts(v) : p.kind = "array" =>
    LET names == tabular_fields(p.items)
    IN names # <<>> =>
         \A i \in DOMAIN p.items : \A n \in DOMAIN names : p.items[i].fields[n].key = names[n]

\* What the options can carry over: a folded key is read as a path only by a
\* decoder that expands paths, and that one takes every dotted key for one.
Carried(v) ==
  /\ enc.key_folding => dec.expand_paths
  /\ dec.expand_paths => NoDots(v)

\* What is written is read back as it was: every string keeps its kind and
\* its characters wherever it stands, next to whatever delimiter, and every
\* array and object its members, their order and their place.
RoundTrip ==
  \A n \in 2 .. Len(values) :
    LET v == values[n - 1]
    IN written # <<>> /\ Carried(v) /\ DistinctKeys(v) /\ NoLeadingObject(v) /\ InColumnOrder(v)
       => values[n] = v

\* A decoder, strict or not, accepts what the encoder writes, also where the
\* two disagree about its meaning.
WrittenIsAccepted ==
  form = "refused" /\ written # <<>>
    => dec.expand_paths /\ ~(NoDots(Last(values)) /\ NoLeadingObject(Last(values)))

\* Writing what was read from a normal form gives the normal form again, also
\* where reading it did not give the value it was written from.
NormalFormIsStable ==
  Len(written) = 2 /\ ~dec.expand_paths /\ enc.flatten_depth = Unlimited
    /\ (enc.key_folding => NoLeadingObject(values[1]))
    => written[1] = written[2]

\* Folding never gives two fields of an object the same key.
FoldingKeepsKeysApart ==
  Len(values) > 1 /\ written # <<>> /\ enc.key_folding /\ enc.flatten_depth = Unlimited
    /\ DistinctKeys(values[1]) /\ NoLeadingObject(values[1]) /\ ~dec.expand_paths
    => DistinctKeys(values[2])

\* The value of a number, in thousandths: its digits times a power of ten.
Thousandths(s) ==
  LET u     == Unsigned(s)
      e     == FirstAt(u, 1, LAMBDA c : c \in {"e", "E"})
      dot   == FirstAt(Before(u, e), 1, LAMBDA c : c = ".")
      digs  == Before(u, Min({e, dot})) \o SubSeq(u, dot + 1, e - 1)
      power == From(u, e + 1)
      exp   == IF power = <<>> THEN 0
               ELSE IF power[1] = "-" THEN -Numeral(Tail(power)) ELSE Numeral(power)
      shift == 3 + exp - (Len(digs) - (Min({e, dot}) - 1))
  IN (IF s[1] = "-" THEN -1 ELSE 1) * Numeral(digs) * 10 ^ shift

\* A number that is the whole document keeps its value, however it was
\* written and whatever form it is given.
NumbersKeepTheirValue ==
  form = "value" /\ written = <<>> /\ Len(lines) = 1 /\ is_decodable_number(lines[1].text)
    => /\ values[1].kind = "number"
       /\ Thousandths(values[1].text) = Thousandths(lines[1].text)

\* src/erc-llmd/src/main.rs:22-23: "a strict round-trip / normalizer".
StrictRoundTrip ==
  written # <<>> /\ form # "text" /\ ~enc.key_folding /\ ~dec.expand_paths /\ dec.strict
    /\ DistinctKeys(values[1]) /\ InColumnOrder(values[1])
    => form = "value" /\ Last(values) = values[1]
=============================================================================
