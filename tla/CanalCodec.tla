----------------------------- MODULE CanalCodec -----------------------------
(***************************************************************************)
(* How the audit consumer decodes a Kafka message: a protobuf packet of    *)
(* Canal holds entries, an entry holds the binlog position and one row     *)
(* change, a row change holds the columns of its rows.  The result is a    *)
(* sequence of flat messages, one per row change.                          *)
(*                                                                         *)
(* A byte string is a sequence of bytes.  A decoder returns the SET of its *)
(* results: {x} for the result x, {} where the code returns an error.      *)
(*                                                                         *)
(* Simplifications: an error does not say what was wrong; the text of the  *)
(* SQL and the types of the columns, which nothing reads, are not kept.    *)
(***************************************************************************)
EXTENDS Integers, Sequences, SequencesExt, FiniteSetsExt

CONSTANTS
  WordBits,      \* the width of an integer on the wire; 64 in the code
  Nil            \* a nil pointer or map

ASSUME CodecAssumption == WordBits \in Nat \ {0}

-----------------------------------------------------------------------------
(* The wire format.  off is the next byte to read, counted from 1. *)

Groups    == (WordBits + 6) \div 7
LastGroup == 2 ^ (WordBits - 7 * (Groups - 1))

varint(b, off) ==
  LET ends == {k \in 0..Groups - 1 :
                 /\ off + k <= Len(b) /\ b[off + k] < 128
                 /\ \A j \in 0..k - 1 : b[off + j] >= 128
                 /\ k = Groups - 1 => b[off + k] < LastGroup}
  IN {[value |-> MapThenSumSet(LAMBDA j : (b[off + j] % 128) * 128 ^ j, 0..k),
       next  |-> off + k + 1] : k \in ends}

bytes(b, off) ==
  {[value |-> SubSeq(b, n.next, n.next + n.value - 1), next |-> n.next + n.value] :
     n \in {n \in varint(b, off) : n.value <= Len(b) - n.next + 1}}

Fixed(b, off, width) ==
  {[value |-> <<>>, next |-> off + width] : w \in {w \in {width} : w <= Len(b) - off + 1}}

skip(b, off, wire) ==
  CASE wire = 0 -> varint(b, off)
    [] wire = 1 -> Fixed(b, off, 8)
    [] wire = 2 -> bytes(b, off)
    [] wire = 5 -> Fixed(b, off, 4)
    [] OTHER    -> {}

(* A schema gives the fields a decoder reads, and the wire type it insists on; a "raw" *)
(* field is read as bytes whatever its wire type.  Other fields are skipped.           *)
nextField(b, off, schema) ==
  LET Read(n, wire, at) ==
        CASE n \notin DOMAIN schema                -> skip(b, at, wire)
          [] n \in DOMAIN schema /\ schema[n] = "varint" -> IF wire = 0 THEN varint(b, at) ELSE {}
          [] n \in DOMAIN schema /\ schema[n] = "bytes"  -> IF wire = 2 THEN bytes(b, at) ELSE {}
          [] n \in DOMAIN schema /\ schema[n] = "raw"    -> bytes(b, at)
  IN UNION {{[number |-> tag.value \div 8, value |-> f.value, next |-> f.next] :
               f \in Read(tag.value \div 8, tag.value % 8, tag.next)} : tag \in varint(b, off)}

Fields(b, schema) ==
  LET from[off \in 1..Len(b) + 1] ==
        IF off > Len(b) THEN {<<>>}
        ELSE UNION {{<<f>> \o rest : rest \in from[f.next]} : f \in nextField(b, off, schema)}
  IN from[1]

-----------------------------------------------------------------------------
(* What a decoder takes from the fields: all values of one, or the last. *)

All(fields, n) ==
  LET of == SelectSeq(fields, LAMBDA f : f.number = n)
  IN [i \in 1..Len(of) |-> of[i].value]

Value(fields, n, default) ==
  LET all == All(fields, n) IN IF Len(all) = 0 THEN default ELSE all[Len(all)]

Each(items, Decode(_)) ==
  IF \E i \in DOMAIN items : Decode(items[i]) = {} THEN {}
  ELSE {[i \in DOMAIN items |-> CHOOSE x \in Decode(items[i]) : TRUE]}

Signed(v) == IF v >= 2 ^ (WordBits - 1) THEN v - 2 ^ (WordBits - 1) - 2 ^ (WordBits - 1) ELSE v

-----------------------------------------------------------------------------
(* One decoder per message of the protocol. *)

decodePacket(b) ==
  {[type |-> Value(f, 3, 0), compression |-> Value(f, 4, 0), body |-> Value(f, 5, <<>>)] :
     f \in Fields(b, 3 :> "varint" @@ 4 :> "varint" @@ 5 :> "raw")}

decodeMessages(b) == {All(f, 2) : f \in Fields(b, 1 :> "varint" @@ 2 :> "bytes")}

decodeHeader(b) ==
  {[file |-> Value(f, 2, <<>>), pos |-> Signed(Value(f, 3, 0)), time |-> Signed(Value(f, 6, 0)),
    schema |-> Value(f, 8, <<>>), table |-> Value(f, 9, <<>>), gtid |-> Value(f, 13, <<>>)] :
     f \in Fields(b, 2 :> "bytes" @@ 3 :> "varint" @@ 6 :> "varint" @@ 8 :> "bytes"
                       @@ 9 :> "bytes" @@ 13 :> "bytes")}

decodeEntry(b) ==
  UNION {{[header |-> IF hs = <<>> THEN CHOOSE h \in decodeHeader(<<>>) : TRUE ELSE Last(hs),
           type |-> Value(f, 2, 0), store |-> Value(f, 3, <<>>)] :
            hs \in Each(All(f, 1), decodeHeader)} :
           f \in Fields(b, 1 :> "bytes" @@ 2 :> "varint" @@ 3 :> "raw")}

decodeColumn(b) ==
  {[name |-> Value(f, 3, <<>>), null |-> Value(f, 6, 0) # 0, value |-> Value(f, 8, <<>>)] :
     f \in Fields(b, 2 :> "varint" @@ 3 :> "bytes" @@ 4 :> "varint" @@ 5 :> "varint"
                       @@ 6 :> "varint" @@ 8 :> "bytes" @@ 10 :> "bytes")}

decodeRowData(b) ==
  UNION {{[before |-> x, after |-> y] :
            x \in Each(All(f, 1), decodeColumn), y \in Each(All(f, 2), decodeColumn)} :
           f \in Fields(b, 1 :> "bytes" @@ 2 :> "bytes")}

decodeRowChange(b) ==
  UNION {{[event |-> Value(f, 2, 0), ddl |-> Value(f, 10, 0) # 0, rows |-> rows] :
            rows \in Each(All(f, 12), decodeRowData)} :
           f \in Fields(b, 2 :> "varint" @@ 10 :> "varint" @@ 11 :> "bytes" @@ 12 :> "bytes")}

-----------------------------------------------------------------------------
(* Flat messages. *)

EventName == <<"INSERT", "UPDATE", "DELETE">>

(* A row maps the names of its columns to their values, Nil for NULL; a repeated name *)
(* keeps its last value, and a row without columns is nil.                            *)
columnsToRow(cols) ==
  LET Of(n) == CHOOSE i \in DOMAIN cols :
                 cols[i].name = n /\ \A j \in DOMAIN cols : cols[j].name = n => j <= i
  IN IF cols = <<>> THEN Nil
     ELSE [n \in {cols[i].name : i \in DOMAIN cols} |->
             IF cols[Of(n)].null THEN Nil ELSE cols[Of(n)].value]

(* Mutant: the row a DELETE removed is looked for where INSERT and UPDATE have theirs. *)
FlatMessageAfter(header, change) ==
  LET name == EventName[change.event]
      rows == change.rows
  IN [header |-> header, type |-> name, ddl |-> change.ddl,
      data |-> [i \in DOMAIN rows |-> columnsToRow(rows[i].after)],
      old  |-> IF name # "UPDATE" THEN <<>>
               ELSE [i \in DOMAIN rows |-> columnsToRow(rows[i].before)]]

FlatMessage(header, change) ==
  LET name == EventName[change.event]
      Side(r) == IF name = "DELETE" THEN r.before ELSE r.after
      rows    == change.rows
  IN [header |-> header, type |-> name, ddl |-> change.ddl,
      data |-> [i \in DOMAIN rows |-> columnsToRow(Side(rows[i]))],
      old  |-> IF name # "UPDATE" THEN <<>>
               ELSE [i \in DOMAIN rows |-> columnsToRow(rows[i].before)]]

(* The flat message of an entry; Nil if it changes no rows. *)
entryToFlat(b) ==
  UNION {IF e.type # 2 \/ e.store = <<>> THEN {Nil}
         ELSE {IF c.event \in 1..3 THEN FlatMessage(e.header, c) ELSE Nil :
                 c \in decodeRowChange(e.store)} : e \in decodeEntry(b)}

(* One entry that cannot be decoded makes an error of the whole message. *)
decodeMessage(value) ==
  IF value = <<>> THEN {<<>>}
  ELSE UNION {CASE p.type # 7                   -> {<<>>}
                [] p.type = 7 /\ p.compression \notin {0, 1} -> {}
                [] OTHER -> UNION {{SelectSeq(flats, LAMBDA f : f # Nil) :
                                      flats \in Each(entries, entryToFlat)} :
                                     entries \in decodeMessages(p.body)} :
                p \in decodePacket(value)}

=============================================================================
