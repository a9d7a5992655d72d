------------------------------ MODULE RadioWire ------------------------------
(***************************************************************************)
(* The messages Phone and PhoneList of radio.proto as bytes: the generated *)
(* code of radio.pb.cc, of which the repository has six identical copies.  *)
(*                                                                         *)
(* The protobuf library's reader and writer of varints, strings and nested *)
(* messages is modelled as far as these messages need it.  Left out: names *)
(* that are not ASCII, groups, numbers of more than four bytes, and what a *)
(* field that cannot be read leaves behind in its message.                 *)
(***************************************************************************)
EXTENDS Naturals, Sequences, SequencesExt

\* created is NoTime, the null pointer, or one more than the Timestamp's
\* seconds: a Timestamp of 0 seconds is a field that is there.
NoTime == 0
Phones == [id : Nat, name : Seq(0..127), network : Nat, active : BOOLEAN,
           type : Nat, created : Nat]

\* Clear
NewPhone == [id |-> 0, name |-> <<>>, network |-> 0, active |-> FALSE,
             type |-> 0, created |-> NoTime]

\* The tags: a field's number and its wire type.
WireVarint == 0
WireBytes  == 2
Tag(number, wire) == 8 * number + wire

-----------------------------------------------------------------------------
(* Writing.                                                                *)

Varint[n \in Nat] ==
  IF n < 128 THEN <<n>> ELSE <<128 + (n % 128)>> \o Varint[n \div 128]

\* A field of value 0 is not written.
WriteNumber(number, n) ==
  IF n = 0 THEN <<>> ELSE <<Tag(number, WireVarint)>> \o Varint[n]

WriteBytes(number, s) == <<Tag(number, WireBytes)>> \o Varint[Len(s)] \o s

WriteTimestamp(seconds) == WriteNumber(1, seconds)

\* Mutant: the two enumerations are written under each other's number.
SwapsEnums(phone) ==
  WriteNumber(1, phone.id)
  \o (IF phone.name = <<>> THEN <<>> ELSE WriteBytes(2, phone.name))
  \o WriteNumber(3, phone.type)
  \o WriteNumber(4, IF phone.active THEN 1 ELSE 0)
  \o WriteNumber(5, phone.network)
  \o (IF phone.created = NoTime THEN <<>>
      ELSE WriteBytes(6, WriteTimestamp(phone.created - 1)))

\* Phone::_InternalSerialize
SerializePhone(phone) ==
  WriteNumber(1, phone.id)
  \o (IF phone.name = <<>> THEN <<>> ELSE WriteBytes(2, phone.name))
  \o WriteNumber(3, phone.network)
  \o WriteNumber(4, IF phone.active THEN 1 ELSE 0)
  \o WriteNumber(5, phone.type)
  \o (IF phone.created = NoTime THEN <<>>
      ELSE WriteBytes(6, WriteTimestamp(phone.created - 1)))

\* PhoneList::_InternalSerialize
WritePhone(bytes, phone) == bytes \o WriteBytes(1, SerializePhone(phone))

Serialize(list) == FoldLeft(WritePhone, <<>>, list)

\* The sizes, which are computed before anything is written: the length that
\* stands before a message, and the space the output reserves.
VarintSize[n \in Nat] == IF n < 128 THEN 1 ELSE 1 + VarintSize[n \div 128]

SizePlusOne(n) == IF n = 0 THEN 0 ELSE 1 + VarintSize[n]
LengthDelimited(n) == 1 + VarintSize[n] + n

\* Phone::ByteSizeLong
PhoneSize(phone) ==
  (IF phone.name = <<>> THEN 0 ELSE LengthDelimited(Len(phone.name)))
  + (IF phone.created = NoTime THEN 0
     ELSE LengthDelimited(SizePlusOne(phone.created - 1)))
  + SizePlusOne(phone.id) + SizePlusOne(phone.network)
  + (IF phone.active THEN 2 ELSE 0) + SizePlusOne(phone.type)

\* PhoneList::ByteSizeLong
AddSize(size, phone) == size + LengthDelimited(PhoneSize(phone))

ListSize(list) == FoldLeft(AddSize, 0, list)

-----------------------------------------------------------------------------
(* Reading: a message is a sequence of fields, [number, wire, value], up   *)
(* to its end, to a tag that ends it (0 or the end of a group), or to a    *)
(* field that cannot be read.                                              *)

\* The varint at s[i] whose last byte is s[last], 0 if it is cut off.
VarintTo(s, i, last) ==
  LET value[j \in i..last] == IF j = last THEN s[j]
                              ELSE s[j] - 128 + 128 * value[j + 1]
  IN  IF last = 0 THEN [value |-> 0, next |-> Len(s) + 2]
      ELSE [value |-> value[i], next |-> last + 1]

\* The varint at s[i]: its value and the place after it, beyond Len(s) + 1 if
\* it is cut off.
ReadVarint(s, i) ==
  VarintTo(s, i, SelectInSubSeq(s, i, Len(s), LAMBDA b : b < 128))

\* The field at s[i], where the varint n is: its tag has been read.
FieldWith(s, i, tag, n) ==
  LET wire == tag % 8
      end  == CASE wire = WireVarint -> n.next
                [] wire = 1 -> i + 8
                [] wire = WireBytes -> n.next + n.value
                [] wire = 5 -> i + 4
                [] OTHER -> Len(s) + 2
  IN  [number |-> tag \div 8, wire |-> wire, next |-> end,
       value |-> IF wire = WireBytes /\ end <= Len(s) + 1
                 THEN SubSeq(s, n.next, end - 1) ELSE n.value]

ReadField(s, i, tag) == FieldWith(s, i, tag, ReadVarint(s, i))

\* What is read from a tag on, rest being what is read after its field.
Ended(how) == [fields |-> <<>>, end |-> how]
After(field, rest) == [rest EXCEPT !.fields = <<field>> \o @]

FromTag(s, tag, field, rest) ==
  IF tag.next > Len(s) + 1 THEN Ended("failure")
  ELSE IF tag.value = 0 \/ tag.value % 8 = 4 THEN Ended("tag")
  ELSE IF field.number = 0 \/ field.next > Len(s) + 1 THEN Ended("failure")
  ELSE After(field, rest)

\* The loop of _InternalParse: the fields that can be read, and how it ends.
Fields(s) ==
  LET from[i \in 1..(Len(s) + 1)] ==
        LET Onward(tag, field) == FromTag(s, tag, field, from[field.next])
            Tagged(tag) == Onward(tag, ReadField(s, tag.next, tag.value))
        IN  IF i = Len(s) + 1 THEN Ended("limit") ELSE Tagged(ReadVarint(s, i))
  IN  from[1]

Is(field, number, wire) == field.number = number /\ field.wire = wire

\* One field of Timestamp::_InternalParse.
SetSeconds(seconds, field) ==
  IF Is(field, 1, WireVarint) THEN field.value ELSE seconds

\* A Timestamp is read into the one that is there, which has these seconds.
ReadTimestamp(s, old) ==
  LET m == Fields(s)
  IN  [ok |-> m.end = "limit", seconds |-> FoldLeft(SetSeconds, old, m.fields)]

\* One field of Phone::_InternalParse; others are kept as unknown.  A field
\* that was there before is overwritten, a message merged.
SetField(phone, field) ==
  CASE Is(field, 1, WireVarint) -> [phone EXCEPT !.id = field.value]
    [] Is(field, 2, WireBytes)  -> [phone EXCEPT !.name = field.value]
    [] Is(field, 3, WireVarint) -> [phone EXCEPT !.network = field.value]
    [] Is(field, 4, WireVarint) -> [phone EXCEPT !.active = field.value # 0]
    [] Is(field, 5, WireVarint) -> [phone EXCEPT !.type = field.value]
    [] Is(field, 6, WireBytes)  ->
         [phone EXCEPT !.created =
            1 + ReadTimestamp(field.value, IF @ = NoTime THEN 0
                                                         ELSE @ - 1).seconds]
    [] OTHER -> phone

Readable(field) ==
  /\ Is(field, 2, WireBytes) => \A j \in DOMAIN field.value :
                                  field.value[j] < 128
  /\ Is(field, 6, WireBytes) => ReadTimestamp(field.value, 0).ok

\* The place of the first field that fails the test, or 0.
FirstBad(fields, Test(_)) == SelectInSeq(fields, LAMBDA f : ~Test(f))

\* Phone::_InternalParse: the phone, as far as it could be read.
PhoneOf(m, bad) ==
  [ok |-> m.end = "limit" /\ bad = 0,
   phone |-> FoldLeft(SetField, NewPhone,
                      IF bad = 0 THEN m.fields
                                 ELSE SubSeq(m.fields, 1, bad - 1))]

ParsePhone(s) ==
  LET m == Fields(s) IN PhoneOf(m, FirstBad(m.fields, Readable))

\* One field of PhoneList::_InternalParse: a phone is added before it is parsed,
\* and stays in the list (one whose bytes are cut off is a field that cannot be
\* read).
AddPhone(list, field) ==
  IF Is(field, 1, WireBytes) THEN Append(list, ParsePhone(field.value).phone)
                             ELSE list

ListOf(m, bad) ==
  [ok |-> m.end = "limit" /\ bad = 0,
   list |-> FoldLeft(AddPhone, <<>>,
                     IF bad = 0 THEN m.fields ELSE SubSeq(m.fields, 1, bad))]

ReadablePhone(field) ==
  Is(field, 1, WireBytes) => ParsePhone(field.value).ok

\* Mutant: phones are kept only when all of the message could be read.
AllOrNothing(s) ==
  LET m == Fields(s)
      parsed == ListOf(m, FirstBad(m.fields, ReadablePhone))
  IN  IF parsed.ok THEN parsed ELSE [ok |-> FALSE, list |-> <<>>]

\* ParseFromArray or ParseFromIstream, into an empty list: false unless the end
\* was reached.
Parse(s) ==
  LET m == Fields(s) IN ListOf(m, FirstBad(m.fields, ReadablePhone))
=============================================================================
