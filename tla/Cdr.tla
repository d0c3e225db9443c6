--------------------------------- MODULE Cdr ---------------------------------
(* Micro CDR, the serializer the Client is built on: a submodule whose       *)
(* functions src/ calls. A format says how a value lies in a buffer, Write   *)
(* is the octets a value takes from an offset on, and Read the value found   *)
(* there. Integers lie at multiples of their width, the least octet first.   *)
EXTENDS Integers, Sequences

UInt(width) == [kind |-> "uint", width |-> width]
Octets(size) == [kind |-> "octets", size |-> size]
String(max) == [kind |-> "string", max |-> max]
Bytes(max) == [kind |-> "bytes", max |-> max]
List(max, format) == [kind |-> "list", max |-> max, format |-> format]
Field(name, format) == [name |-> name, format |-> format]
Struct(fields) == [kind |-> "struct", fields |-> fields]
Bool == UInt(1)

(* A flag, and the value if the flag is set: <<>> or <<value>>.              *)
Optional(format) == [kind |-> "optional", format |-> format, read |-> TRUE]
(* The same, in a structure whose reader stops after the flag.               *)
OptionalNotRead(format) == [kind |-> "optional", format |-> format, read |-> FALSE]

(* A discriminator and what it selects; one that selects nothing stands      *)
(* alone: <<discriminator, value>>.                                          *)
Union(width, branches) == [kind |-> "union", width |-> width, branches |-> branches]
Nothing == Struct(<<>>)
Branch(format, discriminator) ==
    IF discriminator \in DOMAIN format.branches
    THEN format.branches[discriminator] ELSE Nothing

(***************************************************************************)
(* Writing.                                                                *)
(***************************************************************************)
Padding(at, width) == (-at) % width
Zeros(n) == [i \in 1..n |-> 0]

(* TLC's integers end at 2^31: values stay below 2^24, and a wider one that  *)
(* is read counts as TooLarge.                                               *)
TooLarge == 16777216
OctetOf(n, i) == IF i > 3 THEN 0 ELSE (n \div (256 ^ (i - 1))) % 256
WriteUInt(width, n, at) ==
    Zeros(Padding(at, width)) \o [i \in 1..width |-> OctetOf(n, i)]

RECURSIVE Write(_, _, _), WriteEach(_, _, _, _)

(* Behind the octets out that start at an offset, values of some formats.    *)
WriteEach(out, formats, values, at) ==
    IF formats = <<>> THEN out
    ELSE WriteEach(out \o Write(Head(formats), Head(values), at + Len(out)),
                   Tail(formats), Tail(values), at)

(* The formats of a value that is made of others, and those others.          *)
Parts(format, value) ==
    CASE format.kind = "list" -> <<UInt(4)>> \o [i \in DOMAIN value |-> format.format]
      [] format.kind = "optional" -> <<Bool>> \o [i \in DOMAIN value |-> format.format]
      [] format.kind = "struct" -> [i \in DOMAIN format.fields |-> format.fields[i].format]
      [] format.kind = "union" -> <<UInt(format.width), Branch(format, value[1])>>
PartsOf(format, value) ==
    CASE format.kind \in {"list", "optional"} -> <<Len(value)>> \o value
      [] format.kind = "struct" -> [i \in DOMAIN format.fields |-> value[format.fields[i].name]]
      [] format.kind = "union" -> value

Write(format, value, at) ==
    CASE format.kind = "uint" -> WriteUInt(format.width, value, at)
      [] format.kind = "octets" -> value
      [] format.kind = "string" -> WriteUInt(4, Len(value) + 1, at) \o value \o <<0>>
      [] format.kind = "bytes" -> WriteUInt(4, Len(value), at) \o value
      [] OTHER -> WriteEach(<<>>, Parts(format, value), PartsOf(format, value), at)

(***************************************************************************)
(* Reading. The buffer ends with its sequence; the first read that does    *)
(* not fit, and a count above a maximum, put the buffer in error, and      *)
(* nothing is read after that.                                             *)
(***************************************************************************)
ReadValue(value, at) == [ok |-> TRUE, value |-> value, at |-> at]
ReadError(at) == [ok |-> FALSE, value |-> <<>>, at |-> at]

(* A part of a buffer, up to its end.                                         *)
Part(buffer, first, last) ==
    SubSeq(buffer, first, IF last <= Len(buffer) THEN last ELSE Len(buffer))

ReadOctets(buffer, at, n) ==
    IF at + n <= Len(buffer)
    THEN ReadValue(SubSeq(buffer, at + 1, at + n), at + n) ELSE ReadError(at)

UIntOf(octets) ==
    IF \E i \in DOMAIN octets : i > 3 /\ octets[i] # 0 THEN TooLarge
    ELSE LET Digit(i) == IF i > Len(octets) THEN 0 ELSE octets[i] * (256 ^ (i - 1))
         IN Digit(1) + Digit(2) + Digit(3)

AsUInt(read) == IF read.ok THEN ReadValue(UIntOf(read.value), read.at) ELSE read
ReadUInt(width, buffer, at) == AsUInt(ReadOctets(buffer, at + Padding(at, width), width))

(* Behind a count of octets, those octets, the last extra ones dropped.      *)
DropLast(read, extra) ==
    IF read.ok THEN [read EXCEPT !.value = SubSeq(@, 1, Len(@) - extra)] ELSE read
ReadCounted(count, max, extra, buffer) ==
    IF ~count.ok \/ count.value > max THEN ReadError(count.at)
    ELSE DropLast(ReadOctets(buffer, count.at, count.value), extra)

RECURSIVE Read(_, _, _), ReadEach(_, _, _)

(* Behind the values read, values of some formats.                           *)
ReadNext(read, next) ==
    IF next.ok THEN ReadValue(Append(read.value, next.value), next.at) ELSE next
ReadEach(read, formats, buffer) ==
    IF formats = <<>> \/ ~read.ok THEN read
    ELSE ReadEach(ReadNext(read, Read(Head(formats), buffer, read.at)), Tail(formats), buffer)

(* Behind a count, as many values of one format.                             *)
ReadMany(count, max, format, buffer) ==
    IF ~count.ok \/ count.value > max THEN ReadError(count.at)
    ELSE ReadEach(ReadValue(<<>>, count.at), [i \in 1..count.value |-> format], buffer)

(* Behind a discriminator, what it selects.                                  *)
ReadSelected(discriminator, format, buffer) ==
    IF discriminator.ok
    THEN ReadEach(ReadValue(<<discriminator.value>>, discriminator.at),
                  <<Branch(format, discriminator.value)>>, buffer)
    ELSE discriminator

(* The values of a structure's fields, by name.                              *)
ByName(read, fields) ==
    IF ~read.ok THEN read
    ELSE ReadValue([name \in {fields[i].name : i \in DOMAIN fields} |->
                        read.value[CHOOSE i \in DOMAIN fields : fields[i].name = name]],
                   read.at)

Read(format, buffer, at) ==
    CASE format.kind = "uint" -> ReadUInt(format.width, buffer, at)
      [] format.kind = "octets" -> ReadOctets(buffer, at, format.size)
      [] format.kind = "string" -> ReadCounted(ReadUInt(4, buffer, at), format.max, 1, buffer)
      [] format.kind = "bytes" -> ReadCounted(ReadUInt(4, buffer, at), format.max, 0, buffer)
      [] format.kind = "list" ->
            ReadMany(ReadUInt(4, buffer, at), format.max, format.format, buffer)
      [] format.kind = "struct" ->
            ByName(ReadEach(ReadValue(<<>>, at), Parts(format, <<>>), buffer), format.fields)
      [] format.kind = "optional" ->
            ReadMany(ReadUInt(1, buffer, at), 1,
                     IF format.read THEN format.format ELSE Nothing, buffer)
      [] format.kind = "union" -> ReadSelected(ReadUInt(format.width, buffer, at), format, buffer)
=============================================================================
