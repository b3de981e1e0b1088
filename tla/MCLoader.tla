------------------------------ MODULE MCLoader ------------------------------
(***************************************************************************)
(* Files for the loader.  They are put together from records here, and     *)
(* what they stand for is computed from the same records by the formats'   *)
(* own rules, not by the loader's: that is the reference.                  *)
(***************************************************************************)
EXTENDS Loader, SequencesExt

HexChar(d) == IF d < 10 THEN 48 + d ELSE 55 + d
LowHexChar(d) == IF d < 10 THEN 48 + d ELSE 87 + d
HexText(Char2(_), b) == <<Char2(b \div 16), Char2(b % 16)>>
Hex(bytes) == FlattenSeq([i \in DOMAIN bytes |-> HexText(HexChar, bytes[i])])
LowHex(bytes) == FlattenSeq([i \in DOMAIN bytes |-> HexText(LowHexChar, bytes[i])])

Total(bytes) == FoldLeft(LAMBDA x, y : x + y, 0, bytes)
Addr(a) == <<a \div 256, a % 256>>

\* Intel hex: length, address, type, data; all bytes add up to 0.
IHexBytes(a, type, data) ==
    LET body == <<Len(data)>> \o Addr(a) \o <<type>> \o data
    IN  Append(body, (256 - (Total(body) % 256)) % 256)

\* S-records: length of the rest, address, data; all bytes add up to $FF.
MotoBytes(a, data) ==
    LET body == <<Len(data) + 3>> \o Addr(a) \o data
    IN  Append(body, 255 - (Total(body) % 256))

\* A line: its type, its bytes and its text.
Line(type, bytes, text) == [type |-> type, bytes |-> bytes, text |-> text]
IHexLine(a, type, data) ==
    LET b == IHexBytes(a, type, data) IN Line(type, b, <<58>> \o Hex(b))
MotoLine(type, a, data) ==
    LET b == MotoBytes(a, data) IN Line(type, b, <<83, 48 + type>> \o Hex(b))
MotoLowLine(type, a, data) ==
    LET b == MotoBytes(a, data) IN Line(type, b, <<115, 48 + type>> \o LowHex(b))

\* The text of the lines, each with its end.
Text(lines, eol) == FlattenSeq([i \in DOMAIN lines |-> lines[i].text \o eol])

ImageOf(a, data) ==
    [x \in {(a + i - 1) % 65536 : i \in DOMAIN data} |->
        data[((x - a) % 65536) + 1]]

\* A file of lines after a title, which may be <<>>.
FileOf(format, title, lines, eol, image, supported) ==
    [text |-> title \o Text(lines, eol),
     format |-> format,
     records |-> [i \in DOMAIN lines |->
        [at |-> Len(title \o Text(SubSeq(lines, 1, i - 1), eol)) + 1,
         type |-> lines[i].type, bytes |-> lines[i].bytes]],
     image |-> image, supported |-> supported]
File(format, lines, eol, image) == FileOf(format, <<>>, lines, eol, image, TRUE)
BadFile(format, lines, eol) ==
    FileOf(format, <<>>, lines, eol, NoMemory, FALSE)

CrLf == <<13, 10>>

\* Two data records, the second at the top of memory and wrapping.
First  == <<1, 46>>
Second == <<255>>
Image  == ImageOf(4096, First) @@ ImageOf(65535, Second)

IHexFile ==
    <<IHexLine(4096, 0, First), IHexLine(65535, 0, Second), IHexLine(0, 1, <<>>)>>
MotoFile ==
    <<MotoLine(0, 0, <<72>>), MotoLine(1, 4096, First),
      MotoLine(1, 65535, Second), MotoLine(5, 2, <<>>), MotoLine(9, 4096, <<>>)>>
MotoLowFile ==
    <<MotoLowLine(1, 4096, First), MotoLowLine(1, 65535, Second),
      MotoLowLine(9, 0, <<>>)>>

\* A title before the records, an empty data record, a record across the wrap.
TitledFile ==
    <<IHexLine(8192, 0, <<>>), IHexLine(65535, 0, <<7, 8>>), IHexLine(0, 1, <<>>)>>
TitledImage == ImageOf(65535, <<7, 8>>)

\* What the help text does not promise: types 4 and S2.
ExtendedFile == <<IHexLine(0, 4, <<0, 1>>), IHexLine(0, 1, <<>>)>>
LongFile == <<MotoLine(2, 1, <<0, 7>>), MotoLine(9, 0, <<>>)>>

GoodFiles ==
    {File("intel", IHexFile, eol, Image) : eol \in {<<13>>, <<10>>, CrLf}} \cup
    {File("moto", MotoFile, eol, Image) : eol \in {<<13>>, <<10>>, CrLf}} \cup
    {File("moto", MotoLowFile, <<13>>, Image),
     FileOf("intel", <<72, 105>> \o CrLf, TitledFile, CrLf, TitledImage, TRUE)}

AllFiles == GoodFiles \cup {BadFile("intel", ExtendedFile, CrLf),
                            BadFile("moto", LongFile, CrLf)}

\* The shortest file of each format with something in it.
ShortFiles ==
    {File("intel", <<IHexLine(4096, 0, First), IHexLine(0, 1, <<>>)>>, CrLf,
          ImageOf(4096, First)),
     File("moto", <<MotoLine(1, 4096, First), MotoLine(9, 0, <<>>)>>, CrLf,
          ImageOf(4096, First))}

\* All of them are of the kind the proofs are about.
ASSUME FilesHaveData == \A t \in AllFiles \cup ShortFiles : HasData(t)

\* An S1 record that carries an address and no data.
EmptyRecord ==
    {File("moto", <<MotoLine(1, 4096, <<>>), MotoLine(9, 0, <<>>)>>, CrLf,
          NoMemory)}

\* Every digit, 'G' (no digit), ':', 'S', CR, LF and Ctrl-C.
SomeNoise == (48..58) \cup (65..71) \cup {83, 13, 10, 3}
\* Digits, what is taken for one, what begins a record and what ends a line.
LittleNoise == {48, 49, 71, 58, 13}
NoNoise == {}
=============================================================================
