---------------------------- MODULE CardCodecs ----------------------------
(* The encodings of card data: TLV trees, command APDUs, access point names,  *)
(* answers to reset, ICCIDs and profiles as dictionaries.  Each sample is       *)
(* encoded and decoded, and compared with what it was.                          *)
EXTENDS Naturals, Sequences, SequencesExt, FiniteSets

CONSTANTS
    Samples,   \* per kind of data: a set of values
    Missing    \* no value

VARIABLE sample  \* [kind, value]

codecVars == <<sample>>

Byte(n) == n % 256
Drop(d, n) == SubSeq(d, n + 1, Len(d))
Filler(n) == [i \in 1..n |-> 7]

(***************************************************************************)
(* TLV                                                                      *)
(***************************************************************************)

Failed == [ok |-> FALSE]

\* encode_length; more than three bytes of length is an error.
EncodeLength(n) ==
    IF n < 128 THEN <<n>>
    ELSE IF n <= 255 THEN <<129, n>>
    ELSE IF n <= 65535 THEN <<130, n \div 256, Byte(n)>>
    ELSE <<131, n \div 65536, Byte(n \div 256), Byte(n)>>

\* Mutant of ParseLength: the two-byte form is read in the other order.
ParseLengthSwapped(d) ==
    IF d = <<>> \/ d[1] \in {128} \cup 132..255 \/ Len(d) < 1 + (IF d[1] < 128 THEN 0 ELSE d[1] - 128)
    THEN Failed
    ELSE CASE d[1] < 128 -> [ok |-> TRUE, n |-> d[1], used |-> 1]
           [] d[1] = 129 -> [ok |-> TRUE, n |-> d[2], used |-> 2]
           [] d[1] = 130 -> [ok |-> TRUE, n |-> d[2] + 256 * d[3], used |-> 3]
           [] OTHER -> [ok |-> TRUE, n |-> 65536 * d[2] + 256 * d[3] + d[4], used |-> 4]

ParseLength(d) ==
    IF d = <<>> \/ d[1] \in {128} \cup 132..255 \/ Len(d) < 1 + (IF d[1] < 128 THEN 0 ELSE d[1] - 128)
    THEN Failed
    ELSE CASE d[1] < 128 -> [ok |-> TRUE, n |-> d[1], used |-> 1]
           [] d[1] = 129 -> [ok |-> TRUE, n |-> d[2], used |-> 2]
           [] d[1] = 130 -> [ok |-> TRUE, n |-> 256 * d[2] + d[3], used |-> 3]
           [] OTHER -> [ok |-> TRUE, n |-> 65536 * d[2] + 256 * d[3] + d[4], used |-> 4]

TagBytes(tag) == IF tag > 255 THEN <<Byte(tag \div 256), Byte(tag)>> ELSE <<tag>>
FirstByte(tag) == Head(TagBytes(tag))
IsConstructed(tag) == (FirstByte(tag) \div 32) % 2 = 1

\* A second byte follows if the low five bits are set, never a third.
ParseTag(d) ==
    IF d = <<>> THEN Failed
    ELSE IF d[1] % 32 # 31 THEN [ok |-> TRUE, n |-> d[1], used |-> 1]
    ELSE IF Len(d) < 2 THEN Failed
    ELSE [ok |-> TRUE, n |-> 256 * d[1] + d[2], used |-> 2]

\* A tree is [tag, value] with bytes, or [tag, children].
RECURSIVE Build(_), BuildAll(_)
BuildAll(trees) == IF trees = <<>> THEN <<>> ELSE Build(Head(trees)) \o BuildAll(Tail(trees))
Build(t) ==
    LET value == IF t.children # <<>> THEN BuildAll(t.children) ELSE t.value
    IN TagBytes(t.tag) \o EncodeLength(Len(value)) \o value

\* 00 and FF between entries are padding.  Children that cannot be parsed are none.
RECURSIVE ParseTlv(_), ParseAll(_)
ParseAll(d) ==
    IF d = <<>> THEN [ok |-> TRUE, list |-> <<>>]
    ELSE IF d[1] \in {0, 255} THEN ParseAll(Tail(d))
    ELSE LET first == ParseTlv(d)
             rest == ParseAll(Drop(d, first.used))
         IN IF ~first.ok THEN Failed
            ELSE IF rest.ok THEN [ok |-> TRUE, list |-> <<first.tlv>> \o rest.list] ELSE rest
ParseTlv(d) ==
    LET tag == ParseTag(d)
        length == ParseLength(Drop(d, tag.used))
        from == tag.used + length.used
        value == SubSeq(d, from + 1, from + length.n)
        inner == IF IsConstructed(tag.n) THEN ParseAll(value) ELSE Failed
    IN IF ~tag.ok \/ ~length.ok \/ Len(d) < from + length.n THEN Failed
       ELSE [ok |-> TRUE, used |-> from + length.n,
             tlv |-> [tag |-> tag.n, value |-> IF inner.ok /\ inner.list # <<>> THEN <<>> ELSE value,
                      children |-> IF inner.ok THEN inner.list ELSE <<>>]]

\* find_recursive takes what a child found only if that is true, and a TLV without children
\* has length 0 and is false.
RECURSIVE FindRecursive(_, _), Occurs(_, _)
FindRecursive(t, tag) ==
    IF t.tag = tag THEN t
    ELSE LET hits == SelectSeq([i \in DOMAIN t.children |-> FindRecursive(t.children[i], tag)],
                               LAMBDA r : r # Missing /\ r.children # <<>>)
         IN IF hits = <<>> THEN Missing ELSE Head(hits)
Occurs(t, tag) == t.tag = tag \/ \E i \in DOMAIN t.children : Occurs(t.children[i], tag)

\* get_value looks at the top first, and then drops a find without children once more.
RECURSIVE GetValue(_, _)
GetValue(list, tag) ==
    IF list = <<>> THEN Missing
    ELSE LET found == FindRecursive(Head(list), tag) IN
         IF Head(list).tag = tag \/ (found # Missing /\ found.children # <<>>) THEN found
         ELSE GetValue(Tail(list), tag)

(***************************************************************************)
(* Command APDUs                                                            *)
(***************************************************************************)

\* A command: header (four bytes), data, le or Missing.  Anything a byte cannot hold raises.
Encodable(c) == Len(c.data) <= 255 /\ (c.le # Missing => c.le <= 255)
ToBytes(c) ==
    c.header \o (IF c.data = <<>> THEN <<>> ELSE <<Len(c.data)>> \o c.data)
             \o (IF c.le = Missing THEN <<>> ELSE <<c.le>>)

Command(h, d, le) == [header |-> h, data |-> d, le |-> le]
FromBytes(b) ==
    LET h == SubSeq(b, 1, 4)
        lc == b[5]
    IN IF Len(b) = 4 THEN Command(h, <<>>, Missing)
       ELSE IF Len(b) = 5 THEN Command(h, <<>>, b[5])
       ELSE IF Len(b) = 5 + lc THEN Command(h, Drop(b, 5), Missing)
       ELSE IF Len(b) = 6 + lc THEN Command(h, SubSeq(b, 6, 5 + lc), b[6 + lc])
       ELSE Missing

\* The virtual card's parser: Le 0 is 256, and with more than five bytes Lc 0 is refused.
OrAll(le) == IF le = 0 THEN 256 ELSE le
CardParse(b) ==
    LET h == SubSeq(b, 1, 4)
        lc == b[5]
    IN IF Len(b) < 4 THEN Missing
       ELSE IF Len(b) = 4 THEN Command(h, <<>>, Missing)
       ELSE IF Len(b) = 5 THEN Command(h, <<>>, OrAll(b[5]))
       ELSE IF lc = 0 THEN Missing
       ELSE IF Len(b) = 5 + lc THEN Command(h, Drop(b, 5), Missing)
       ELSE IF Len(b) = 6 + lc THEN Command(h, SubSeq(b, 6, 5 + lc), OrAll(b[6 + lc]))
       ELSE Missing

\* How a secure channel takes a command apart before it adds the MAC.
SecureParse(b) ==
    CASE Len(b) = 4 -> Command(SubSeq(b, 1, 4), <<>>, Missing)
      [] Len(b) = 5 -> Command(SubSeq(b, 1, 4), <<>>, b[5])
      [] OTHER -> Command(SubSeq(b, 1, 4), SubSeq(b, 6, 5 + b[5]),
                          IF Len(b) > 5 + b[5] THEN b[6 + b[5]] ELSE Missing)

(***************************************************************************)
(* Access point names, ICCIDs                                               *)
(***************************************************************************)

\* A name is a sequence of labels; an empty label or one beyond 63 raises.
ApnEncodable(labels) == \A i \in DOMAIN labels : Len(labels[i]) \in 1..63
RECURSIVE EncodeApn(_), DecodeApn(_)
EncodeApn(labels) ==
    IF labels = <<>> THEN <<>> ELSE <<Len(Head(labels))>> \o Head(labels) \o EncodeApn(Tail(labels))
DecodeApn(d) ==
    IF d = <<>> \/ d[1] = 0 THEN <<>>
    ELSE <<SubSeq(d, 2, 1 + d[1])>> \o DecodeApn(Drop(d, 1 + d[1]))

\* Digits in swapped nibbles, padded with F: the card's side of the encoding.
EncodeIccid(digits) ==
    LET at(i) == IF i <= Len(digits) THEN digits[i] ELSE 15
    IN [i \in 1..(Len(digits) + 1) \div 2 |-> at(2 * i - 1) + 16 * at(2 * i)]
\* A nibble above 9 is left out, and F in the high one ends the number.
RECURSIVE DecodeIccid(_)
DecodeIccid(d) ==
    IF d = <<>> THEN <<>>
    ELSE LET low == Head(d) % 16
             high == Head(d) \div 16
             digit(n) == IF n <= 9 THEN <<n>> ELSE <<>>
         IN digit(low) \o digit(high) \o (IF high = 15 THEN <<>> ELSE DecodeIccid(Tail(d)))

(***************************************************************************)
(* Answers to reset                                                         *)
(***************************************************************************)

\* An answer: its levels, each with how many of TA, TB, TC it has and its protocol (TD),
\* Missing in the last; historical bytes and the check byte.
YBits(level) == level.abc + (IF level.protocol = Missing THEN 0 ELSE 8)
Bits(abc) == (abc % 2) + ((abc \div 2) % 2) + ((abc \div 4) % 2)
RECURSIVE AtrLevels(_)
AtrLevels(levels) ==
    IF levels = <<>> THEN <<>>
    ELSE LET l == Head(levels) IN
         Filler(Bits(l.abc))
         \o (IF l.protocol = Missing THEN <<>>
             ELSE <<16 * YBits(levels[2]) + l.protocol>> \o AtrLevels(Tail(levels)))
AtrBytes(a) ==
    <<59, 16 * YBits(a.levels[1]) + a.historical>> \o AtrLevels(a.levels)
    \o Filler(a.historical) \o (IF a.check THEN <<1>> ELSE <<>>)

\* _parse_interface_bytes from the bits y: the rest of the bytes and the protocols, which
\* are T=0 where none is given; a TD that announces nothing is the last.
RECURSIVE InterfaceBytes(_, _, _)
InterfaceBytes(d, y, protocols) ==
    LET n == Bits(y % 8)
        td == d[n + 1]
        found == IF (td % 16) \in Range(protocols) THEN protocols ELSE Append(protocols, td % 16)
    IN IF Len(d) < n + (IF y >= 8 THEN 1 ELSE 0) THEN Failed
       ELSE IF y < 8 THEN [ok |-> TRUE, rest |-> Drop(d, n),
                           protocols |-> IF protocols = <<>> THEN <<0>> ELSE protocols]
       ELSE IF td \div 16 = 0 THEN [ok |-> TRUE, rest |-> Drop(d, n + 1), protocols |-> found]
       ELSE InterfaceBytes(Drop(d, n + 1), td \div 16, found)

\* Fewer historical bytes than announced are taken as they are.
ParseAtr(b) ==
    IF Len(b) < 2 \/ b[1] \notin {59, 63} THEN Failed
    ELSE LET body == InterfaceBytes(Drop(b, 2), b[2] \div 16, <<>>)
             k == b[2] % 16
             taken == IF k > Len(body.rest) THEN Len(body.rest) ELSE k
         IN IF ~body.ok THEN Failed
            ELSE [ok |-> TRUE, protocols |-> body.protocols, historical |-> taken,
                  check |-> Len(body.rest) > taken]

(***************************************************************************)
(* Profiles as dictionaries                                                 *)
(***************************************************************************)

\* A part that is absent has no key in the dictionary; the key of the PSK only on request;
\* the user name and the password of the bearer never.
ProfileToDict(p, includeKeys) ==
    [part \in {x \in DOMAIN p : p[x] # Missing} |->
        CASE part = "psk" -> [p.psk EXCEPT !.key = IF includeKeys THEN @ ELSE Missing]
          [] part = "bip" -> [p.bip EXCEPT !.login = Missing]
          [] OTHER -> p[part]]
ProfileFromDict(d, parts) == [part \in parts |-> IF part \in DOMAIN d THEN d[part] ELSE Missing]

\* to_tlv of the bearer: the timeout is cut to a byte.
BipTimeout(t) == IF t > 255 THEN 255 ELSE t

(***************************************************************************)
(* Samples                                                                  *)
(***************************************************************************)

Kinds == DOMAIN Samples
CodecInit == \E k \in Kinds : \E v \in Samples[k] : sample = [kind |-> k, value |-> v]
AnotherSample == \E k \in Kinds : \E v \in Samples[k] : sample' = [kind |-> k, value |-> v]
CodecNext == AnotherSample

Is(kind) == sample.kind = kind
TlvGood(list) == ParseAll(BuildAll(list)) = [ok |-> TRUE, list |-> list]
Truncated(b) == {SubSeq(b, 1, n) : n \in 0..Len(b) - 1}

\* What is encoded is decoded to what it was, at the lengths where an encoding changes its
\* form too: TLV trees, and a tree cut short is no tree; commands, which the card's parser
\* and the secure channel take apart alike; names and numbers; the structure of an answer to
\* reset, of which no beginning is taken for one with all its historical bytes and its check
\* byte; a profile but for its secrets.  A tag at the top of a TLV list is found,
\* below the top one with children is, and none that is not there
\* (TLVParser, APDUCommand, ParsedAPDU.parse, _secure_command, _encode_apn, _decode_iccid,
\* ATRParser, CardProfile).
CodecsSound ==
    LET v == sample.value IN
    /\ Is("tlv") =>
        /\ TlvGood(v)
        /\ Len(v) = 1 /\ Len(BuildAll(v)) < 300 => \A b \in Truncated(BuildAll(v)) : ~ParseTlv(b).ok
        /\ \A i \in DOMAIN v : GetValue(v, v[i].tag) # Missing
        /\ \A i \in DOMAIN v, tag \in {1, 132, 165} :
              FindRecursive(v[i], tag) # Missing => Occurs(v[i], tag)
        /\ \A i \in DOMAIN v : \A j \in DOMAIN v[i].children :
              LET child == v[i].children[j] IN
              child.children # <<>> => FindRecursive(v[i], child.tag) # Missing
    /\ Is("apdu") /\ Encodable(v) =>
        /\ FromBytes(ToBytes(v)) = v /\ SecureParse(ToBytes(v)) = v
        /\ CardParse(ToBytes(v)) = [v EXCEPT !.le = IF @ = 0 THEN 256 ELSE @]
    /\ Is("apn") /\ ApnEncodable(v) => DecodeApn(EncodeApn(v)) = v
    /\ Is("iccid") => DecodeIccid(EncodeIccid(v)) = v
    /\ Is("atr") =>
        LET whole == ParseAtr(AtrBytes(v)) IN
        /\ whole.ok /\ whole.historical = v.historical /\ whole.check = v.check
        /\ Range(whole.protocols) = IF v.levels[1].protocol = Missing THEN {0}
              ELSE {v.levels[i].protocol : i \in DOMAIN v.levels} \ {Missing}
        /\ \A b \in Truncated(AtrBytes(v)) : ParseAtr(b) # whole
    /\ Is("profile") =>
        LET back(k) == ProfileFromDict(ProfileToDict(v, k), DOMAIN v) IN
        /\ \A part \in DOMAIN v \ {"bip", "psk"} : back(TRUE)[part] = v[part]
        /\ v.psk # Missing => back(TRUE).psk = v.psk /\ back(FALSE).psk.key = Missing
        /\ (v.bip = Missing) = (back(FALSE).bip = Missing)
=============================================================================
