------------------------------ MODULE MCCards ------------------------------
(* Cards and what handles them, side by side: the virtual card, the PC/SC      *)
(* client, security domains, profiles, secure channels and the encodings. They *)
(* share no state here: a behaviour picks one and leaves the others in an       *)
(* initial state. The instance: two load files and one key slot of the virtual  *)
(* card; two readers, two cards and two threads; a domain beside the issuer's   *)
(* and two packages; four profiles; both secure channels; samples of each       *)
(* encoding at the lengths where its form changes.                              *)
EXTENDS VirtualCard, CardReader, CardProfile, SecureChannel, CardCodecs, TLC

VARIABLE part

cardSuiteVars == <<part, cardVars, readerVars, domainVars, profileVars, channelVars, codecVars>>

\* One initial state is enough of a part that does not run.
Init ==
    /\ part \in {"card", "reader", "domain", "profile", "channel", "codecs"}
    /\ CardInit /\ ReaderInit /\ DomainInit /\ ProfileInit /\ ChannelInit /\ CodecInit
    /\ part # "domain" => selectable = {Isd} \cup Domains /\ onCard = NoneSelected /\ perBatch = 1
    /\ part # "profile" => present = FileIds /\ zeroed /\ channel
    /\ part # "channel" => scp = "SCP02"
    /\ part # "codecs" => sample = [kind |-> "iccid", value |-> <<>>]

VirtualCardStep ==
    part = "card" /\ CardNext
    /\ UNCHANGED <<part, readerVars, domainVars, profileVars, channelVars, codecVars>>
ReaderStep ==
    part = "reader" /\ ReaderNext
    /\ UNCHANGED <<part, cardVars, domainVars, profileVars, channelVars, codecVars>>
DomainStep ==
    part = "domain" /\ DomainNext
    /\ UNCHANGED <<part, cardVars, readerVars, profileVars, channelVars, codecVars>>
ProfileStep ==
    part = "profile" /\ ProfileNext
    /\ UNCHANGED <<part, cardVars, readerVars, domainVars, channelVars, codecVars>>
ChannelStep ==
    part = "channel" /\ ChannelNext
    /\ UNCHANGED <<part, cardVars, readerVars, domainVars, profileVars, codecVars>>
CodecStep ==
    part = "codecs" /\ CodecNext
    /\ UNCHANGED <<part, cardVars, readerVars, domainVars, profileVars, channelVars>>

Next == \/ VirtualCardStep \/ ReaderStep \/ DomainStep \/ ProfileStep \/ ChannelStep \/ CodecStep

Spec == Init /\ [][Next]_cardSuiteVars

-----------------------------------------------------------------------------
CONSTANTS f1, f2, a1, v1, v2, none, u1, u2, r1, r2, c1, c2, isd, short, sd, p1, p2,
          i1, i2, k1, w1, sms, poll, bip, blank

\* Profiles; values of length 1 and 2.
MCLength(v) == CASE v = none -> 0 [] v \in {i1, k1, sms, bip} -> 1 [] OTHER -> 2
Profile(psk, url, s, p, b) ==
    [psk |-> psk, url |-> url, sms |-> s, poll |-> p, bip |-> b, trigger |-> FALSE]
Url(valid) == [url |-> w1, valid |-> valid]
MCProfiles ==
    {Profile([id |-> i1, key |-> k1], none, sms, poll, bip),
     Profile([id |-> i2, key |-> none], Url(TRUE), none, none, none),
     Profile(none, Url(FALSE), sms, none, none)}

\* Samples of the encodings.
Leaf(tag, n) == [tag |-> tag, value |-> Filler(n), children |-> <<>>]
Tree(tag, kids) == [tag |-> tag, value |-> <<>>, children |-> kids]
Level(abc, protocol) == [abc |-> abc, protocol |-> protocol]
MCSamples == [
    tlv |-> {<<Leaf(1, n)>> : n \in {0, 1, 127, 128, 255, 256, 700}}
            \cup {<<Leaf(40816, 2), Leaf(132, 0)>>, <<Leaf(40709, 1)>>,
                  <<Tree(165, <<Leaf(132, 3), Leaf(1, 1)>>), Leaf(132, 1)>>,
                  <<Tree(111, <<Tree(165, <<Leaf(1, 130)>>), Leaf(2, 1)>>)>>},
    apdu |-> {Command(<<0, 1, 2, 3>>, Filler(n), le) :
                n \in {0, 1, 2, 255, 256}, le \in {none, 0, 1, 5, 255, 256}},
    apn |-> {<<>>} \cup {<<Filler(n)>> : n \in {0, 1, 63, 64}}
            \cup {<<Filler(3), Filler(n)>> : n \in {1, 63}},
    iccid |-> {[i \in 1..n |-> 8 + (i % 2)] : n \in {0, 1, 18, 19, 20}},
    atr |-> {[levels |-> l, historical |-> h, check |-> c] : h \in {0, 1, 15}, c \in BOOLEAN,
                l \in {<<Level(x, none)>> : x \in 0..7}
                      \cup {<<Level(x, p), Level(y, none)>> : x \in {0, 5}, y \in {0, 7}, p \in {0, 1}}
                      \cup {<<Level(1, 0), Level(y, 1), Level(2, none)>> : y \in {0, 3}}},
    profile |-> [psk : {none, [id |-> 1, key |-> 2]}, url : {none, 1}, trigger : {none, 1},
                 bip : {none, [apn |-> 1, login |-> 2]}]]
=============================================================================
