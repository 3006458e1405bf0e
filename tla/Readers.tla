------------------------------- MODULE Readers -------------------------------
(***************************************************************************)
(* The readers of Formats at work.  A state is one input and what the code *)
(* makes of it; there is one action for each of the code's readers, and    *)
(* each property compares what it returned with what was written.          *)
(***************************************************************************)
EXTENDS Formats

CONSTANTS
    Rests,     \* what may follow a value in the text it is read from
    Torrents,  \* .torrent files
    Answers,   \* answers of a tracker
    Urls,      \* URLs
    Raws       \* texts that are escaped

VARIABLES
    reader,  \* which function is called, and with what
    out      \* what it returned, <<>> before

vars == <<reader, out>>

-----------------------------------------------------------------------------
(* What is written                                                         *)

File == [length : Nat, path : Seq(Text)]

FileVal(f) ==
    DictVal([k \in {Key.length, Key.path} |->
        IF k = Key.length THEN IntVal(f.length)
        ELSE ListVal([j \in DOMAIN f.path |-> StrVal(f.path[j])])])

(* A .torrent file of several files, or of one when the list is empty.     *)
Torrent == [announce : Text, pieceLength : Nat, name : Text, length : Nat,
            files : Seq(File), pieces : Text]

LengthOrFiles(m) ==
    IF m.files = <<>> THEN IntVal(m.length)
    ELSE ListVal([j \in DOMAIN m.files |-> FileVal(m.files[j])])

InfoVal(m) ==
    DictVal([k \in {Key.pieceLength, Key.name, Key.pieces,
                    IF m.files = <<>> THEN Key.length ELSE Key.files} |->
        CASE k = Key.pieceLength -> IntVal(m.pieceLength)
          [] k = Key.name -> StrVal(m.name)
          [] k = Key.pieces -> StrVal(m.pieces)
          [] OTHER -> LengthOrFiles(m)])

TorrentVal(m) ==
    DictVal([k \in {Key.announce, Key.info} |->
        IF k = Key.announce THEN StrVal(m.announce) ELSE InfoVal(m)])

(* A tracker's answer: peers, and an interval or none, which may be        *)
(* something else than a number.                                           *)
Ports == 0 .. 256 * 256 - 1
Peer == [ip : [1 .. 4 -> Char], port : Ports]

PeersText(ps) ==
    FlattenSeq([k \in DOMAIN ps |-> ps[k].ip \o <<ps[k].port \div 256, ps[k].port % 256>>])

AnswerVal(a) ==
    DictVal([k \in {Key.peers} \cup (IF a.interval = <<>> THEN {} ELSE {Key.interval}) |->
        IF k = Key.peers THEN StrVal(PeersText(a.peers)) ELSE a.interval[1]])

ASSUME InputsAssumption ==
    /\ Rests \subseteq Text /\ Urls \subseteq Text /\ Raws \subseteq Text
    /\ \A m \in Torrents : m \in Torrent /\ Len(m.pieces) % 20 = 0 /\ TorrentVal(m) \in Values
    /\ \A a \in Answers :
          /\ a = [interval |-> a.interval, peers |-> a.peers]
          /\ a.interval \in {<<>>} \cup {<<v>> : v \in Values}
          /\ a.peers \in Seq(Peer) /\ AnswerVal(a) \in Values

-----------------------------------------------------------------------------
Init ==
    /\ \/ \E v \in Values, rest \in Rests : reader = [f |-> "value", of |-> <<v, rest>>]
       \/ \E m \in Torrents : reader = [f |-> "torrent", of |-> m]
       \/ \E a \in Answers : reader = [f |-> "answer", of |-> a]
       \/ \E u \in Urls : reader = [f |-> "url", of |-> u]
       \/ \E s \in Raws : reader = [f |-> "escape", of |-> s]
    /\ out = <<>>

Calls(f) == reader.f = f /\ out = <<>> /\ UNCHANGED reader

ReadsValue ==
    /\ Calls("value")
    /\ out' = <<ReadValue(Encode[reader.of[1]] \o reader.of[2])>>
ReadsTorrent ==
    /\ Calls("torrent")
    /\ LET t == Encode[TorrentVal(reader.of)] IN out' = <<TorrentOf(t), InfoSlice(t)>>
ReadsAnswer ==
    /\ Calls("answer")
    /\ out' = <<Understood(Encode[AnswerVal(reader.of)])>>
ReadsUrl ==
    /\ Calls("url")
    /\ out' = <<Protocol(reader.of), Hostname(reader.of), Path(reader.of)>>
ReadsEscape ==
    /\ Calls("escape")
    /\ out' = <<DecodeUrl(EncodeUrl(reader.of))>>

Next == ReadsValue \/ ReadsTorrent \/ ReadsAnswer \/ ReadsUrl \/ ReadsEscape

Spec == Init /\ [][Next]_vars

Read(f) == reader.f = f /\ out # <<>>

-----------------------------------------------------------------------------
(* Properties                                                              *)

HasLeast[v \in Values] ==
    CASE v.kind = "int" -> v.val = -MaxInt - 1
      [] v.kind = "str" -> FALSE
      [] OTHER -> \E x \in DOMAIN v.val : HasLeast[v.val[x]]

(* A value that is encoded and read again, whatever follows it in the      *)
(* text, is the same value, and reading stops right behind it: strings     *)
(* that look like encoded values, nested lists and dictionaries included.  *)
(* The least int64_t is the exception: its digits do not fit without their *)
(* sign, and the reader throws.                                            *)
(* (_read_int, _read_str, _read_list, _read_dict, encode_bencode)          *)
RoundTrip ==
    Read("value") =>
        IF HasLeast[reader.of[1]] THEN out[1].val = Thrown
        ELSE out[1] = Result(reader.of[1], Len(Encode[reader.of[1]]) + 1)

(* What find_info_hash hashes is exactly the encoded info dictionary,      *)
(* provided "4:info" does not come before it: in the announce URL, or      *)
(* where the length of that URL ends and the URL begins.                   *)
InfoIsSliced ==
    Read("torrent") =>
        LET m      == reader.of
            before == <<DictChar>> \o EncodeStr(Key.announce) \o EncodeStr(m.announce)
        IN  Occurs(before \o EncodeStr(Key.info), EncodeStr(Key.info)) = {Len(before) + 1}
            => out[2] = Encode[InfoVal(m)]

(* Torrent::Torrent finds in a .torrent file the files, in their order and *)
(* with their paths, the hash of every piece, and the total length they    *)
(* add up to.                                                              *)
MetadataRead ==
    Read("torrent") =>
        LET m == reader.of
        IN  /\ \A k \in {"announce", "pieceLength", "name", "files"} : out[1][k] = m[k]
            /\ FlattenSeq(out[1].pieces) = m.pieces
            /\ \A k \in DOMAIN out[1].pieces : Len(out[1].pieces[k]) = 20
            /\ out[1].total = IF m.files = <<>> THEN m.length ELSE SumOfLengths(m.files)

(* The program reads out of a tracker's answer the peers that were put     *)
(* into it, in their order, with ports above 255 and addresses that look   *)
(* like bencode, and an interval even when the answer has none.            *)
(* (async_send_start_and_recv_peers, update_peer_list, parse_peers)        *)
AnswerUnderstood ==
    Read("answer") =>
        LET a == reader.of
        IN  ~HasLeast[AnswerVal(a)] =>
              /\ out[1].peers = a.peers
              /\ out[1].interval = IF a.interval # <<>> /\ a.interval[1].kind = "int"
                                   THEN a.interval[1].val ELSE 30

Url(sch, h, p) == (IF sch = <<>> THEN <<>> ELSE sch \o SchemeEnd) \o h \o p

(* The three functions that cut a URL agree on where the host is: what     *)
(* they return puts together to the URL, whatever comes first behind the   *)
(* host, the path may be left out if it is "/", and a host has none of the *)
(* characters that end it.                                                 *)
(* (get_url_hostname, get_url_path, parse_url)                             *)
UrlAgrees ==
    Read("url") /\ 1 \notin Occurs(reader.of, SchemeEnd) =>
        /\ \/ Url(out[1], out[2], out[3]) = reader.of
           \/ Url(out[1], out[2], <<>>) = reader.of /\ out[3] = <<Slash>>
        /\ \A j \in DOMAIN out[2] : out[2][j] \notin Delimiters

(* urldecode gives back what urlencode was given: a "%" in the text        *)
(* included, and the bytes above 127, which are negative chars.            *)
EscapeRoundTrip == Read("escape") => out[1] = reader.of
==============================================================================
