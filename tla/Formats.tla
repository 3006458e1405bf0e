------------------------------ MODULE Formats -------------------------------
(***************************************************************************)
(* The texts the program reads and writes: bencode (a .torrent file, a     *)
(* tracker's answer), the info hash's slice of a .torrent file, compact    *)
(* peer addresses and URLs.  A character is its code, 0 .. 255, and a text *)
(* a sequence of them; how the keys of a dictionary are spelled is left    *)
(* open, as the constant Key.                                              *)
(*                                                                         *)
(* These are functions, not processes; Readers calls them.  Recursion is   *)
(* written with recursive functions over a position or a value.            *)
(***************************************************************************)
EXTENDS Integers, Sequences, FiniteSets, SequencesExt, FiniteSetsExt

CONSTANTS
    MaxInt,  \* the greatest int64_t; the least is -MaxInt - 1
    Key,     \* the texts of the keys the code looks up, a record
    Values,  \* the BencodeVals that are encoded
    Depth    \* how deep each of them is nested

Char == 0 .. 255
Text == Seq(Char)

KeyNames == {"info", "interval", "peers", "announce", "pieceLength", "name", "length",
             "files", "path", "pieces"}

ASSUME FormatsAssumption ==
    /\ MaxInt \in Nat \ {0}
    /\ Key \in [KeyNames -> Text]
    /\ \A k, l \in KeyNames : k # l => Key[k] # Key[l]

(* A BencodeVal: an integer, a string, a list, or a dictionary, which is a *)
(* function of its keys.  What the parser throws is a value of its own.    *)
IntVal(n) == [kind |-> "int", val |-> n]
StrVal(s) == [kind |-> "str", val |-> s]
ListVal(l) == [kind |-> "list", val |-> l]
DictVal(d) == [kind |-> "dict", val |-> d]
Thrown == [kind |-> "thrown", val |-> 0]

IsInt(v) == v = IntVal(v.val) /\ v.val \in -MaxInt - 1 .. MaxInt
IsStr(v) == v = StrVal(v.val) /\ v.val \in Text
IsList(v) ==
    /\ v = ListVal(v.val) /\ v.val \in Seq(Values)
    /\ \A j \in DOMAIN v.val : Depth[v.val[j]] < Depth[v]
IsDict(v) ==
    /\ v = DictVal(v.val) /\ v.val = [k \in DOMAIN v.val |-> v.val[k]]
    /\ DOMAIN v.val \subseteq Text /\ IsFiniteSet(DOMAIN v.val)
    /\ \A k \in DOMAIN v.val : v.val[k] \in Values /\ Depth[v.val[k]] < Depth[v]

(* Values are nested as deep as one likes, but not without end.            *)
ASSUME ValuesAssumption ==
    /\ Depth \in [Values -> Nat]
    /\ \A v \in Values : IsInt(v) \/ IsStr(v) \/ IsList(v) \/ IsDict(v)

(* The characters the code names.                                          *)
Zero == 48
Nine == 57
Colon == 58
Minus == 45
Slash == 47
Percent == 37
IntChar == 105
ListChar == 108
DictChar == 100
EndChar == 101

IsDigit(c) == c \in Zero .. Nine

(* The characters a value begins with.                                     *)
Starts(c) == IsDigit(c) \/ c \in {IntChar, ListChar, DictChar}

(* What a reader returns: the value and the position behind it.            *)
Result(v, i) == [val |-> v, pos |-> i]

(* The first position from i on whose character is in S, or the end.       *)
FirstOf(t, S, i) ==
    LET at == {j \in i .. Len(t) : t[j] \in S} IN IF at = {} THEN Len(t) + 1 ELSE Min(at)

(* The number its digits say.                                              *)
NumberOf(ds) ==
    LET upTo[k \in 0 .. Len(ds)] == IF k = 0 THEN 0 ELSE 10 * upTo[k - 1] + (ds[k] - Zero)
    IN  upTo[Len(ds)]

(* std::stoll and std::stoul: the digits a text begins with.               *)
Leading(t) == SubSeq(t, 1, FirstOf(t, Char \ (Zero .. Nine), 1) - 1)

Unsigned(t) == FlattenSeq([j \in DOMAIN t |-> IF t[j] = Minus THEN <<>> ELSE <<t[j]>>])

(* _read_int: minus signs are taken out wherever they are; the number      *)
(* without its sign must fit.                                              *)
ReadInt(t, i) ==
    LET e  == FirstOf(t, {EndChar}, i + 1)
        inner == SubSeq(t, i + 1, e - 1)
        ds == Leading(Unsigned(inner))
        n  == NumberOf(ds)
    IN  IF ds = <<>> \/ n > MaxInt THEN Result(Thrown, e + 1)
        ELSE Result(IntVal(IF Contains(inner, Minus) THEN -n ELSE n), e + 1)

(* _read_str: a string that is cut short is filled up with zeros.          *)
Taken_OneLess(t, i, n) == SubSeq(t, i, Min({i + n - 2, Len(t)}))
Taken(t, i, n) == SubSeq(t, i, Min({i + n - 1, Len(t)}))

ReadStr(t, i) ==
    LET c   == FirstOf(t, {Colon}, i)
        len == SubSeq(t, i, c - 1)
        n   == NumberOf(len)
        got == Taken(t, c + 1, n)
    IN  IF len = <<>> \/ \E j \in DOMAIN len : ~IsDigit(len[j]) THEN Result(Thrown, c)
        ELSE Result(StrVal(got \o [k \in 1 .. n - Len(got) |-> 0]), c + 1 + Len(got))

(* The loop of _read_list from position i on, where read are the same      *)
(* loops at later positions: at the end of the text a list has what it     *)
(* has, and a character it does not know is skipped.                       *)
ReadItems(t, read, i) ==
    IF i > Len(t) THEN Result(ListVal(<<>>), i)
    ELSE IF t[i] = EndChar THEN Result(ListVal(<<>>), i + 1)
    ELSE IF ~Starts(t[i]) THEN read[<<"items", i + 1>>]
    ELSE LET r    == read[<<"value", i>>]
             rest == read[<<"items", r.pos>>]
         IN  IF r.val = Thrown THEN r
             ELSE IF rest.val = Thrown THEN rest
             ELSE Result(ListVal(<<r.val>> \o rest.val.val), rest.pos)

(* emplace: the first of two equal keys counts.                            *)
Entered(key, v, d) == [k \in {key} \cup DOMAIN d |-> IF k = key THEN v ELSE d[k]]

(* The loop of _read_dict: a character it does not know is skipped with    *)
(* the key before it.                                                      *)
ReadEntries(t, read, i) ==
    IF i > Len(t) THEN Result(DictVal(<<>>), i)
    ELSE IF t[i] = EndChar THEN Result(DictVal(<<>>), i + 1)
    ELSE LET key  == ReadStr(t, i)
             j    == key.pos
             r    == read[<<"value", j>>]
             rest == read[<<"entries", r.pos>>]
         IN  IF key.val = Thrown THEN key
             ELSE IF j > Len(t) THEN Result(DictVal(<<>>), j)
             ELSE IF ~Starts(t[j]) THEN read[<<"entries", j + 1>>]
             ELSE IF r.val = Thrown THEN r
             ELSE IF rest.val = Thrown THEN rest
             ELSE Result(DictVal(Entered(key.val.val, r.val, rest.val.val)), rest.pos)

(* read_bencode; what is no value reads as the integer 0.                  *)
ReadOne(t, read, i) ==
    IF i > Len(t) \/ ~Starts(t[i]) THEN Result(IntVal(0), i)
    ELSE IF t[i] = IntChar THEN ReadInt(t, i)
    ELSE IF t[i] = ListChar THEN read[<<"items", i + 1>>]
    ELSE IF t[i] = DictChar THEN read[<<"entries", i + 1>>]
    ELSE ReadStr(t, i)

Reader(t) ==
    LET read[c \in {"value", "items", "entries"} \X (1 .. Len(t) + 2)] ==
            CASE c[1] = "value" -> ReadOne(t, read, c[2])
              [] c[1] = "items" -> ReadItems(t, read, c[2])
              [] c[1] = "entries" -> ReadEntries(t, read, c[2])
    IN  read

ReadValue(t) == Reader(t)[<<"value", 1>>]

-----------------------------------------------------------------------------
(* encode_bencode, keys in the order of std::map                           *)
Digits[n \in Nat] == IF n < 10 THEN <<Zero + n>> ELSE Append(Digits[n \div 10], Zero + (n % 10))

EncodeInt(n) ==
    <<IntChar>> \o (IF n < 0 THEN <<Minus>> \o Digits[-n] ELSE Digits[n]) \o <<EndChar>>

EncodeStr(s) == Digits[Len(s)] \o <<Colon>> \o s

(* The first character that differs decides, or the end of the shorter.    *)
Before(s, u) ==
    \E k \in 1 .. Len(u) :
        /\ k <= Len(s) + 1
        /\ \A j \in 1 .. k - 1 : s[j] = u[j]
        /\ k <= Len(s) => s[k] < u[k]

Sorted(K) ==
    CHOOSE s \in [1 .. Cardinality(K) -> K] :
        \A j, k \in 1 .. Cardinality(K) : j < k => Before(s[j], s[k])

(* An entry of a dictionary, and a value, when e writes the values in it.  *)
WriteEntry(e, d, k) == EncodeStr(k) \o e[d[k]]

WriteOne(e, v) ==
    CASE v.kind = "int" -> EncodeInt(v.val)
      [] v.kind = "str" -> EncodeStr(v.val)
      [] v.kind = "list" ->
            <<ListChar>> \o FlattenSeq([j \in DOMAIN v.val |-> e[v.val[j]]]) \o <<EndChar>>
      [] v.kind = "dict" ->
            <<DictChar>> \o FlattenSeq([j \in DOMAIN Sorted(DOMAIN v.val) |->
                               WriteEntry(e, v.val, Sorted(DOMAIN v.val)[j])]) \o <<EndChar>>

Encode[v \in Values] == WriteOne(Encode, v)

-----------------------------------------------------------------------------
(* find_info_hash hashes the text of the value behind the first "4:info".  *)
Occurs(t, u) == {j \in 1 .. Len(t) - Len(u) + 1 : SubSeq(t, j, j + Len(u) - 1) = u}

InfoStart_ColonIncluded(t) == Min(Occurs(t, EncodeStr(Key.info))) + 1
InfoStart(t) == Min(Occurs(t, EncodeStr(Key.info))) + Len(EncodeStr(Key.info))

InfoSlice(t) ==
    LET rest == SubSeq(t, InfoStart(t), Len(t))
    IN  SubSeq(rest, 1, Min({ReadValue(rest).pos - 1, Len(rest)}))

(* Torrent::Torrent: the fields of a .torrent file.  The length of "files" *)
(* counts when both it and "length" are given.                             *)
FilesOf(info) ==
    IF Key.files \notin DOMAIN info THEN <<>>
    ELSE [j \in DOMAIN info[Key.files].val |->
            LET f == info[Key.files].val[j].val
            IN  [length |-> f[Key.length].val,
                 path   |-> [k \in DOMAIN f[Key.path].val |-> f[Key.path].val[k].val]]]

SumOfLengths(files) == FoldLeft(LAMBDA n, f : n + f.length, 0, files)

Chunk_Short(s, n) == [k \in 1 .. Len(s) \div n |-> SubSeq(s, n * k - n + 1, n * k - 1)]
Chunk(s, n) ==
    [k \in 1 .. (Len(s) + n - 1) \div n |-> SubSeq(s, n * k - n + 1, Min({n * k, Len(s)}))]

TorrentOf(t) ==
    LET d      == ReadValue(t).val.val
        info   == d[Key.info].val
        files  == FilesOf(info)
        length == IF Key.length \in DOMAIN info THEN info[Key.length].val ELSE 0
    IN  [announce    |-> d[Key.announce].val,
         pieceLength |-> info[Key.pieceLength].val,
         name        |-> info[Key.name].val,
         files       |-> files,
         total       |-> IF Key.files \in DOMAIN info THEN SumOfLengths(files) ELSE length,
         pieces      |-> Chunk(info[Key.pieces].val, 20)]

(* parse_peers: six bytes a peer, the port in network order.               *)
Port_LittleEndian(hi, lo) == 256 * lo + hi
Port(hi, lo) == 256 * hi + lo

ParsePeers(t) ==
    [k \in 1 .. Len(t) \div 6 |->
        [ip |-> SubSeq(t, 6 * k - 5, 6 * k - 2), port |-> Port(t[6 * k - 1], t[6 * k])]]

(* async_send_start_and_recv_peers: the interval is 30 if there is none,   *)
(* or none that is a number.                                               *)
IntervalOf(d) ==
    IF Key.interval \in DOMAIN d /\ d[Key.interval].kind = "int"
    THEN d[Key.interval].val ELSE 30

Understood(t) ==
    LET v == ReadValue(t).val
    IN  IF v = Thrown THEN Thrown
        ELSE [interval |-> IntervalOf(v.val), peers |-> ParsePeers(v.val[Key.peers].val)]

-----------------------------------------------------------------------------
(* URLs                                                                    *)
SchemeEnd == <<Colon, Slash, Slash>>
Delimiters == {Colon, Slash, 63, 35}   \* : / ? #

(* get_url_hostname, get_url_path and parse_url find the same places.      *)
HostStart_AtScheme(u) == IF Occurs(u, SchemeEnd) = {} THEN 1 ELSE Min(Occurs(u, SchemeEnd))
HostStart(u) == IF Occurs(u, SchemeEnd) = {} THEN 1 ELSE Min(Occurs(u, SchemeEnd)) + 3
HostEnd(u) == FirstOf(u, Delimiters, HostStart(u))

Hostname(u) == SubSeq(u, HostStart(u), HostEnd(u) - 1)
Path(u) == IF HostEnd(u) > Len(u) THEN <<Slash>> ELSE SubSeq(u, HostEnd(u), Len(u))
Protocol(u) ==
    IF Occurs(u, SchemeEnd) = {} THEN <<>> ELSE SubSeq(u, 1, Min(Occurs(u, SchemeEnd)) - 1)

(* urlencode and urldecode.                                                *)
Plain(c) == IsDigit(c) \/ c \in 65 .. 90 \cup 97 .. 122 \cup {Minus, 46, 95, 126}
Hex(n) == IF n < 10 THEN Zero + n ELSE 65 + n - 10
UnHex(c) == IF IsDigit(c) THEN c - Zero ELSE IF c \in 65 .. 70 THEN c - 55 ELSE c - 87

Escaped(c) == IF Plain(c) THEN <<c>> ELSE <<Percent, Hex(c \div 16), Hex(c % 16)>>

EncodeUrl(s) == FlattenSeq([j \in DOMAIN s |-> Escaped(s[j])])

Skipped_Two == 2
Skipped == 3

DecodeUrl(s) ==
    LET from[i \in 1 .. Len(s) + 3] ==
            IF i > Len(s) THEN <<>>
            ELSE IF s[i] # Percent THEN <<s[i]>> \o from[i + 1]
            ELSE <<16 * UnHex(s[i + 1]) + UnHex(s[i + 2])>> \o from[i + Skipped]
    IN  from[1]
=============================================================================
