------------------------------ MODULE MCFormats ------------------------------
(***************************************************************************)
(* Bounded inputs for the readers.                                         *)
(***************************************************************************)
EXTENDS Readers

(* One letter for each key; "n" is both a key and a text within values.    *)
MCKey == [info |-> <<110>>, interval |-> <<118>>, peers |-> <<112>>, announce |-> <<97>>,
          pieceLength |-> <<98>>, name |-> <<109>>, length |-> <<104>>, files |-> <<102>>,
          path |-> <<113>>, pieces |-> <<115>>]

Texts == {<<>>, <<EndChar>>, <<Zero, Colon>>, <<IntChar, Minus>>, <<49, Colon, 110>>, <<10, 0, 255>>}
Ints == {IntVal(n) : n \in {-MaxInt - 1, -MaxInt, -10, -1, 0, 1, 7, 10, MaxInt}}
Leaves == Ints \cup {StrVal(s) : s \in Texts}

Pair(s, v, u, w) == [k \in {s, u} |-> IF k = s THEN v ELSE w]

Dicts(V) == {DictVal(<<>>)}
            \cup {DictVal([k \in {<<49>>} |-> v]) : v \in V}
            \cup {DictVal(Pair(s, v, <<50>>, w)) : s \in {<<>>, <<50, 48>>}, v, w \in V}
Nested == {ListVal(<<>>)} \cup {ListVal(<<v, w>>) : v, w \in Leaves} \cup Dicts(Leaves)
Plainly == Leaves \cup Nested \cup {ListVal(<<v>>) : v \in Nested}
           \cup {DictVal([k \in {<<>>} |-> v]) : v \in Nested}

MCRests == {<<>>, <<EndChar>>, <<49, Colon>>}

Hashes == {[k \in 1 .. 20 |-> k], [k \in 1 .. 40 |-> k % 3]}
Paths == {<<>>, <<<<110>>>>, <<<<49, Colon, 110>>, <<Slash>>>>}
FileLists == {<<>>} \cup {<<[length |-> n, path |-> p]>> : n \in {0, 5}, p \in Paths}
             \cup {<<[length |-> 7, path |-> p], [length |-> 8, path |-> q]>> : p, q \in Paths}

(* An announce URL that is, or has, the key of the info dictionary.        *)
MCTorrents ==
    [announce : {<<97>>, <<110>>, <<49, Colon, 110>>}, pieceLength : {1, 16}, name : {<<>>, <<110>>},
     length : {9}, files : FileLists, pieces : Hashes]

PeersLists == {<<>>} \cup {<<[ip |-> <<10, 0, 0, 1>>, port |-> p]>> : p \in {0, 1, 255, 256, 6881, 65535}}
              \cup {<<[ip |-> <<1, 2, 3, 4>>, port |-> 258], [ip |-> <<EndChar, 58, 100, 255>>, port |-> 512]>>}
Intervals == {<<>>} \cup {<<v>> : v \in {IntVal(0), IntVal(60), IntVal(-MaxInt - 1), StrVal(<<54>>)}}
MCAnswers == [interval : Intervals, peers : PeersLists]

(* With what they are made of; a path in a .torrent file is nested deepest.*)
Compound(V) == {v \in V : v.kind \in {"list", "dict"}}
WithParts(V) == V \cup UNION {{v.val[x] : x \in DOMAIN v.val} : v \in Compound(V)}
Written == Plainly \cup {TorrentVal(m) : m \in MCTorrents} \cup {AnswerVal(a) : a \in MCAnswers}
WrittenAndParts == WithParts(WithParts(WithParts(WithParts(WithParts(Written)))))
MCValues == WrittenAndParts

MCDepth[v \in MCValues] ==
    IF v.kind \in {"int", "str"} \/ DOMAIN v.val = {} THEN 0
    ELSE 1 + Max({MCDepth[v.val[x]] : x \in DOMAIN v.val})

(* A scheme or none, a host, and a path or none.                           *)
Schemes == {<<>>, <<104>>, <<104, 115>>}
Hosts == {<<>>, <<116>>, <<116, 46, 104>>}
UrlPaths == {<<>>} \cup {<<c>> \o s : c \in Delimiters, s \in {<<>>, <<97>>, <<Colon, 56>>, SchemeEnd}}
MCUrls == {Url(sch, h, p) : sch \in Schemes, h \in Hosts, p \in UrlPaths}

MCRaws == UNION {[1 .. n -> {0, Slash, Percent, 48, 65, 97, 126, 127, 175, 255}] : n \in 0 .. 3}
==============================================================================
