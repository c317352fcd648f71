---------------------------- MODULE MCAlgorithms ----------------------------
(***************************************************************************)
(* The algorithms of the program against their definitions, each on all of *)
(* a bounded set of inputs: a behaviour picks an algorithm and an input of *)
(* its, and stops.                                                         *)
(***************************************************************************)
EXTENDS Frames, Ciphers, Fmdn, Unwrapping, HttpAnswers, Leftovers, Parsers

MCTags == {2, 8}
MCParses(tag, payload) == tag = 2 \/ Len(payload) # 1

PayloadsTo(n) == {[i \in 1..k |-> 1 + (i % 2)] : k \in 0..n}
StringsTo(n, bytes) == UNION {[1..k -> bytes] : k \in 0..n}

\* A toy cipher on blocks of three bytes of two bits, and a curve of 31 points
\* over the integers modulo 23.
MCXor(a, b) == ((a + b) % 2) + 2 * (((a \div 2) + (b \div 2)) % 2)
MCAES(k, b) == LowBytes(5 * Bits(b) + 7 * k + 3, 3)
MCKeys == 0..30
MCG == [x |-> 0, y |-> 10]
MCHKDF(x) == x
MCGCMOpen(k, iv, s, ad) == Ok(s)

\* The headers of another push of the same sender come first.
MCEarlierHeaders ==
    {<<>>, W!Push(W!GenerateKeys("a", "secret"), "z", "u", 0, 0, None).headers}

MCPushes == [tag : {0, 2, 8}, payload : PayloadsTo(11)]
MCFollowing == {<<>>, <<2, 1>>}
MCVarints == StringsTo(4, {0, 1, 3, 7, 8, 9, 15})
MCGRPCFrames ==
    {<<flag>> \o length \o body :
        flag \in {0, 1}, length \in StringsTo(4, {0, 1, 2, 127}), body \in StringsTo(3, {5, 6})}

MCPayloads == {[i \in 1..n |-> i % 256] : n \in {0, 1, 4, 5, 255, 256, 257, 258, 300}}

MCMACInputs == [key : 1..2, data : StringsTo(7, {0, 1, 3})]
MCEAXInputs ==
    [key : {1}, nonce : {<<1, 2>>, <<0, 2, 3>>}, header : {<<>>, <<3>>},
     plaintext : StringsTo(5, {0, 3})]

PickReport ==
    /\ Picks("report")
    /\ input' \in [key : 1..8, ts : 0..7, other : 0..7, random : {1, 5, 30, 31, 33},
                    message : {<<>>, <<1, 2, 3, 0>>}]

PickNumber ==
    /\ Picks("number")
    /\ input' \in [key : 1..30, ts : 0..3, x : {0}] \cup [key : {1}, ts : {0}, x : 0..30]

PickScalars ==
    /\ Picks("scalars")
    /\ input' \in [s : {1, 3, 7, 30}, r : {1, 2, 5, 16}, other : 1..30]

\* Form bodies of up to three fields; every status, and every way to fail.
MCEscapes ==
    [p \in {"%2F", "%26", "+", "%54oken="} |->
        CASE p = "%2F" -> "/" [] p = "%26" -> "&" [] p = "+" -> " " [] p = "%54oken=" -> "Token="]
Fields ==
    {<<"Token=", "secret">>, <<"Token=", "secret", "%2F", "secret">>, <<"Token=">>,
     <<"%54oken=", "+">>, <<"Auth=", "secret">>, <<"Auth=", "a", "%26", "b">>,
     <<"Email=", "v">>, <<"Email=", "%zz">>, <<"Error=", ";">>, <<"Error=", "v">>}
Separators == {<<"&">>, <<"\n">>, <<" ">>}
FormBodies ==
    {<<>>} \cup Fields
    \cup {f \o s \o g : f, g \in Fields, s \in Separators}
    \cup {f \o s \o g \o t \o h : f, g, h \in Fields, s, t \in Separators}

MCAnswers ==
    [token : {TRUE}, reached : {TRUE}, complete : {TRUE}, framed : {TRUE},
     status : {200, 204, 403}, decodes : {TRUE}, body : FormBodies]
    \cup [token : BOOLEAN, reached : BOOLEAN, complete : BOOLEAN, framed : BOOLEAN,
          status : {200, 206, 301}, decodes : BOOLEAN, body : {<<"Token=", "secret">>}]

MCDevices(shown) ==
    [d \in DOMAIN shown |->
        [name |-> d, android |-> shown[d].android,
         ids |-> [i \in 1..shown[d].ids |-> 10 * d + i],
         phoneIDs |-> [i \in 1..shown[d].phoneIDs |-> 10 * d + 5 + i]]]
MCDeviceLists ==
    {MCDevices(shown) :
        shown \in UNION {[1..n -> [android : BOOLEAN, ids : 0..1, phoneIDs : 0..2]] : n \in 0..3}}

\* Pasted lines: URLs of each form, an ID, a remark, text that is no ID.
MCColumns ==
    LET nothing == [text |-> "", comment |-> FALSE, path |-> "", data |-> "", escaped |-> "", raw |-> FALSE]
    IN  {nothing, [nothing EXCEPT !.text = "# x", !.comment = TRUE],
         [nothing EXCEPT !.text = "My list"], [nothing EXCEPT !.text = "A", !.raw = TRUE],
         [nothing EXCEPT !.text = "url", !.path = "A", !.data = "role"],
         [nothing EXCEPT !.text = "URL", !.data = "B"],
         [nothing EXCEPT !.text = "u%r", !.escaped = "B"]}
Lines ==
    {<<c>> : c \in MCColumns}
    \cup {<<n, v>> : n \in {c \in MCColumns : c.text \in {"", "My list", "A"}}, v \in MCColumns}

MCPasted == UNION {[1..n -> Lines] : n \in 0..3}
MCLinks ==
    LET link == [href : {c \in MCColumns : c.text # "" /\ ~c.comment}, name : {"", "L"}]
    IN  UNION {[1..n -> link] : n \in 0..3}

\* A string of an answer, with what the parsers find in it.
MCString(t) ==
    [kind |-> "string", text |-> t, len |-> IF t = "" THEN 0 ELSE 4, opaque |-> t \in {"id:1", "id:2"},
     commas |-> IF t = "a,b,c,d" THEN 3 ELSE 0, parses |-> t = "1", v |-> 1]

\* Entries of a list, whole or with a part that is missing or of another kind.
Meta(lat) == C!Array(<<C!Null, C!Null, C!Null, C!Null, MCString("addr"),
                       C!Array(<<C!Null, C!Null, C!Number(lat), C!Number(20)>>)>>)
Entry(name, lat, id) ==
    <<C!Null, Meta(lat), name, MCString("note"), C!Null, C!Null, C!Null, C!Array(id), C!Null,
      C!Array(<<C!Number(5), C!Number(7)>>)>>
Entries ==
    {Entry(MCString(n), lat, <<C!Null>>) : n \in {"x", "y", ""}, lat \in {-2, 0, 4, 5, 12}}
        \cup {Entry(MCString("x"), 0, id) :
                id \in {<<MCString("no"), C!Array(<<C!Array(<<MCString("no")>>), MCString("id:1")>>), MCString("id:2")>>,
                       <<C!Array(<<C!Null>>), MCString("id:2")>>}}
        \cup {Entry(MCString("a,b,c,d"), 0, <<>>), Entry(C!Number(1), 0, <<>>), <<C!Null>>,
              SubSeq(Entry(MCString("x"), 0, <<>>), 1, 3),
              [Entry(MCString("y"), 0, <<>>) EXCEPT ![2] = C!Null],
              [Entry(MCString("y"), 0, <<>>) EXCEPT ![10] = C!Array(<<C!Fraction(5), C!Number(7)>>)]}

ListAnswer(entries) ==
    <<C!Null, C!Null, C!Null, C!Null, MCString("name"), C!Null, C!Null, C!Null,
      C!Array([i \in DOMAIN entries |-> C!Array(entries[i])])>>

Listings(n)   == {ListAnswer(entries) : entries \in UNION {[1..k -> Entries] : k \in 0..n}}
MCListAnswers == Listings(3) \cup {<<C!Array(listing)>> : listing \in Listings(1)}

MCFetches ==
    LET shapes == UNION {[1..n -> [id : {"A", "B", "../A"}, status : {200, 206, 404},
                                   json : {<<>>, ListAnswer(<<>>)}]] : n \in 1..3}
    IN  {[specs   |-> [i \in DOMAIN shape |-> [id |-> shape[i].id, name |-> "given"]],
          plain   |-> [i \in DOMAIN shape |-> shape[i].id # "../A"],
          answers |-> [i \in DOMAIN shape |->
                         [reached |-> TRUE, complete |-> TRUE, decodes |-> TRUE, body |-> <<>>,
                          status |-> shape[i].status, json |-> shape[i].json]]] : shape \in shapes}

MCNumerals == [n \in {"0", "7", "8"} |-> CASE n = "0" -> 0 [] n = "7" -> 7 [] n = "8" -> 8]

MCHosts == {<<"a">>, <<"a", "b">>, <<"a", "7">>, <<"", "a">>}
MCNumbers == (-2)..(MaxUint + 2)
MCCookieMaps == {{<<"SID", "v">>}}

\* Answers of the location service.
Profiles(ids) ==
    {C!Array(<<MCString(id), C!Null, MCString("short"), MCString(name)>>) :
        id \in ids, name \in {"", "Unknown", "Ann"}}
        \cup {C!Null, C!Array(<<MCString("only")>>)}
Locations == {C!Null, C!Array(<<C!Null, C!Array(<<C!Null, C!Number(1), MCString("1")>>), C!Number(9), C!Number(3)>>)}
SharedItems ==
    {C!Array(<<basic, info, C!Null, C!Null, C!Null, C!Null, short>>) :
        basic \in Profiles({"", "p"}), info \in Locations, short \in Profiles({"", "q"})}
        \cup {C!Array(<<MCString("p")>>), C!Null}

MCContactAnswers ==
    LET own == C!Array(<<C!Null, CHOOSE l \in Locations : l # C!Null>>)
        answer(items, id, place) ==
            <<C!Array(items), C!Null, C!Null, C!Null, C!Null, C!Null, C!Null, id, C!Null, place>>
    IN  {answer(items, id, place) :
            items \in {<<>>} \cup {<<i>> : i \in SharedItems},
            id \in {C!Null, MCString(""), MCString("me")}, place \in {C!Null, C!Array(<<C!Null>>), own}}
        \cup {answer(<<i, j>>, C!Null, own) : i, j \in SharedItems}

MCScalars ==
    {C!Null, C!Fraction(5)} \cup {C!Number(n) : n \in {-2, 0, 1, 3, 4, 5, 7, 9, 12, 20}}
    \cup {MCString(t) : t \in {"", "x", "y", "a,b,c,d", "addr", "note", "name", "no", "id:1", "id:2",
                              "1", "p", "q", "me", "only", "short", "Ann", "Unknown"}}

MCTimes == [seconds : 0..(2 * Milliseconds), rest : {0, 1, 499, 500, 999}]
MCBodies == StringsTo(3, {"[", "\n", "\"", C!Prefix})

Next ==
    \/ PickFramed \/ PickCipher \/ PickReport \/ PickNumber \/ PickScalars
    \/ PickSealed \/ PickResponse \/ PickLeftover \/ PickParsed

Spec == NothingPicked /\ [][Next]_<<subject, input>>

\* A report opens for its tracker, and for it alone.
ReportsDecrypt ==
    /\ subject = "report" =>
          ReportOpens(input.key, input.ts, input.other, input.random, input.message)
    /\ subject = "number" => IdentifiersAreOnCurve(input.key, input.ts, input.x)
    /\ subject = "scalars" => OnlyTheTracker(input.s, input.r, input.other)

=============================================================================
