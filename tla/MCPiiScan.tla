------------------------------ MODULE MCPiiScan ------------------------------
(* Instances of PiiScan.                                                     *)
EXTENDS PiiScan

Run == <<"email", "card", "phone">>
Priorities == [card |-> 0, email |-> 6, phone |-> 7]

Hit(type, from, to, ok) == [type |-> type, from |-> from, to |-> to, ok |-> ok]
Card == Hit("card", 0, 3, TRUE)
Email == Hit("email", 4, 6, TRUE)

\* All texts of up to three hits of four characters, and texts of five hits.
Spans(n) == {s \in (0..(n - 1)) \X (1..n) : s[1] < s[2]}
Hits == {Hit(t, s[1], s[2], ok) : t \in {"card", "phone"}, s \in Spans(4), ok \in BOOLEAN}
          \cup {Hit("email", s[1], s[2], TRUE) : s \in Spans(4)}
Greedy(text) == \A a, b \in text : a.type = b.type /\ a.from = b.from => a = b
Small == {t \in {{a, b, c} : a, b, c \in Hits} : Greedy(t)}
Cards(n) == {Hit("card", i, i + 2, TRUE) : i \in n}
Large == {Cards(c) \cup {Hit("email", s[1], s[2], TRUE), Hit("email", 7, 8, TRUE)} :
            c \in {{0, 2, 4}, {1, 4, 6}, {0, 3}, {2, 5}}, s \in Spans(7)}
Texts == {{}} \cup Small \cup Large

\* A card, an address that begins at its end, and a card in that address.
Stacked == {{Hit("card", 0, 3, TRUE), Hit("email", 2, 8, TRUE), Hit("card", 4, 7, TRUE)}}

\* An address around two cards, and two cards after it.
Packed == {{Hit("email", 0, 4, TRUE)} \cup {Hit("card", 2 * i, 2 * i + 2, TRUE) : i \in 0..3}}

File(kind, text, rest) == [kind |-> kind, text |-> text, rest |-> rest, to |-> None]
Plain == File("text", {}, None)
Dirty == File("text", {Card}, None)
Twice == File("text", {Card, Email}, None)
Stuffed == File("text", CHOOSE t \in Packed : TRUE, None)
Long == File("text", {}, {Card})
Binary == File("binary", {}, None)
Fifo == File("special", {}, None)
Gone == File("none", {}, None)
LinkTo(f) == [kind |-> "link", text |-> {}, rest |-> None, to |-> f]

Two == <<<<"a", "b">>, <<"c.png">>>>
With(a, b, c) == [n \in {"a", "b", "c.png", "out"} |->
                    IF n = "a" THEN a ELSE IF n = "b" THEN b ELSE IF n = "c.png" THEN c ELSE Dirty]
Systems == {With(a, b, c) : a \in {Plain, Twice, Long, Fifo}, b \in {Plain, Dirty, Binary,
              LinkTo("out"), LinkTo("a")}, c \in {Plain, Twice}}
           \cup {With(Stuffed, b, Plain) : b \in {Plain, Dirty}}
Becomes == {Dirty, Gone, LinkTo("out")}

Call(paths, types, cap, byGate) == [paths |-> paths, types |-> types, cap |-> cap, byGate |-> byGate]
Asked == {Call(<<"root">>, {"card", "email", "phone"}, None, TRUE),
          Call(<<"root">>, {"card", "email", "phone"}, 9, TRUE),
          Call(<<"b", "a">>, {"card", "email", "phone"}, 0, TRUE),
          Call(<<"root">>, {"email"}, 2, FALSE),
          Call(<<"c.png">>, {"card"}, None, FALSE),
          Call(<<"root">>, {"card"}, 9, FALSE)}
NoCalls == {}
Nothing == {With(Plain, Plain, Plain)}
=============================================================================
