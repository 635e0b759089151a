--------------------------- MODULE MCJsonTokener ---------------------------
(* JsonTokener with every text of up to three units; objects of up to four *)
(* fields out of three names, two of which collide, in tables of three     *)
(* slots, and objects and arrays with values of every kind: whole, cut at  *)
(* every unit, with one unit replaced, with a comment inside.              *)
EXTENDS JsonGrammar

CONSTANTS k1, k2, k3, k4, num

Name == {k1, k2, k3}
MCKey == Name \cup {k4}
MCHash == [k \in MCKey |-> IF k \in {k3, k4} THEN 0 ELSE 5]
MCAtom == {num}

Field(k, v) == <<k, ":">> \o v

Values == {<<num>>, <<"null">>, <<"[", "]">>, <<"{", "}">>,
           <<"[", k1, ",", "nl", "null", "]">>, <<"{", k1, ":", num, "}">>}

Wide(names) ==      \* {"k1": "k1", ...}
  <<"{">> \o FlattenSeq([i \in DOMAIN names |->
                           (IF i = 1 THEN << >> ELSE <<",">>)
                           \o Field(names[i], <<names[i]>>)]) \o <<"}">>

Deep(v, w) == <<"{">> \o Field(k1, v) \o <<",">> \o Field(k1, w) \o <<"}">>

Wholes == {Wide(n) : n \in BoundedSeq(Name, 3)
                            \cup {<<k1, k2, k3, k1>>, <<k3, k2, k1, k2>>}}
          \cup {Deep(v, w) : v, w \in Values}
          \cup {<<"[">> \o v \o <<",">> \o w \o <<"]">> : v, w \in Values}

Cuts == UNION {{SubSeq(t, 1, n) : n \in 0 .. Len(t)} : t \in Wholes}

Wrong == {[t EXCEPT ![n] = x] :
            t \in {Deep(v, <<num>>) : v \in Values}, n \in 2 .. 6,
            x \in {"}", "]", ",", ":", "word", "open", "slash", num}}

Tails == {t \o <<"slash", "star", num, "star", "slash">> \o u :
            t \in {<<"[">>, <<"[", num>>, <<num>>, <<"{", k1>>},
            u \in {<<"]">>, << >>, <<"[">>}}

MCTexts == BoundedSeq(Char, 3) \cup Cuts \cup Wrong \cup Tails
=============================================================================
