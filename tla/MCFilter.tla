------------------------------ MODULE MCFilter ------------------------------
(* Instances of Filter for TLC: documents of up to three levels. *)
EXTENDS Filter, TLC

MCName == {"a", "b"}
MCKey == {"a", "b", "a.b"}
MCAtom == {"x"}

MCSplit == ("a" :> <<"a">>) @@ ("b" :> <<"b">>) @@ ("a.b" :> <<"a", "b">>)

Objects(keys, vals) == {Object(f) : f \in UNION {[k -> vals] : k \in SUBSET keys}}
Arrays(vals, n) == {Array(s) : s \in UNION {[1..i -> vals] : i \in 0..n}}

Atoms  == {Value("x"), Null}
Level1 == Atoms \union Objects({"a", "b"}, Atoms) \union Arrays(Atoms, 2)
Level2 == Level1 \union Objects({"a", "b"}, Level1) \union Objects({"a.b"}, Level1)
                 \union Arrays(Level1, 2)
MCDocs == Level2 \union Arrays(Level2, 1) \union Objects({"a"}, Level2)

Text == {<<"a">>, <<"a", ".", "b">>, <<"*">>, <<"*", ".", "a">>, <<"b", ".", "*">>,
         <<"[]", ".", "a">>, <<"a", "[]", ".", "b">>, <<"a", "[]">>, <<>>}
Lists(texts) == {{f, g} : f \in texts, g \in texts} \union {{}}

MCFilters == [type: {"include_fields", "exclude_fields"}, fields: Lists(Text)]
             \union [type: {"other"}, fields: {{<<"a">>}}]
\* Fields as in the examples of the documentation, and one that ends in "[]".
DocTexts == {<<"a">>, <<"a", ".", "b">>, <<"[]", ".", "a">>, <<"a", "[]">>}
MCDocFilters == [type: {"exclude_fields"}, fields: {{f} : f \in DocTexts}]
MCDocDocs == Atoms \union Objects({"a", "b"}, Level1)
                   \union Arrays(Atoms \union Objects({"a", "b"}, Atoms), 2)
                   \union Objects({"a"}, Arrays(Objects({"a", "b"}, Atoms), 1))
=============================================================================
