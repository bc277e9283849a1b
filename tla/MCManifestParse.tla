----------------------------- MODULE MCManifestParse -----------------------------
(* Manifests of one resource with up to two fields out of the ordinary, of  *)
(* two resources with one each, with every combination of defaults above a  *)
(* resource with one, and with a fault at the top.  "one" and "more" are     *)
(* numerals for 1 and for U32 + 1, "de" and "DE" tags of one language.      *)
EXTENDS ManifestParse

MCTexts == {"absent", "list", "bad", "good", "none", "neutral", "mapping", "other",
            "logo", "icon", "one", "more", "two", "de", "DE", "app", "a", "b"}
MCNumber ==
    [n \in Numbered |-> [v \in Held |->
        CASE v = "one" -> 1
          [] v = "more" -> U32 + 1
          [] v = "two" -> 2
          [] v \in {"de", "DE"} -> 7
          [] v \in {NULL, "neutral"} -> 0
          [] OTHER -> IF n = "extension" THEN 5 ELSE 11]]

Ordinary ==
    [scalars |-> [f \in Fields |-> IF f = "node" THEN "mapping"
                                   ELSE IF f = "name" THEN "logo"
                                   ELSE IF f = "file" THEN "good" ELSE "absent"],
     metadata |-> <<>>]

Values ==
    [node |-> {"other"}, name |-> {"absent", "list", "icon"},
     file |-> {"absent", "bad", "list"}, type |-> {"good", "more", "bad", "list"},
     id |-> {"one", "more", "bad", "list"}, language |-> {"de", "list"},
     compression |-> {"none", "bad", "list"},
     encryption |-> {"none", "bad", "list"}, flags |-> {"good", "bad", "list"}]

WithScalar(r) ==
    {[r EXCEPT !.scalars[fv[1]] = fv[2]] :
        fv \in UNION {{f} \X Values[f] : f \in Fields}}
WithKeys(r) ==
    {[r EXCEPT !.metadata = keys] :
        keys \in {<<"a", "b">>, <<"a", "a">>, <<"a", "list">>}}
With(r) == WithScalar(r) \cup WithKeys(r) \cup {r}

Others == {[Ordinary EXCEPT !.scalars["name"] = "icon"],
           [Ordinary EXCEPT !.scalars["name"] = "icon",
                            !.scalars["language"] = "de"]}
Tongues == {[Ordinary EXCEPT !.scalars["language"] = l] :
               l \in {"absent", "neutral", "de", "DE", "list"}}
Lists ==
    {<<>>} \cup {<<r>> : r \in UNION {With(s) : s \in With(Ordinary)}}
    \cup {<<r, s>> : r \in With(Ordinary), s \in UNION {With(o) : o \in Others}}
    \cup {<<r, s>> : r, s \in Tongues}
    \cup {<<r, o, s>> : r, s \in {Ordinary, CHOOSE o \in Others : TRUE},
                        o \in With(Ordinary)}

Top == [root |-> "mapping", version |-> "one", module |-> "absent",
        defaults |-> [f \in DefaultFields |-> "absent"], listed |-> TRUE,
        resources |-> <<Ordinary>>]

AllDefaults ==
    {[language |-> l, compression |-> c, encryption |-> e] :
        l \in {"absent", "de", "list"}, c, e \in {"absent", "none", "bad", "list"}}

MCDocuments ==
    {[Top EXCEPT !.resources = list] : list \in Lists}
    \cup {[Top EXCEPT !.defaults = d, !.resources = <<r>>] :
            d \in AllDefaults, r \in With(Ordinary)}
    \cup {[Top EXCEPT !.root = r, !.version = v, !.listed = l, !.module = m] :
            r \in {"unreadable", "other", "mapping"}, v \in {"one", "more", "absent", "list", "bad", "two"},
            l \in BOOLEAN, m \in {"absent", "list", "app"}}

=============================================================================
