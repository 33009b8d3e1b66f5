---------------------------- MODULE MCQueryPages ----------------------------
EXTENDS QueryPages
CONSTANTS p1, p2

Asked(op, text, filter) == [op |-> op, text |-> text, filter |-> filter]

MCQueries == {Asked("search", "a", "none"), Asked("search", "a", "kind"),
              Asked("find", "a", "kind"), Asked("find", "a", "ast"),
              Asked("entry", "a", "none"), Asked("entry", "b", "none")}

\* Results shorter and longer than a page, the fetch and the cap of a find.
MCSize == [p \in {p1, p2} |-> [q \in MCQueries |->
              CASE p = p1 -> (IF q.text = "a" THEN 7 ELSE 2)
                [] OTHER -> (IF q.text = "a" THEN 3 ELSE 0)]]

\* In the first product the units show part of the matches, in the second all of them.
MCCovered == [p \in {p1, p2} |-> [q \in MCQueries |-> p = p2]]
=============================================================================
