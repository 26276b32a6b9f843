------------------------------ MODULE MCHHClient ------------------------------
(* Pages made of blocks, for TLC. *)
EXTENDS HHClient

CONSTANTS e1, e2

Element(qa, href, inner) == <<Start("div", qa, href)>> \o inner \o <<End("div")>>
Br    == <<Start("br", None, None)>>
BrSlash == <<Start("br", None, None), End("br")>>
Word(w) == <<Data(<<w>>)>>

\* Titles: plain, split by an inner element, blank before a second one, archived, missing.
Titles ==
  { Element("title", None, Word("dev")),
    Element("title", None, Element(None, None, Word("dev")) \o Word("senior")),
    Element("title", None, <<>>) \o Element("title", None, Word("dev")),
    Element("title", None, Word("dev") \o Br) \o Element(None, None, Word("rest")),
    <<>> }

\* Companies: a link, a link inside, two companies, one inside the other, a link elsewhere.
Companies ==
  { Element("company", e1, Word("acme")),
    Element("company", None, Element(None, e2, Word("acme"))),
    Element("company", e1, Element("company", e2, Word("inner")) \o Word("outer")),
    Element("company", "elsewhere", Word("acme")),
    Element("company", "malformed", Word("acme")),
    Element("company", None, Word("acme") \o Br) }

\* Descriptions: with the notice, plain or behind a <br/> or a <br>, one that goes on
\* behind a <br>, one that holds another field, none.
Descriptions ==
  { Element("description", None, Word("archived")),
    Element("description", None, BrSlash \o Word("archived")),
    Element("description", None, Br \o Word("archived")),
    Element("description", None, Word("text") \o Br \o Word("more")),
    Element("description", None, Word("text") \o Element("title", None, Word("dev"))),
    <<>> }

Posting(title, name, url) == Dict(TRUE, title, name, url, <<"text">>, <<>>)

\* Values of scripts: invalid, complete, a list of two that are not, one in a @graph,
\* one behind which a link is malformed, and a list nested too deeply.
Partial   == {Posting(<<>>, <<"acme">>, "elsewhere"), Posting(<<"dev">>, <<>>, None),
              Posting(<<"dev">>, <<>>, "malformed")}
Postings  == { Posting(<<"dev">>, <<"acme">>, url) : url \in {e1, e2} }
Lists     == { List(<<p, q>>) : p \in Partial \cup Postings, q \in Partial \cup Postings }
Graphs    == { Dict(FALSE, <<>>, <<>>, None, <<>>, <<p>>) : p \in Postings }
Nested    == { List(<<g>>) : g \in Graphs }
MCJSON    == {NotJSON} \cup Partial \cup Postings \cup Lists \cup Graphs \cup Nested

Scripts ==
  { <<>>,
    Script(NotJSON),
    Script(Posting(<<"dev">>, <<"acme">>, e1)),
    Script(List(<<Posting(<<>>, <<"acme">>, "elsewhere"), Posting(<<"dev">>, <<>>, None)>>)),
    Script(Dict(FALSE, <<>>, <<>>, None, <<>>, <<Posting(<<"dev">>, <<"acme">>, e2)>>)),
    Script(List(<<Posting(<<"dev">>, <<"acme">>, e1), Posting(<<"dev">>, <<>>, "malformed")>>)),
    Script(List(<<Dict(FALSE, <<>>, <<>>, None, <<>>, <<Posting(<<"dev">>, <<"acme">>, e2)>>)>>)) }

\* Fields behind a script, and within an element that ends behind them.
MCPage == { <<Meta(<<"og">>)>> \o s \o t \o c \o d :
              s \in Scripts, t \in Titles, c \in Companies, d \in Descriptions }
        \cup { Element(None, None, d \o c \o t) :
                 t \in Titles, c \in Companies, d \in Descriptions }

=============================================================================
