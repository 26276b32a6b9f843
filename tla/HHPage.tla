-------------------------------- MODULE HHPage --------------------------------
(***************************************************************************)
(* What clients/hh.py reads from the page of a vacancy when the API of     *)
(* hh.ru is of no use: the events of the HTML parser, the elements it      *)
(* captures by their data-qa, the JSON-LD scripts, and the candidate that  *)
(* is complete.                                                            *)
(*                                                                         *)
(* A page is the sequence of the parser's events.  A text is the sequence  *)
(* of its words, empty when there is none, so joining and normalising      *)
(* texts is concatenation.  The word "archived" stands for the notice that *)
(* a vacancy is archived.  A link is None, the id of the employer it leads *)
(* to, "elsewhere", or "malformed" when it cannot be made absolute; making *)
(* the others absolute does not change where they lead.                    *)
(***************************************************************************)
EXTENDS Integers, Sequences, FiniteSets, SequencesExt

CONSTANTS
  Employer,        \* ids of employers at hh.ru
  JSON,            \* the values of JSON-LD scripts, and the values within them
  RecursionLimit,  \* how deep a value may be nested for json.loads to read it
  None

Text == Seq(STRING)
Link == Employer \cup {None, "elsewhere", "malformed"}

DATA_QA_FIELDS == {"title", "company", "description"}

\* The elements of s at the indices in I, in order.
Pick(s, I) ==
  LET picked[n \in 0..Len(s)] ==
        IF n = 0 THEN <<>>
        ELSE IF n \in I THEN Append(picked[n - 1], s[n]) ELSE picked[n - 1]
  IN  picked[Len(s)]

-----------------------------------------------------------------------------
(* Events of a page, and the JSON of its scripts. *)

Event == [do : {"start", "end", "data"}, tag : STRING \cup {None}, qa : STRING \cup {None},
          href : Link, text : Text, json : JSON \cup {None}]

\* A start tag: its name, data-qa and href.
Start(tag, qa, href) == [do |-> "start", tag |-> tag, qa |-> qa, href |-> href, text |-> <<>>,
                         json |-> None]
End(tag)   == [Start(tag, None, None) EXCEPT !.do = "end"]
Data(text) == [Start(None, None, None) EXCEPT !.do = "data", !.text = text]
Meta(text) == [Start("meta", None, None) EXCEPT !.text = text]  \* og:title
\* A script of type application/ld+json with this value, or one that is not JSON.
Script(json) == <<[Start("script", None, None) EXCEPT !.json = json], End("script")>>

\* How deep the values of a list are nested, itself included.
Nesting(items) ==
  IF items = <<>> THEN 0 ELSE 1 + Max({ items[i].depth : i \in DOMAIN items })

\* A dictionary: whether it is a JobPosting, what it says, and its @graph.
Dict(posting, title, name, url, description, graph) ==
  [kind |-> "dict", posting |-> posting, title |-> title, name |-> name, url |-> url,
   description |-> description, graph |-> graph, depth |-> Nesting(graph)]
List(items) == [kind |-> "list", graph |-> items, depth |-> Nesting(items)]
NotJSON     == [kind |-> "invalid", graph |-> <<>>, depth |-> 0]

Value == [kind : {"dict"}, posting : BOOLEAN, title : Text, name : Text, url : Link,
          description : Text, graph : Seq(JSON), depth : Nat]
    \cup [kind : {"list", "invalid"}, graph : Seq(JSON), depth : Nat]

ParsedHHHtmlVacancy == [title : Text, employer_hh_id : Employer, employer_name : Text,
                        description : Text, archived : BOOLEAN]

\* JSON is made of values nested to a finite depth.
HHPageAssumption ==
  /\ None \notin Employer /\ None \notin ParsedHHHtmlVacancy /\ "malformed" \notin Employer
  /\ RecursionLimit \in Nat
  /\ JSON \subseteq Value
  /\ \A v \in JSON : \A i \in DOMAIN v.graph : v.graph[i].depth < v.depth

ASSUME HHPageAssumption

-----------------------------------------------------------------------------
(* _HHVacancyHTMLParser. *)

NewParser ==
  [texts |-> [k \in DATA_QA_FIELDS |-> <<>>], hrefs |-> [k \in DATA_QA_FIELDS |-> <<>>],
   script |-> None, scripts |-> <<>>, og_title |-> <<>>, captures |-> <<>>]

_HtmlCapture(event) ==
  [key |-> event.qa, depth |-> 1, text |-> <<>>, href |-> event.href]

\* Mutant: a tag inside an element does not deepen its capture.
Deeper_Flat(c, event) == [c EXCEPT !.href = IF @ = None THEN event.href ELSE @]

\* A start tag inside an element deepens its capture, which takes its first link.
Deeper(c, event) ==
  [c EXCEPT !.depth = @ + 1, !.href = IF @ = None THEN event.href ELSE @]

\* Every open capture is one deeper, also after a tag that has no end tag.
handle_starttag(p, event) ==
  [p EXCEPT
    !.og_title = IF event.tag = "meta" /\ event.text # <<>> THEN event.text ELSE @,
    !.script   = IF event.tag = "script" /\ event.json # None THEN event.json ELSE @,
    !.captures = [i \in DOMAIN @ |-> Deeper(@[i], event)]
                 \o (IF event.qa \in DATA_QA_FIELDS THEN <<_HtmlCapture(event)>> ELSE <<>>)]

\* A script is over; the text and the link of a capture that is over are kept,
\* if it has any.
handle_endtag(p, event) ==
  LET closes  == event.tag = "script" /\ p.script # None
      rest    == [i \in DOMAIN p.captures |-> [p.captures[i] EXCEPT !.depth = @ - 1]]
      text    == [i \in DOMAIN rest |-> rest[i].text]
      href    == [i \in DOMAIN rest |-> rest[i].href]
      over(k) == { i \in DOMAIN rest : rest[i].depth = 0 /\ rest[i].key = k }
  IN  [p EXCEPT
        !.script   = IF closes THEN None ELSE @,
        !.scripts  = IF closes THEN Append(@, p.script) ELSE @,
        !.captures = Pick(rest, { i \in DOMAIN rest : rest[i].depth # 0 }),
        !.texts    = [k \in DATA_QA_FIELDS |->
                        @[k] \o Pick(text, { i \in over(k) : text[i] # <<>> })],
        !.hrefs    = [k \in DATA_QA_FIELDS |->
                        @[k] \o Pick(href, { i \in over(k) : href[i] # None })]]

\* Every open capture takes the text.
Longer(c, event) == [c EXCEPT !.text = @ \o event.text]

handle_data(p, event) ==
  [p EXCEPT !.captures = [i \in DOMAIN @ |-> Longer(@[i], event)]]

handle(p, event) ==
  CASE event.do = "start" -> handle_starttag(p, event)
    [] event.do = "end"   -> handle_endtag(p, event)
    [] event.do = "data"  -> handle_data(p, event)

\* The parser after the last event of a page.
feed(page) ==
  LET fed[n \in 0..Len(page)] == IF n = 0 THEN NewParser ELSE handle(fed[n - 1], page[n])
  IN  fed[Len(page)]

-----------------------------------------------------------------------------
(* Candidates. *)

is_archived_html_text(text) == "archived" \in ToSet(text)

employer_id_from_url(url) == IF url \in Employer THEN url ELSE None

Or(a, b, missing) == IF a = missing THEN b ELSE a

\* The first of the values, or missing.
First(values, missing) == IF values = <<>> THEN missing ELSE values[1]

candidate_from_data_qa(p) ==
  [title         |-> Or(First(p.texts["title"], <<>>), p.og_title, <<>>),
   employer_name |-> First(p.texts["company"], <<>>),
   employer_url  |-> First(p.hrefs["company"], None),
   description   |-> First(p.texts["description"], <<>>),
   archived      |-> \E k \in DATA_QA_FIELDS :
                       \E i \in DOMAIN p.texts[k] : is_archived_html_text(p.texts[k][i])]

\* The dictionaries of a value in the order they are come upon.
iter_json_dicts[value \in JSON] ==
  LET below == FlattenSeq([i \in DOMAIN value.graph |-> iter_json_dicts[value.graph[i]]]) IN
  IF value.kind = "dict" THEN <<value>> \o below ELSE below

candidates_from_json_ld(p) ==
  LET dicts    == FlattenSeq([i \in DOMAIN p.scripts |-> iter_json_dicts[p.scripts[i]]])
      postings == Pick(dicts, { i \in DOMAIN dicts : dicts[i].posting })
      candidate(d) == [title |-> d.title, employer_name |-> d.name, employer_url |-> d.url,
                       description |-> d.description, archived |-> FALSE]
  IN  [i \in DOMAIN postings |-> candidate(postings[i])]

\* Mutant: whether the vacancy is archived is taken from the JSON-LD.
merge_candidates_Primary(primary, fallback) ==
  [title         |-> Or(primary.title, fallback.title, <<>>),
   employer_name |-> Or(primary.employer_name, fallback.employer_name, <<>>),
   employer_url  |-> Or(primary.employer_url, fallback.employer_url, None),
   description   |-> Or(primary.description, fallback.description, <<>>),
   archived      |-> primary.archived]

merge_candidates(primary, fallback) ==
  [title         |-> Or(primary.title, fallback.title, <<>>),
   employer_name |-> Or(primary.employer_name, fallback.employer_name, <<>>),
   employer_url  |-> Or(primary.employer_url, fallback.employer_url, None),
   description   |-> Or(primary.description, fallback.description, <<>>),
   archived      |-> primary.archived \/ fallback.archived]

\* What a candidate says of the vacancy, or None if it does not say enough.
complete_html_candidate(candidate) ==
  LET id == employer_id_from_url(candidate.employer_url) IN
  IF candidate.title = <<>> \/ candidate.employer_name = <<>> \/ id = None THEN None
  ELSE [title |-> candidate.title, employer_hh_id |-> id,
        employer_name |-> candidate.employer_name, description |-> candidate.description,
        archived |-> candidate.archived \/ is_archived_html_text(candidate.title)]

\* What is raised and caught nowhere: RecursionError by json.loads, ValueError by
\* absolute_url for the link of the elements and of any JobPosting, tried or not.
TooDeep(value) == value.depth > RecursionLimit

raises(p) ==
  \/ candidate_from_data_qa(p).employer_url = "malformed"
  \/ \E value \in ToSet(p.scripts) : TooDeep(value)
  \/ \E c \in ToSet(candidates_from_json_ld(p)) : c.employer_url = "malformed"

\* Mutant: the page is given up when its first JobPosting is not complete.
parse_hh_vacancy_html_FirstOnly(page) ==
  LET p       == feed(page)
      data_qa == candidate_from_data_qa(p)
      json_ld == candidates_from_json_ld(p)
      all     == [i \in DOMAIN json_ld |-> merge_candidates(json_ld[i], data_qa)] \o <<data_qa>>
  IN  complete_html_candidate(all[1])

\* The first complete one of the JSON-LD candidates, each filled up from the
\* elements, and the elements alone; or None.  For a page on which nothing raises.
parse_hh_vacancy_html(page) ==
  LET p       == feed(page)
      data_qa == candidate_from_data_qa(p)
      json_ld == candidates_from_json_ld(p)
      all     == [i \in DOMAIN json_ld |-> merge_candidates(json_ld[i], data_qa)] \o <<data_qa>>
      parsed  == [i \in DOMAIN all |-> complete_html_candidate(all[i])]
  IN  First(Pick(parsed, { i \in DOMAIN parsed : parsed[i] # None }), None)

-----------------------------------------------------------------------------
(* The elements of a page, as HTML has them. *)

\* Tags without an end tag.  One that is written <br/> is a start and an end.
VOID_TAGS == {"area", "base", "br", "col", "embed", "hr", "img", "input", "link", "meta",
              "source", "track", "wbr"}
Unclosed(page, k) ==
  /\ page[k].do = "start" /\ page[k].tag \in VOID_TAGS
  /\ k = Len(page) \/ page[k + 1] # End(page[k].tag)

\* How many elements are opened and not closed between two events of a page.
Balance(page, i, j) ==
  Cardinality({ k \in i..j : page[k].do = "start" /\ ~Unclosed(page, k) })
    - Cardinality({ k \in i..j : page[k].do = "end" })

\* The elements with this data-qa, each by where it starts, and where it ends.
Elements(page, key) ==
  { i \in DOMAIN page : /\ page[i].do = "start" /\ page[i].qa = key
                        /\ \E j \in i..Len(page) : Balance(page, i, j) = 0 }
Ends(page, i) == Min({ j \in i..Len(page) : Balance(page, i, j) = 0 })

\* The text between two events, and the text and the links of an element.
Said(page, i, j) ==
  LET said == [k \in DOMAIN page |-> IF page[k].do = "data" THEN page[k].text ELSE <<>>]
  IN  FlattenSeq(SubSeq(said, i, j))
TextOf(page, i) == Said(page, i, Ends(page, i))
LinksOf(page, i) ==
  { page[j].href : j \in { k \in i..Ends(page, i) : page[k].do = "start" } } \ {None}

\* No tag is left unclosed inside an element that is captured.
Regular(page) ==
  \A key \in DATA_QA_FIELDS : \A i \in Elements(page, key) :
    \A j \in i..Ends(page, i) : ~Unclosed(page, j)

\* As many tags end as start, the unclosed ones too, somewhere behind the tag at i:
\* where one is unclosed in its element, only if an end tag behind it is left over.
CaptureEnds(page, i) ==
  \E j \in i..Len(page) :
    Cardinality({ k \in i..j : page[k].do = "start" })
      = Cardinality({ k \in i..j : page[k].do = "end" })

\* A script of the page is nested too deeply, or a JobPosting in it has a link that
\* is malformed.
ScriptRaises(page) ==
  \E k \in DOMAIN page :
    /\ page[k].json # None
    /\ \/ TooDeep(page[k].json)
       \/ \E d \in ToSet(iter_json_dicts[page[k].json]) : d.posting /\ d.url = "malformed"

=============================================================================
