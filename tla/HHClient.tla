------------------------------- MODULE HHClient -------------------------------
(***************************************************************************)
(* The client of hh.ru a worker run makes for itself: it asks the API for  *)
(* the vacancy, then for its employer, and where the API is out of reach   *)
(* reads the page of the vacancy instead.                                  *)
(*                                                                         *)
(* Each exchange is a step and may end in any way hh.ru or the network can *)
(* end it.  The JSON of the API is a record of the kinds of its fields.    *)
(***************************************************************************)
EXTENDS HHPage

CONSTANTS
  Page,                   \* the pages hh.ru may show for the vacancy
  Status,                 \* HTTP status codes other than 200
  Kind,                   \* kinds of the value of a JSON field
  html_fallback_enabled

\* A page is the events the parser makes of it.
HHClientAssumption == Page \subseteq Seq(Event) /\ None \notin Page

ASSUME HHClientAssumption

VARIABLES
  phase,     \* the exchange that is next, or how the run ended
  vacancy,   \* what get_vacancy has returned
  known,     \* _vacancy_hh_id_by_employer_hh_id: the employers of vacancies returned
  found,     \* _employers_by_hh_id: the employers the pages named
  answer     \* the page or the JSON hh.ru answered with in the last exchange, if any

vars == <<phase, vacancy, known, found, answer>>

Answer(page, json) == [page |-> page, json |-> json]

Init ==
  /\ phase = "api_vacancy"
  /\ vacancy = None
  /\ known = {}
  /\ found = {}
  /\ answer = Answer(None, None)

-----------------------------------------------------------------------------
(* An exchange with the API. *)

is_fallback_status(code) == code \in {403, 429} \/ code >= 500

\* How an exchange fails: with a status code, or in another way.
Outcomes == [how : {"status"}, code : Status] \cup
            [how : {"timeout", "transport", "undecodable", "too_deep", "not_json", "not_object"},
             code : {0}]

\* _get_json: the exception it raises for a failure.
Raised(outcome) ==
  CASE outcome.how \in {"timeout", "transport"} -> "fallback"
    [] outcome.how = "undecodable" -> "other"  \* not a TransportError: not translated
    [] outcome.how = "too_deep" -> "other"     \* RecursionError: not a ValueError
    [] outcome.how \in {"not_json", "not_object"} -> "error"
    [] outcome.how = "status" -> IF outcome.code = 404 THEN "not_found"
                                 ELSE IF is_fallback_status(outcome.code) THEN "fallback"
                                 ELSE "error"

\* The fields of a vacancy in JSON, as they should be.
Sound == [id |-> "int", name |-> "text", employer |-> "object", employer_id |-> "digits",
          employer_name |-> "text", type |-> "object", type_id |-> "open", archived |-> "false"]

\* All is well, one field is of another kind, or the vacancy is closed.
Payloads ==
  { [Sound EXCEPT ![f] = k] : f \in DOMAIN Sound \ {"archived"}, k \in Kind } \cup
  { [Sound EXCEPT !.type_id = t, !.archived = a] :
      t \in {"open", "closed"}, a \in {"false", "true", "null"} }

required_int(kind)  == kind \in {"int", "digits"}
required_str(kind)  == kind \in {"text", "digits", "open", "closed"}
required_dict(kind) == kind = "object"
optional_dict(kind) == kind \in {"object", "absent", "null"}

\* Whether vacancy_payload_from_json accepts the fields.
WellFormed(p) ==
  /\ required_dict(p.employer) /\ optional_dict(p.type)
  /\ required_int(p.id) /\ required_str(p.name)
  /\ required_int(p.employer_id) /\ required_str(p.employer_name)

\* _ensure_vacancy_is_open: only the type "open" will do.
IsOpen(p) == p.archived # "true" /\ p.type = "object" /\ p.type_id = "open"

-----------------------------------------------------------------------------
(* The run. *)

\* The next exchange, or the end of the run, without anything kept.
Go(to) == phase' = to /\ UNCHANGED <<vacancy, known, found>>

Fail(kind) == Go(kind) /\ answer' = Answer(None, None)

\* Mutant: the employer of a vacancy read from its page is not remembered.
Return_ApiOnly(employer, source, open) ==
  /\ vacancy' = [employer |-> employer, source |-> source]
  /\ known' = IF source = "api" THEN known \cup {employer} ELSE known
  /\ phase' = IF open THEN "api_employer" ELSE "closed"

\* get_vacancy has returned a vacancy of this employer, which is remembered.
Return(employer, source, open) ==
  /\ vacancy' = [employer |-> employer, source |-> source]
  /\ known' = known \cup {employer}
  /\ phase' = IF open THEN "api_employer" ELSE "closed"

\* The exception of the API ends the call, unless there is a page to read.
Give(outcome, next) ==
  IF Raised(outcome) # "fallback" THEN Fail(Raised(outcome))
  ELSE IF html_fallback_enabled THEN Fail(next) ELSE Fail("error")

ApiVacancy ==
  /\ phase = "api_vacancy"
  /\ \/ \E o \in Outcomes : Give(o, "page_vacancy")
     \/ \E p \in Payloads, e \in Employer :
          /\ answer' = Answer(None, p)
          /\ IF WellFormed(p) THEN Return(e, "api", IsOpen(p)) /\ UNCHANGED found ELSE Go("error")

\* Mutant: the page that is read last is the only one that is remembered.
Remember_Last(parsed) == found' = {parsed.employer_hh_id}

\* The employer a page names is remembered with the others.
Remember(parsed) == found' = found \cup {parsed.employer_hh_id}

\* HHHtmlVacancySource.get_vacancy: the page, or the failure of reading it, be it that
\* HTMLParser gives up on the page.
PageVacancy ==
  /\ phase = "page_vacancy"
  /\ \/ Fail("not_found") \/ Fail("error") \/ Fail("other")
     \/ \E page \in Page :
          /\ answer' = Answer(page, None)
          /\ LET parsed == parse_hh_vacancy_html(page) IN
             IF raises(feed(page)) THEN Go("other")
             ELSE IF parsed = None THEN Go("error")
             ELSE Remember(parsed) /\ Return(parsed.employer_hh_id, "page", ~parsed.archived)

\* The page of the vacancy is read, also when it has been read for the vacancy.
ApiEmployer ==
  /\ phase = "api_employer"
  /\ \/ \E o \in Outcomes :
          Give(o, IF vacancy.employer \in known THEN "page_employer" ELSE "found")
     \/ Fail("error")  \* employer_payload_from_json refuses a field
     \/ Fail("loaded")

PageEmployer ==
  /\ phase = "page_employer"
  /\ \/ Fail("not_found") \/ Fail("error") \/ Fail("other")
     \/ \E page \in Page :
          /\ answer' = Answer(page, None)
          /\ LET parsed == parse_hh_vacancy_html(page) IN
             IF raises(feed(page)) THEN Go("other")
             ELSE IF parsed = None THEN Go("error")
             ELSE Remember(parsed) /\ phase' = "found" /\ UNCHANGED <<vacancy, known>>

\* HHHtmlVacancySource.get_employer.
FoundEmployer ==
  /\ phase = "found"
  /\ Fail(IF vacancy.employer \in found THEN "loaded" ELSE "no_employer")

Next == ApiVacancy \/ PageVacancy \/ ApiEmployer \/ PageEmployer \/ FoundEmployer

Spec == Init /\ [][Next]_vars

-----------------------------------------------------------------------------
(* Properties. *)

IsPage == answer.page # None

TypeOK ==
  /\ phase \in {"api_vacancy", "page_vacancy", "api_employer", "page_employer", "found", "loaded",
                "closed", "error", "not_found", "no_employer", "other"}
  /\ vacancy # None => vacancy.employer \in known
  /\ known \subseteq Employer
  /\ found \subseteq Employer
  /\ answer.page \in Page \cup {None} /\ answer.json \in Payloads \cup {None}

\* Where elements nest, follow and repeat each other in whatever way, the text
\* taken for a field is the text of an element of that field, the first to end
\* that is not empty.  Where a <br> is left unclosed inside one, the text taken may
\* go on behind its element, but is never cut off before the element's end.
TextOfElements ==
  IsPage => \A key \in DATA_QA_FIELDS :
    LET full  == { i \in Elements(answer.page, key) : TextOf(answer.page, i) # <<>> }
        first == { i \in full : \A j \in full : Ends(answer.page, i) <= Ends(answer.page, j) }
        text  == First(feed(answer.page).texts[key], <<>>)
    IN  /\ Regular(answer.page) => \/ full = {} /\ text = <<>>
                              \/ \E i \in first : text = TextOf(answer.page, i)
        /\ text # <<>> =>
             \E i \in Elements(answer.page, key) : IsPrefix(TextOf(answer.page, i), text)

\* No vacancy goes on to its employer when an element of its page says that it is
\* archived and the capture of that element ends, even if a script of the page
\* describes an open vacancy and fills in everything else; nor when the API does
\* not call its type open, be it that the type is of another kind or missing.  A
\* <br> left unclosed in the element keeps its capture from ending with it: on a
\* page without an end tag too many the notice is lost, and the vacancy is loaded.
ClosedIsNotLoaded ==
  phase = "api_employer" =>
    IF IsPage
    THEN \A key \in DATA_QA_FIELDS : \A i \in Elements(answer.page, key) :
           "archived" \in ToSet(TextOf(answer.page, i)) => ~CaptureEnds(answer.page, i)
    ELSE /\ answer.json.type = "object" /\ answer.json.type_id = "open"
         /\ answer.json.archived # "true"

\* A page whose elements name the vacancy and link its employer, with no tag left
\* unclosed in them (Regular), is enough, however incomplete its scripts are and
\* whatever in them is not JSON: it is given up only when one of its scripts is
\* nested too deeply or has a malformed link, even behind one that is complete.
ElementsSuffice ==
  /\ IsPage /\ Regular(answer.page)
  /\ \E i \in Elements(answer.page, "title") : TextOf(answer.page, i) # <<>>
  /\ \E i \in Elements(answer.page, "company") : LinksOf(answer.page, i) # {}
  /\ \A i \in Elements(answer.page, "company") :
       TextOf(answer.page, i) # <<>> /\ LinksOf(answer.page, i) \subseteq Employer
  => phase # "error" /\ (phase = "other" => ScriptRaises(answer.page))

\* A run that read the vacancy's employer on its page is never told that hh.ru
\* has no data of the employer, even if the page, read a second time for the
\* employer, names another one.
EmployerIsRemembered ==
  phase = "no_employer" => vacancy.source = "api"

=============================================================================
