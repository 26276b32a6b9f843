------------------------------ MODULE Migrations ------------------------------
(***************************************************************************)
(* The Alembic revisions of the database and the models the program uses.  *)
(*                                                                         *)
(* A revision is the list of the DDL operations of its upgrade and of its  *)
(* downgrade.  An alembic command walks the revisions one operation at a   *)
(* time in one transaction: it locks every table it touches until it       *)
(* commits, nobody sees what it has done so far, and if one operation is   *)
(* refused all of it rolls back.  Beside it the program inserts rows, with *)
(* whatever values the schema of the moment admits.                        *)
(*                                                                         *)
(* A column is its name, whether it may be NULL and its default; types are *)
(* left out.  A check is the column it is about with the values it admits, *)
(* numbers in classes.  A constraint is known by what it constrains: the   *)
(* naming convention gives one name to create and to drop it by.           *)
(***************************************************************************)
EXTENDS Integers, Sequences, FiniteSets

CONSTANTS
  Command,       \* alembic commands that may run at once
  Target,        \* the revisions they may be asked for
  Written,       \* the tables the program inserts rows into
  Varied,        \* <<table, column>>: the columns whose value varies in them
  None,
  Null

HEAD   == 5
Tables == {"users", "employers", "vacancies", "resume_profiles", "generation_requests",
           "cover_letters", "subscriptions", "payment_intents", "promo_codes",
           "credit_transactions", "promo_redemptions", "subscription_payment_intents"}

\* What columns have for a default.
Defaults == {"0", "1", "true", "now", "free", "active", "pending", "user", "Resume"}

ASSUME MigrationConstants ==
  /\ Target \subseteq 0..HEAD
  /\ Written \subseteq Tables
  /\ None \notin Command \cup Defaults

-----------------------------------------------------------------------------
(* Tables and operations. *)

Col(name, null, default) == [name |-> name, null |-> null, default |-> default]
Required(names)    == { Col(n, FALSE, None) : n \in names }
Optional(names)    == { Col(n, TRUE, None) : n \in names }
With(default, name) == Col(name, FALSE, default)
Check(column, values) == [column |-> column, values |-> values]
Ref(column, to)    == [column |-> column, to |-> to]
References(t, columns) == { Ref(c, t) : c \in columns }

Table(columns, checks, uniques, refs, indexes) ==
  [exists |-> TRUE, columns |-> columns, checks |-> checks,
   uniques |-> uniques, refs |-> refs, indexes |-> indexes]
NoTable == [exists |-> FALSE, columns |-> {}, checks |-> {}, uniques |-> {}, refs |-> {},
            indexes |-> {}]

Op(do, table, item) == [do |-> do, table |-> table, item |-> item]

\* Every table but cover_letters keeps both times.
timestamp_columns == {With("now", "created_at"), With("now", "updated_at")}

\* The classes of a number that checks tell apart.
NonNegative == {"0", "1..100", ">100"}
Percent     == {"0", "1..100"}
Positive    == {"1..100", ">100"}

-----------------------------------------------------------------------------
(* 20260502_0001: the tables of the first release. *)

PLAN_CHECK                == {"free", "standard", "pro"}
TONE_CHECK                == {"formal", "confident", "concise"}
GENERATION_STATUS_CHECK   == {"pending", "succeeded", "failed"}
SUBSCRIPTION_STATUS_CHECK == {"active", "expired"}

CreateUsers == Op("create_table", "users", Table(
  Required({"id", "telegram_id"}) \cup Optional({"username", "first_name", "language_code"})
    \cup {With("free", "plan")} \cup timestamp_columns,
  {Check("plan", PLAN_CHECK)}, {{"id"}, {"telegram_id"}}, {}, {}))

CreateEmployers == Op("create_table", "employers", Table(
  Required({"id", "hh_id", "name"}) \cup Optional({"url", "raw_payload", "cached_at"})
    \cup timestamp_columns,
  {}, {{"id"}, {"hh_id"}}, {}, {}))

CreateVacancies == Op("create_table", "vacancies", Table(
  Required({"id", "hh_id", "employer_id", "title"})
    \cup Optional({"url", "raw_payload", "cached_at"}) \cup timestamp_columns,
  {}, {{"id"}, {"hh_id"}}, {Ref("employer_id", "employers")}, {}))

CreateResumeProfiles == Op("create_table", "resume_profiles", Table(
  Required({"id", "user_id", "resume_text"}) \cup timestamp_columns,
  {}, {{"id"}, {"user_id"}}, {Ref("user_id", "users")}, {}))

CreateGenerationRequests == Op("create_table", "generation_requests", Table(
  Required({"id", "user_id", "profile_id", "vacancy_id", "tone"})
    \cup Optional({"error_message", "completed_at"}) \cup {With("pending", "status")}
    \cup timestamp_columns,
  {Check("status", GENERATION_STATUS_CHECK), Check("tone", TONE_CHECK)}, {{"id"}},
  {Ref("profile_id", "resume_profiles"), Ref("user_id", "users"), Ref("vacancy_id", "vacancies")},
  {}))

CreateCoverLetters == Op("create_table", "cover_letters", Table(
  Required({"id", "generation_request_id", "user_id", "profile_id", "vacancy_id", "employer_id",
            "vacancy_title", "employer_name", "tone", "text", "prompt_context", "model",
            "generation_ms"}) \cup {With("now", "created_at")},
  {Check("tone", TONE_CHECK)}, {{"id"}},
  {Ref("employer_id", "employers"), Ref("generation_request_id", "generation_requests"),
   Ref("profile_id", "resume_profiles"), Ref("user_id", "users"), Ref("vacancy_id", "vacancies")},
  {}))

CreateSubscriptions == Op("create_table", "subscriptions", Table(
  Required({"id", "user_id", "plan", "starts_at", "expires_at"}) \cup {With("active", "status")}
    \cup timestamp_columns,
  {Check("plan", PLAN_CHECK), Check("status", SUBSCRIPTION_STATUS_CHECK)}, {{"id"}},
  {Ref("user_id", "users")}, {}))

RequestsIndex      == <<"user_id", "status", "created_at">>
LettersIndex       == <<"user_id", "created_at">>
SubscriptionsIndex == <<"user_id", "status", "expires_at">>

Upgrade1 ==
  <<CreateUsers, CreateEmployers, CreateVacancies, CreateResumeProfiles, CreateGenerationRequests,
    Op("create_index", "generation_requests", RequestsIndex),
    CreateCoverLetters, Op("create_index", "cover_letters", LettersIndex),
    CreateSubscriptions, Op("create_index", "subscriptions", SubscriptionsIndex)>>

Downgrade1 ==
  <<Op("drop_index", "subscriptions", SubscriptionsIndex), Op("drop_table", "subscriptions", None),
    Op("drop_index", "cover_letters", LettersIndex), Op("drop_table", "cover_letters", None),
    Op("drop_index", "generation_requests", RequestsIndex),
    Op("drop_table", "generation_requests", None), Op("drop_table", "resume_profiles", None),
    Op("drop_table", "vacancies", None), Op("drop_table", "employers", None),
    Op("drop_table", "users", None)>>

-----------------------------------------------------------------------------
(* 20260502_0002: the title of a resume. *)

Upgrade2   == <<Op("add_column", "resume_profiles", With("Resume", "title"))>>
Downgrade2 == <<Op("drop_column", "resume_profiles", "title")>>

-----------------------------------------------------------------------------
(* 20260503_0003: accounts of the API, credits and promo codes. *)

\* Mutant: the role is NOT NULL, and old users are given none.
AlterUsers3RoleRequired ==
  <<Op("set_null", "users", "telegram_id"),
    Op("add_column", "users", Col("email", TRUE, None)),
    Op("add_column", "users", Col("password_hash", TRUE, None)),
    Op("add_column", "users", Col("role", FALSE, None)),
    Op("add_column", "users", With("0", "credits")),
    Op("add_column", "users", With("0", "pending_top_up_discount_percent")),
    Op("add_unique", "users", {"email"}),
    Op("add_check", "users", Check("role", {"user", "admin"})),
    Op("add_check", "users", Check("credits", NonNegative)),
    Op("add_check", "users", Check("pending_top_up_discount_percent", Percent))>>

AlterUsers3 ==
  <<Op("set_null", "users", "telegram_id"),
    Op("add_column", "users", Col("email", TRUE, None)),
    Op("add_column", "users", Col("password_hash", TRUE, None)),
    Op("add_column", "users", With("user", "role")),
    Op("add_column", "users", With("0", "credits")),
    Op("add_column", "users", With("0", "pending_top_up_discount_percent")),
    Op("add_unique", "users", {"email"}),
    Op("add_check", "users", Check("role", {"user", "admin"})),
    Op("add_check", "users", Check("credits", NonNegative)),
    Op("add_check", "users", Check("pending_top_up_discount_percent", Percent))>>

CreatePaymentIntents == Op("create_table", "payment_intents", Table(
  Required({"id", "user_id", "credits_amount", "amount_rub", "provider", "external_id"})
    \cup Optional({"confirmed_at"})
    \cup {With("0", "discount_percent"), With("pending", "status")} \cup timestamp_columns,
  {Check("status", {"pending", "succeeded", "failed"}), Check("credits_amount", Positive),
   Check("amount_rub", NonNegative)},
  {{"id"}}, {Ref("user_id", "users")}, {}))

CreatePromoCodes == Op("create_table", "promo_codes", Table(
  Required({"id", "code", "type", "value", "valid_until", "max_activations"})
    \cup {With("0", "activations_count"), With("true", "is_active")} \cup timestamp_columns,
  {Check("type", {"fixed_credits", "top_up_discount"}), Check("value", Positive),
   Check("max_activations", Positive), Check("activations_count", NonNegative)},
  {{"id"}, {"code"}}, {}, {}))

CreateCreditTransactions == Op("create_table", "credit_transactions", Table(
  Required({"id", "user_id", "type", "amount", "balance_after", "description"})
    \cup Optional({"generation_request_id", "payment_intent_id", "promo_code_id", "metadata_json"})
    \cup timestamp_columns,
  {Check("type", {"top_up", "promo", "spend"})}, {{"id"}},
  {Ref("generation_request_id", "generation_requests"), Ref("payment_intent_id", "payment_intents"),
   Ref("promo_code_id", "promo_codes"), Ref("user_id", "users")}, {}))

CreatePromoRedemptions == Op("create_table", "promo_redemptions", Table(
  Required({"id", "promo_code_id", "user_id"}) \cup timestamp_columns,
  {}, {{"id"}, {"promo_code_id", "user_id"}},
  {Ref("promo_code_id", "promo_codes"), Ref("user_id", "users")}, {}))

IntentsIndex == <<"user_id", "status">>
CreatedIndex == <<"user_id", "created_at">>

Upgrade3 == AlterUsers3 \o
  <<CreatePaymentIntents, Op("create_index", "payment_intents", IntentsIndex),
    CreatePromoCodes,
    CreateCreditTransactions, Op("create_index", "credit_transactions", CreatedIndex),
    CreatePromoRedemptions, Op("create_index", "promo_redemptions", CreatedIndex)>>

RestoreUsers3 ==
  <<Op("drop_check", "users", "pending_top_up_discount_percent"),
    Op("drop_check", "users", "credits"), Op("drop_check", "users", "role"),
    Op("drop_unique", "users", {"email"}),
    Op("drop_column", "users", "pending_top_up_discount_percent"),
    Op("drop_column", "users", "credits"), Op("drop_column", "users", "role"),
    Op("drop_column", "users", "password_hash"), Op("drop_column", "users", "email"),
    Op("set_not_null", "users", "telegram_id")>>

\* Mutant: promo_codes is dropped before the ledger that refers to it.
Downgrade3CodesFirst ==
  <<Op("drop_index", "promo_redemptions", CreatedIndex), Op("drop_table", "promo_redemptions", None),
    Op("drop_table", "promo_codes", None),
    Op("drop_index", "credit_transactions", CreatedIndex),
    Op("drop_table", "credit_transactions", None),
    Op("drop_index", "payment_intents", IntentsIndex), Op("drop_table", "payment_intents", None)>>
  \o RestoreUsers3

Downgrade3 ==
  <<Op("drop_index", "promo_redemptions", CreatedIndex), Op("drop_table", "promo_redemptions", None),
    Op("drop_index", "credit_transactions", CreatedIndex),
    Op("drop_table", "credit_transactions", None),
    Op("drop_table", "promo_codes", None),
    Op("drop_index", "payment_intents", IntentsIndex), Op("drop_table", "payment_intents", None)>>
  \o RestoreUsers3

-----------------------------------------------------------------------------
(* 20260509_0004: the type of the welcome bonus. *)

\* A check is dropped and created again with other values.
Recheck(table, column, values) ==
  <<Op("drop_check", table, column), Op("add_check", table, Check(column, values))>>

Upgrade4   == Recheck("credit_transactions", "type", {"welcome_bonus", "top_up", "promo", "spend"})
Downgrade4 == Recheck("credit_transactions", "type", {"top_up", "promo", "spend"})

-----------------------------------------------------------------------------
(* 20260510_0005: what docs/bdd-specification.md asks for. *)

OLD_CREDIT_TRANSACTION_TYPES == {"welcome_bonus", "top_up", "promo", "spend"}
NEW_CREDIT_TRANSACTION_TYPES == OLD_CREDIT_TRANSACTION_TYPES \cup {"adjustment", "refund"}
OLD_PAYMENT_STATUSES == {"pending", "succeeded", "failed"}

\* Mutant: the statuses of the revision lack one that the program writes.
NEW_PAYMENT_STATUSES_Short == OLD_PAYMENT_STATUSES \cup {"canceled", "refunded"}

NEW_PAYMENT_STATUSES == OLD_PAYMENT_STATUSES \cup {"canceled", "refunded", "refund_manual_review"}

CreateSubscriptionPaymentIntents == Op("create_table", "subscription_payment_intents", Table(
  Required({"id", "user_id", "plan", "amount_rub", "provider", "external_id"})
    \cup Optional({"confirmed_at"}) \cup {With("pending", "status")} \cup timestamp_columns,
  {Check("plan", {"free", "standard", "pro"}), Check("status", NEW_PAYMENT_STATUSES),
   Check("amount_rub", NonNegative)},
  {{"id"}}, {Ref("user_id", "users")}, {}))

Upgrade5 ==
  <<Op("add_column", "users", Col("pending_top_up_discount_valid_until", TRUE, None)),
    Op("add_column", "users", Col("pending_top_up_discount_promo_code_id", TRUE, None)),
    Op("add_ref", "users", Ref("pending_top_up_discount_promo_code_id", "promo_codes")),
    Op("add_column", "generation_requests", Col("snapshot_profile_text", TRUE, None)),
    Op("add_column", "generation_requests", Col("snapshot_vacancy_text", TRUE, None)),
    Op("add_column", "generation_requests", Col("snapshot_tone", TRUE, None))>>
  \o Recheck("credit_transactions", "type", NEW_CREDIT_TRANSACTION_TYPES)
  \o Recheck("payment_intents", "status", NEW_PAYMENT_STATUSES)
  \o <<CreateSubscriptionPaymentIntents,
       Op("create_index", "subscription_payment_intents", <<"user_id", "status">>)>>

\* Mutant: the downgrade leaves one of the snapshots behind.
Downgrade5KeepsSnapshot ==
  <<Op("drop_index", "subscription_payment_intents", <<"user_id", "status">>),
    Op("drop_table", "subscription_payment_intents", None)>>
  \o Recheck("payment_intents", "status", OLD_PAYMENT_STATUSES)
  \o Recheck("credit_transactions", "type", OLD_CREDIT_TRANSACTION_TYPES)
  \o <<Op("drop_column", "generation_requests", "snapshot_tone"),
       Op("drop_column", "generation_requests", "snapshot_vacancy_text"),
       Op("drop_ref", "users", "pending_top_up_discount_promo_code_id"),
       Op("drop_column", "users", "pending_top_up_discount_promo_code_id"),
       Op("drop_column", "users", "pending_top_up_discount_valid_until")>>

Downgrade5 ==
  <<Op("drop_index", "subscription_payment_intents", <<"user_id", "status">>),
    Op("drop_table", "subscription_payment_intents", None)>>
  \o Recheck("payment_intents", "status", OLD_PAYMENT_STATUSES)
  \o Recheck("credit_transactions", "type", OLD_CREDIT_TRANSACTION_TYPES)
  \o <<Op("drop_column", "generation_requests", "snapshot_tone"),
       Op("drop_column", "generation_requests", "snapshot_vacancy_text"),
       Op("drop_column", "generation_requests", "snapshot_profile_text"),
       Op("drop_ref", "users", "pending_top_up_discount_promo_code_id"),
       Op("drop_column", "users", "pending_top_up_discount_promo_code_id"),
       Op("drop_column", "users", "pending_top_up_discount_valid_until")>>

upgrade   == <<Upgrade1, Upgrade2, Upgrade3, Upgrade4, Upgrade5>>
downgrade == <<Downgrade1, Downgrade2, Downgrade3, Downgrade4, Downgrade5>>

-----------------------------------------------------------------------------
(* infra/db/models.py with domain/enums.py: the tables the program expects. *)

Plan                  == {"free", "standard", "pro"}
UserRole              == {"user", "admin"}
Tone                  == {"formal", "confident", "concise"}
GenerationStatus      == {"pending", "succeeded", "failed"}
SubscriptionStatus    == {"active", "expired"}
CreditTransactionType == {"welcome_bonus", "top_up", "promo", "spend", "adjustment", "refund"}
PaymentStatus         == {"pending", "succeeded", "failed", "canceled", "refunded",
                          "refund_manual_review"}
PromoCodeType         == {"fixed_credits", "top_up_discount"}

TimestampMixin == {With("now", "created_at"), With("now", "updated_at")}

User == Table(
  Required({"id"})
    \cup Optional({"telegram_id", "email", "password_hash", "username", "first_name",
                   "language_code", "pending_top_up_discount_valid_until",
                   "pending_top_up_discount_promo_code_id"})
    \cup {With("user", "role"), With("0", "credits"), With("free", "plan"),
          With("0", "pending_top_up_discount_percent")} \cup TimestampMixin,
  {Check("plan", Plan), Check("role", UserRole), Check("credits", NonNegative),
   Check("pending_top_up_discount_percent", Percent)},
  {{"id"}, {"email"}, {"telegram_id"}},
  {Ref("pending_top_up_discount_promo_code_id", "promo_codes")}, {})

ResumeProfile == Table(
  Required({"id", "user_id", "resume_text"}) \cup {With("Resume", "title")} \cup TimestampMixin,
  {}, {{"id"}, {"user_id"}}, {Ref("user_id", "users")}, {})

Employer == Table(
  Required({"id", "hh_id", "name"}) \cup Optional({"url", "raw_payload", "cached_at"})
    \cup TimestampMixin,
  {}, {{"id"}, {"hh_id"}}, {}, {})

Vacancy == Table(
  Required({"id", "hh_id", "employer_id", "title"})
    \cup Optional({"url", "raw_payload", "cached_at"}) \cup TimestampMixin,
  {}, {{"id"}, {"hh_id"}}, {Ref("employer_id", "employers")}, {})

GenerationRequest == Table(
  Required({"id", "user_id", "profile_id", "vacancy_id", "tone"})
    \cup Optional({"error_message", "snapshot_profile_text", "snapshot_vacancy_text",
                   "snapshot_tone", "completed_at"})
    \cup {With("pending", "status")} \cup TimestampMixin,
  {Check("status", GenerationStatus), Check("tone", Tone)}, {{"id"}},
  {Ref("user_id", "users"), Ref("profile_id", "resume_profiles"), Ref("vacancy_id", "vacancies")},
  {<<"user_id", "status", "created_at">>})

CoverLetter == Table(
  Required({"id", "generation_request_id", "user_id", "profile_id", "vacancy_id", "employer_id",
            "vacancy_title", "employer_name", "tone", "text", "prompt_context", "model",
            "generation_ms"}) \cup {With("now", "created_at")},
  {Check("tone", Tone)}, {{"id"}},
  {Ref("generation_request_id", "generation_requests"), Ref("user_id", "users"),
   Ref("profile_id", "resume_profiles"), Ref("vacancy_id", "vacancies"),
   Ref("employer_id", "employers")},
  {<<"user_id", "created_at">>})

Subscription == Table(
  Required({"id", "user_id", "plan", "starts_at", "expires_at"}) \cup {With("active", "status")}
    \cup TimestampMixin,
  {Check("plan", Plan), Check("status", SubscriptionStatus)}, {{"id"}},
  {Ref("user_id", "users")}, {<<"user_id", "status", "expires_at">>})

CreditTransaction == Table(
  Required({"id", "user_id", "type", "amount", "balance_after", "description"})
    \cup Optional({"generation_request_id", "payment_intent_id", "promo_code_id", "metadata_json"})
    \cup TimestampMixin,
  {Check("type", CreditTransactionType)}, {{"id"}},
  {Ref("user_id", "users"), Ref("generation_request_id", "generation_requests"),
   Ref("payment_intent_id", "payment_intents"), Ref("promo_code_id", "promo_codes")},
  {<<"user_id", "created_at">>})

PaymentIntent == Table(
  Required({"id", "user_id", "credits_amount", "amount_rub", "provider", "external_id"})
    \cup Optional({"confirmed_at"})
    \cup {With("0", "discount_percent"), With("pending", "status")} \cup TimestampMixin,
  {Check("status", PaymentStatus), Check("credits_amount", Positive),
   Check("amount_rub", NonNegative)},
  {{"id"}}, {Ref("user_id", "users")}, {<<"user_id", "status">>})

SubscriptionPaymentIntent == Table(
  Required({"id", "user_id", "plan", "amount_rub", "provider", "external_id"})
    \cup Optional({"confirmed_at"}) \cup {With("pending", "status")} \cup TimestampMixin,
  {Check("plan", Plan), Check("status", PaymentStatus), Check("amount_rub", NonNegative)},
  {{"id"}}, {Ref("user_id", "users")}, {<<"user_id", "status">>})

PromoCode == Table(
  Required({"id", "code", "type", "value", "valid_until", "max_activations"})
    \cup {With("0", "activations_count"), With("1", "is_active")} \cup TimestampMixin,
  {Check("type", PromoCodeType), Check("value", Positive), Check("max_activations", Positive),
   Check("activations_count", NonNegative)},
  {{"id"}, {"code"}}, {}, {})

PromoRedemption == Table(
  Required({"id", "promo_code_id", "user_id"}) \cup TimestampMixin,
  {}, {{"id"}, {"promo_code_id", "user_id"}},
  {Ref("promo_code_id", "promo_codes"), Ref("user_id", "users")},
  {<<"user_id", "created_at">>})

metadata ==
  [t \in Tables |->
    CASE t = "users" -> User
      [] t = "resume_profiles" -> ResumeProfile
      [] t = "employers" -> Employer
      [] t = "vacancies" -> Vacancy
      [] t = "generation_requests" -> GenerationRequest
      [] t = "cover_letters" -> CoverLetter
      [] t = "subscriptions" -> Subscription
      [] t = "credit_transactions" -> CreditTransaction
      [] t = "payment_intents" -> PaymentIntent
      [] t = "subscription_payment_intents" -> SubscriptionPaymentIntent
      [] t = "promo_codes" -> PromoCode
      [] t = "promo_redemptions" -> PromoRedemption]

-----------------------------------------------------------------------------
(* The database. *)

VARIABLES
  revision,  \* the committed row of alembic_version, 0 when there is none
  def,       \* def[t]: the definition of table t, with the changes of its lock's owner
  rows,      \* rows[t]: its rows
  saved,     \* saved[t]: def and rows of t as they are committed, while t is locked
  lock,      \* the command whose open transaction has locked table t, or alembic_version
  cmd        \* what each command is doing

vars == <<revision, def, rows, saved, lock, cmd>>

NoCommand == [phase |-> "idle", began |-> 0, at |-> 0, target |-> 0, pos |-> 1, overtaken |-> FALSE]
Nothing   == [def |-> NoTable, rows |-> {}]

Init ==
  /\ revision = 0
  /\ def   = [t \in Tables |-> NoTable]
  /\ rows  = [t \in Tables |-> {}]
  /\ saved = [t \in Tables |-> Nothing]
  /\ lock  = [t \in Tables \cup {"alembic_version"} |-> None]
  /\ cmd   = [k \in Command |-> NoCommand]

\* A foreign key locks the table it refers to as well.
Touched(op) ==
  {op.table} \cup
  CASE op.do = "create_table" -> { r.to : r \in op.item.refs }
    [] op.do = "drop_table" -> { r.to : r \in def[op.table].refs }
    [] op.do = "add_ref" -> {op.item.to}
    [] op.do = "drop_ref" -> { r.to : r \in { r \in def[op.table].refs : r.column = op.item } }
    [] OTHER -> {}

Columns(d) == { c.name : c \in d.columns }

\* An operation is refused by what it does not find, or by the rows there are.
Refused(op) ==
  LET d == def[op.table] IN
  CASE op.do = "create_table" -> d.exists
    [] op.do = "drop_table" ->
         ~d.exists \/ \E t \in Tables \ {op.table} : \E r \in def[t].refs : r.to = op.table
    [] op.do = "add_column" ->
         \/ op.item.name \in Columns(d)
         \/ ~op.item.null /\ op.item.default = None /\ rows[op.table] # {}
    [] op.do \in {"drop_column", "set_null"} -> op.item \notin Columns(d)
    [] op.do = "set_not_null" -> \E r \in rows[op.table] : r[op.item] = Null
    [] op.do = "add_check" ->
         \/ \E c \in d.checks : c.column = op.item.column
         \/ \E r \in rows[op.table] : r[op.item.column] \notin op.item.values
    [] op.do = "drop_check" -> \A c \in d.checks : c.column # op.item
    [] op.do = "add_unique" ->
         \/ op.item \in d.uniques
         \/ \E r, s \in rows[op.table] :
              r # s /\ \A c \in op.item : r[c] = s[c] /\ r[c] # Null
    [] op.do = "drop_unique" -> op.item \notin d.uniques
    [] op.do = "add_ref" -> \/ op.item \in d.refs
                            \/ ~def[op.item.to].exists
                            \/ /\ rows[op.item.to] = {}
                               /\ \E r \in rows[op.table] : r[op.item.column] # Null
    [] op.do = "drop_ref" -> \A r \in d.refs : r.column # op.item
    [] op.do = "create_index" -> op.item \in d.indexes
    [] op.do = "drop_index" -> op.item \notin d.indexes

Nullable(d, column, null) ==
  [d EXCEPT !.columns = { IF c.name = column THEN [c EXCEPT !.null = null] ELSE c : c \in @ }]

\* The table an operation leaves.
Altered(op, d) ==
  CASE op.do = "create_table" -> op.item
    [] op.do = "drop_table"   -> NoTable
    [] op.do = "add_column"   -> [d EXCEPT !.columns = @ \cup {op.item}]
    [] op.do = "drop_column"  -> [d EXCEPT !.columns = { c \in @ : c.name # op.item }]
    [] op.do = "set_null"     -> Nullable(d, op.item, TRUE)
    [] op.do = "set_not_null" -> Nullable(d, op.item, FALSE)
    [] op.do = "add_check"    -> [d EXCEPT !.checks = @ \cup {op.item}]
    [] op.do = "drop_check"   -> [d EXCEPT !.checks = { c \in @ : c.column # op.item }]
    [] op.do = "add_unique"   -> [d EXCEPT !.uniques = @ \cup {op.item}]
    [] op.do = "drop_unique"  -> [d EXCEPT !.uniques = @ \ {op.item}]
    [] op.do = "add_ref"      -> [d EXCEPT !.refs = @ \cup {op.item}]
    [] op.do = "drop_ref"     -> [d EXCEPT !.refs = { r \in @ : r.column # op.item }]
    [] op.do = "create_index" -> [d EXCEPT !.indexes = @ \cup {op.item}]
    [] op.do = "drop_index"   -> [d EXCEPT !.indexes = @ \ {op.item}]

\* What the rows there are get in a column that is added.
Filled(c) == IF c.default = None THEN Null ELSE c.default

\* The rows it leaves: only the columns come and go.
Rewritten(op, rs) ==
  CASE op.do \in {"create_table", "drop_table"} -> {}
    [] op.do = "add_column" ->
         { [c \in DOMAIN r \cup {op.item.name} |->
              IF c = op.item.name THEN Filled(op.item) ELSE r[c]] : r \in rs }
    [] op.do = "drop_column" -> { [c \in DOMAIN r \ {op.item} |-> r[c]] : r \in rs }
    [] OTHER -> rs

-----------------------------------------------------------------------------
(* The program writes. *)

\* The values of column c the program may insert into table t.
Values(t, c) ==
  LET allowed == { k.values : k \in { k \in def[t].checks : k.column = c.name } } IN
  (IF allowed = {} THEN {"x"} ELSE UNION allowed) \cup (IF c.null THEN {Null} ELSE {})

\* What stands in the columns that do not vary.
Plain(t, c) ==
  IF c.default # None THEN c.default
  ELSE IF c.null THEN Null
  ELSE CHOOSE v \in Values(t, c) : TRUE

\* The first row of t; it is the bound too, for a row is enough to refuse an operation.
Insert(t) ==
  LET columns == def[t].columns
      vary    == { c \in columns : <<t, c.name>> \in Varied }
      plain   == [n \in Columns(def[t]) |-> Plain(t, CHOOSE c \in columns : c.name = n)] IN
  /\ lock[t] = None
  /\ def[t].exists
  /\ rows[t] = {}
  /\ \A r \in def[t].refs : lock[r.to] = None
  /\ \E f \in [{ c.name : c \in vary } -> UNION { Values(t, c) : c \in vary }] :
       LET row == [n \in DOMAIN plain |-> IF n \in DOMAIN f THEN f[n] ELSE plain[n]] IN
       /\ \A c \in vary : f[c.name] \in Values(t, c)
       /\ \A r \in def[t].refs : row[r.column] # Null => rows[r.to] # {}
       /\ rows' = [rows EXCEPT ![t] = {row}]
  /\ UNCHANGED <<revision, def, saved, lock, cmd>>

-----------------------------------------------------------------------------
(* alembic upgrade and downgrade. *)

Owned(k) == { t \in Tables : lock[t] = k }

Release(k) == lock' = [t \in DOMAIN lock |-> IF lock[t] = k THEN None ELSE lock[t]]

\* The command reads the revision, and finds its way from there.
Begin(k) ==
  /\ cmd[k].phase # "running"
  /\ \E target \in Target \ {revision} :
       cmd' = [cmd EXCEPT ![k] = [phase |-> "running", began |-> revision, at |-> revision,
                                  target |-> target, pos |-> 1, overtaken |-> FALSE]]
  /\ UNCHANGED <<revision, def, rows, saved, lock>>

Up(k)  == cmd[k].target > cmd[k].at
Ops(k) == IF Up(k) THEN upgrade[cmd[k].at + 1] ELSE downgrade[cmd[k].at]

\* The transaction of k ends and nothing of it remains.
Rollback(k, phase) ==
  /\ def'  = [t \in Tables |-> IF lock[t] = k THEN saved[t].def ELSE def[t]]
  /\ rows' = [t \in Tables |-> IF lock[t] = k THEN saved[t].rows ELSE rows[t]]
  /\ saved' = [t \in Tables |-> IF lock[t] = k THEN Nothing ELSE saved[t]]
  /\ Release(k)
  /\ cmd' = [cmd EXCEPT ![k].phase = phase, ![k].overtaken = revision # cmd[k].began]
  /\ UNCHANGED revision

\* The next operation, once the tables it touches are free.
Execute(k) ==
  /\ cmd[k].phase = "running"
  /\ cmd[k].at # cmd[k].target
  /\ cmd[k].pos <= Len(Ops(k))
  /\ LET op == Ops(k)[cmd[k].pos] IN
     /\ \A t \in Touched(op) : lock[t] \in {None, k}
     /\ IF Refused(op) THEN Rollback(k, "refused")
        ELSE /\ def'  = [def EXCEPT ![op.table] = Altered(op, @)]
             /\ rows' = [rows EXCEPT ![op.table] = Rewritten(op, @)]
             /\ saved' = [t \in Tables |-> IF t \in Touched(op) \ Owned(k)
                                           THEN [def |-> def[t], rows |-> rows[t]] ELSE saved[t]]
             /\ lock' = [t \in DOMAIN lock |-> IF t \in Touched(op) THEN k ELSE lock[t]]
             /\ cmd' = [cmd EXCEPT ![k].pos = @ + 1]
             /\ UNCHANGED revision

\* Mutant: a downgrade is stamped like an upgrade.
StampUp(k) ==
  /\ cmd[k].phase = "running"
  /\ cmd[k].at # cmd[k].target
  /\ cmd[k].pos > Len(Ops(k))
  /\ lock["alembic_version"] \in {None, k}
  /\ IF revision # cmd[k].began THEN Rollback(k, "refused")
     ELSE /\ lock' = [lock EXCEPT !["alembic_version"] = k]
          /\ cmd' = [cmd EXCEPT ![k].pos = 1, ![k].at = @ + 1]
          /\ UNCHANGED <<revision, def, rows, saved>>

\* A revision is through: the version it started from must be there to be replaced.
Stamp(k) ==
  /\ cmd[k].phase = "running"
  /\ cmd[k].at # cmd[k].target
  /\ cmd[k].pos > Len(Ops(k))
  /\ lock["alembic_version"] \in {None, k}
  /\ IF revision # cmd[k].began THEN Rollback(k, "refused")
     ELSE /\ lock' = [lock EXCEPT !["alembic_version"] = k]
          /\ cmd' = [cmd EXCEPT ![k].pos = 1, ![k].at = IF Up(k) THEN @ + 1 ELSE @ - 1]
          /\ UNCHANGED <<revision, def, rows, saved>>

Commit(k) ==
  /\ cmd[k].phase = "running"
  /\ cmd[k].at = cmd[k].target
  /\ revision' = cmd[k].at
  /\ saved' = [t \in Tables |-> IF lock[t] = k THEN Nothing ELSE saved[t]]
  /\ Release(k)
  /\ cmd' = [cmd EXCEPT ![k] = NoCommand]
  /\ UNCHANGED <<def, rows>>

\* The command is killed, loses its connection or is chosen to break a deadlock.
Abort(k) == cmd[k].phase = "running" /\ Rollback(k, "idle")

Alembic(k) == Begin(k) \/ Execute(k) \/ Stamp(k) \/ Commit(k) \/ Abort(k)

Next ==
  \/ \E t \in Written : Insert(t)
  \/ \E k \in Command : Alembic(k)

Spec == Init /\ [][Next]_vars

-----------------------------------------------------------------------------
(* Properties. *)

Value == {"x", Null} \cup Defaults \cup NonNegative \cup Plan \cup UserRole \cup Tone
         \cup GenerationStatus \cup SubscriptionStatus \cup CreditTransactionType
         \cup PaymentStatus \cup PromoCodeType

TypeOK ==
  /\ revision \in 0..HEAD
  /\ lock \in [Tables \cup {"alembic_version"} -> Command \cup {None}]
  /\ cmd \in [Command -> [phase: {"idle", "running", "refused"}, began: 0..HEAD, at: 0..HEAD,
                          target: 0..HEAD, pos: 1..20, overtaken: BOOLEAN]]
  /\ \A k \in Command :  \* on its way from began to target
       LET c == cmd[k] IN c.at \in c.began..c.target \cup c.target..c.began
  /\ \A t \in Tables :
       \A row \in rows[t] : DOMAIN row = Columns(def[t]) /\ \A c \in DOMAIN row : row[c] \in Value

\* Table t as everybody but the command that has locked it sees it.
Committed(t) == IF lock[t] = None THEN def[t] ELSE saved[t].def

\* What the models declare, but for the one thing the migrations do not agree with: the
\* models give promo_codes.is_active the default 1 (models.py:369), which PostgreSQL does
\* not take for a Boolean, the migration true (0003:124).
Declared ==
  [metadata EXCEPT !["promo_codes"] =
     Altered(Op("add_column", "promo_codes", With("true", "is_active")),
             Altered(Op("drop_column", "promo_codes", "is_active"), @))]

\* At the last revision the database has exactly the tables, columns, defaults,
\* constraints and indexes the models declare, but for the default of one column
\* (Declared): the program's statements fit it.
HeadMatchesModels == revision = HEAD => \A t \in Tables : Committed(t) = Declared[t]

\* The definition of t after the first n operations of ops, none of them refused.
Replay(ops, before) ==
  LET d[n \in 0..Len(ops)] ==
        IF n = 0 THEN before
        ELSE [t \in Tables |-> IF t = ops[n].table THEN Altered(ops[n], d[n - 1][t])
                               ELSE d[n - 1][t]]
  IN  d[Len(ops)]

SchemaAt[r \in 0..HEAD] ==
  IF r = 0 THEN [t \in Tables |-> NoTable] ELSE Replay(upgrade[r], SchemaAt[r - 1])

\* The revision tells the schema: however often commands went up and down, were
\* refused, cut off or overtook each other, the database is as if it had been
\* upgraded to its revision from nothing.
RevisionTellsSchema == \A t \in Tables : Committed(t) = SchemaAt[revision][t]

\* No row the program can have written at an older revision stops an upgrade;
\* what stops it is only another command that was quicker.
UpgradeAccepted ==
  \A k \in Command :
    cmd[k].phase = "refused" /\ cmd[k].target > cmd[k].began => cmd[k].overtaken

\* A downgrade is stopped only where it narrows what a column admits and a row is
\* in the way, never by the order in which it takes the schema apart.
DowngradeStoppedByRows ==
  \A k \in Command :
    cmd[k].phase = "refused" /\ cmd[k].target < cmd[k].began /\ ~cmd[k].overtaken =>
      Ops(k)[cmd[k].pos].do \in {"set_not_null", "add_check"}

=============================================================================
