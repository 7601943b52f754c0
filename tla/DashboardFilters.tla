------------------------- MODULE DashboardFilters -------------------------
(***************************************************************************)
(* The filter bars of the client: what clicks in the dropdowns and in the  *)
(* calendar leave selected on the page of emissions and on the page of     *)
(* recommendations, and which rows the pages then show.                    *)
(*                                                                         *)
(* A page opens once the footprint is loaded (App.tsx), and every change   *)
(* of its filters is followed by the effect that filters its rows anew,    *)
(* so that what is shown is a function of the state.  A dropdown lists     *)
(* options; an option has a key, which is also its name, and a provider.   *)
(* Lists are sets here: the order of a list only decides which of several  *)
(* selected options with one key a click takes away, and any may be taken. *)
(* Providers are numbered in the order of their keys.  Ages are months.    *)
(***************************************************************************)
EXTENDS Integers, FiniteSets

CONSTANTS
  Providers,    \* what the client is configured with (Config.ts)
  Names,        \* of accounts, services, regions, types of recommendation
  Null, Blank,  \* a name that is null, and one that is the empty string
  Unknown,      \* the key of the options that stand for both
  All,          \* the option that stands for all others of a dropdown
  None,         \* no date
  DataSets,     \* what the server may have answered: sets of rows
  TimeFrames,   \* the buttons of the month filter
  MaxAge        \* bound on the ages of rows and on what the calendar offers

Fields == {"accounts", "services", "regions", "types"}
EstimateFields == {"accounts", "services", "regions"}
RecommendationFields == {"accounts", "regions", "types"}

Rows == [provider : Providers, age : 0..MaxAge,
         name : [EstimateFields -> Names \cup {Null, Blank}]
                \cup [RecommendationFields -> Names \cup {Null, Blank}]]

(***************************************************************************)
(* Every row is an estimate or a recommendation of a provider the client   *)
(* is configured with; names are not among the special values.             *)
(***************************************************************************)
ASSUME ProvidersAssumption == Providers \subseteq Nat /\ IsFiniteSet(Providers)
ASSUME DataAssumption == \A d \in DataSets : d \subseteq Rows /\ IsFiniteSet(d)
ASSUME SpecialAssumption ==
  /\ {Null, Blank, Unknown} \cap Names = {} /\ Unknown \notin {Null, Blank} /\ Null # Blank
  /\ All \notin Names \cup {Unknown} \cup Providers
  /\ All \notin [key : Names \cup {Unknown} \cup Providers, provider : Providers]
ASSUME TimeAssumption ==
  /\ MaxAge \in Nat /\ None \notin 0..MaxAge
  /\ TimeFrames \subseteq Nat \ {0} /\ 36 \in TimeFrames

VARIABLES
  data,       \* the rows that were loaded
  page,       \* "emissions" or "recommendations"
  selected,   \* options of the filters: the selected ones of each dropdown
  timeframe,  \* months back from today, or -1 for a range of dates
  dateRange   \* its first and its last day

vars == <<data, page, selected, timeframe, dateRange>>

-----------------------------------------------------------------------------
(* What the dropdowns list. *)

\* The dropdowns whose options come from the rows; each page has the
\* dropdown of providers besides.
FieldsOf(p) == IF p = "emissions" THEN {"accounts", "services"}
               ELSE {"accounts", "regions", "types"}

Kinds == {"providers"} \cup FieldsOf(page)

\* A row is an option of each of its fields: an account without a name is
\* the unknown account.
OptionOf(row, field) ==
  [key |-> IF row.name[field] \in {Null, Blank} THEN Unknown ELSE row.name[field],
   provider |-> row.provider]

Having(field) == {row \in data : field \in DOMAIN row.name}

\* The page of emissions has the estimates only, the page of recommendations
\* both.
RowsOfPage(p) == IF p = "emissions" THEN Having("services") ELSE data

ProviderOption(p) == [key |-> p, provider |-> p]

OptionsOn(p, kind) ==
  IF kind = "providers" THEN {ProviderOption(q) : q \in Providers}
  ELSE {OptionOf(row, kind) : row \in RowsOfPage(p) \cap Having(kind)}

Options(kind) == OptionsOn(page, kind)

\* What is selected when a page opens.
Everything(p) == [kind \in {"providers"} \cup FieldsOf(p) |-> OptionsOn(p, kind) \cup {All}]

-----------------------------------------------------------------------------
(* What a click changes: OptionChooser and its subclasses. *)

Of(options, p) == {o \in options \ {All} : o.provider = p}

Chosen(p) == ProviderOption(p) \in selected["providers"]

ProvidersIn(options) == {o.provider : o \in options \ {All}}

KeysIn(options) == {o.key : o \in options \ {All}}

CarriedOfAccounts(kind, p) ==  \* variant: the options of another dropdown
  Of(IF Chosen(p) THEN selected[kind] ELSE Options("accounts"), p)
SelectedAnew(kind, p) ==  \* variant: forgets what was selected
  Of(Options(kind), p)

\* Of a provider that was selected before, what was selected stays; of one
\* that was not, everything is selected.
Carried(kind, p) == Of(IF Chosen(p) THEN selected[kind] ELSE Options(kind), p)

\* The services with one of these keys that find meets first in the list.
FirstServices(keys) ==
  {o \in Options("services") :
     o.key \in keys /\ \A x \in Options("services") : x.key = o.key => o.provider <= x.provider}

\* On the page of emissions, a click on an account finds the services of a
\* provider by their keys.
ServicesOf(p) ==
  LET keys == KeysIn(Of(Options("services"), p)) IN
  IF Chosen(p) THEN {o \in selected["services"] \ {All} : o.key \in keys}
  ELSE FirstServices(keys)

\* A click on a service there finds the providers of all services by key.
ProvidersOfServices(services) ==
  {o.provider : o \in {x \in Options("services") : x.key \in KeysIn(services)}}

\* What becomes of a dropdown when those of the clicked one are selected.
Others(clicked, selections, kind) ==
  IF kind = "providers" THEN {ProviderOption(p) : p \in ProvidersIn(selections)}
  ELSE IF page = "emissions" /\ clicked = "accounts"
       THEN UNION {ServicesOf(p) : p \in ProvidersIn(selections)}
  ELSE UNION {Carried(kind, p) :
              p \in IF page = "emissions" /\ clicked = "services"
                    THEN ProvidersOfServices(selections) ELSE ProvidersIn(selections)}

\* When as many options are selected as there are, the one for all is too.
AddAll(kind, options) ==
  IF Cardinality(options) = Cardinality(Options(kind)) THEN options \cup {All} ELSE options

AllStays(kind, selections) ==  \* variant: the option for all stays
  IF Cardinality(selections) = Cardinality(Options(kind)) THEN Options(kind) \cup {All}
  ELSE selections

\* The selections of the clicked dropdown: the option for all adds all
\* others, and goes when one of them goes.
Completed(kind, selections) ==
  LET n == Cardinality(Options(kind))
      allWere == All \in selected[kind]
      allAre == All \in selections \/ Cardinality(selections) = n
      completed == IF allAre /\ ~allWere THEN Options(kind) \cup {All} ELSE selections
  IN  IF allWere /\ Cardinality(completed) = n THEN completed \ {All} ELSE completed

Choose(kind, selections) ==
  IF All \in selected[kind] /\ All \notin selections THEN [k \in Kinds |-> {}]
  ELSE LET s == Completed(kind, selections) IN
       [k \in Kinds |-> AddAll(k, IF k = kind THEN s ELSE Others(kind, s, k))]

-----------------------------------------------------------------------------
(* Which rows are shown. *)

PassesByName(row, field) ==  \* variant: knows no unknown names
  \/ All \in selected[field]
  \/ \E o \in selected[field] \ {All} : o.key = row.name[field]

\* Rows are compared with options by name, whatever the provider; only names
\* that are null are unknown, and no type of recommendation is.
Passes(row, field) ==
  \/ All \in selected[field]
  \/ \E o \in selected[field] \ {All} :
       \/ o.key = Unknown /\ row.name[field] = Null /\ field # "types"
       \/ o.key = row.name[field]

InTime(row) ==
  IF timeframe < 0 /\ dateRange.start # None
  THEN /\ row.age <= dateRange.start
       /\ dateRange.end # None => row.age >= dateRange.end
  ELSE row.age <= timeframe

\* The page of recommendations filters the estimates by what it has of their
\* fields, and by no time.
Shown ==
  IF page = "emissions"
  THEN {row \in Having("services") : InTime(row) /\ Passes(row, "services") /\ Passes(row, "accounts")}
  ELSE {row \in data : \A field \in FieldsOf(page) \cap DOMAIN row.name : Passes(row, field)}

-----------------------------------------------------------------------------
(* The user. *)

NoDates == [start |-> None, end |-> None]

Init ==
  /\ data \in DataSets
  /\ page = "emissions"
  /\ selected = Everything("emissions")
  /\ timeframe = 36
  /\ dateRange = NoDates

\* A click on an option: the dropdown takes away a selected option with the
\* same key, or adds this one.
Toggle(kind, option) ==
  LET key(o) == IF o = All THEN All ELSE o.key
      same == {o \in selected[kind] : key(o) = key(option)}
  IN  /\ \/ same = {} /\ selected' = Choose(kind, selected[kind] \cup {option})
         \/ \E o \in same : selected' = Choose(kind, selected[kind] \ {o})
      /\ UNCHANGED <<data, page, timeframe, dateRange>>

MonthsBesideDates ==  \* variant: the dates stay
  /\ page = "emissions"
  /\ \E months \in TimeFrames \ {timeframe} : timeframe' = months
  /\ UNCHANGED <<data, page, selected, dateRange>>

\* A button of the month filter: the one that is in force does nothing.
WithTimeFrame ==
  /\ page = "emissions"
  /\ \E months \in TimeFrames \ {timeframe} :
       /\ timeframe' = months
       /\ dateRange' = NoDates
  /\ UNCHANGED <<data, page, selected>>

\* The calendar hands over any two dates in order, and either may be missing.
DateRanges ==
  {r \in [start : 0..MaxAge \cup {None}, end : 0..MaxAge \cup {None}] :
     None \notin {r.start, r.end} => r.start >= r.end}

IsComplete(range) == None \notin {range.start, range.end}

WithDateRange ==
  /\ page = "emissions"
  /\ \E range \in DateRanges :
       /\ dateRange' = range
       /\ timeframe' = IF IsComplete(range) THEN -1 ELSE timeframe
  /\ UNCHANGED <<data, page, selected>>

\* The other page opens with filters of its own.
Navigate ==
  \E p \in {"emissions", "recommendations"} \ {page} :
    /\ page' = p
    /\ selected' = Everything(p)
    /\ timeframe' = 36
    /\ dateRange' = NoDates
    /\ UNCHANGED data

Next ==
  \/ \E kind \in Kinds : \E option \in Options(kind) \cup {All} : Toggle(kind, option)
  \/ WithTimeFrame
  \/ WithDateRange
  \/ Navigate

Spec == Init /\ [][Next]_vars

-----------------------------------------------------------------------------
(* Properties. *)

\* The variables have the types the code gives them; in particular a
\* dropdown never has a selection that is not one of its options.
TypeOK ==
  /\ data \in DataSets
  /\ page \in {"emissions", "recommendations"}
  /\ DOMAIN selected = Kinds
  /\ \A kind \in Kinds : selected[kind] \subseteq Options(kind) \cup {All}
  /\ timeframe \in TimeFrames \cup {-1}
  /\ dateRange \in DateRanges

UniqueKeys(kind) ==
  \A x, y \in Options(kind) : x.key = y.key => x = y

\* The page of emissions takes services for one another that have one name.
Distinct == page = "emissions" => UniqueKeys("services")

\* The dropdowns of a page agree through every sequence of clicks, although
\* each click rebuilds all of them from the one that was clicked: what is
\* selected in a dropdown belongs to a selected provider, and a selected
\* provider has something selected in each dropdown that has options of it.
ProvidersAgree ==
  Distinct =>
    \A kind \in FieldsOf(page), p \in Providers :
      /\ Of(selected[kind], p) # {} => Chosen(p)
      /\ Chosen(p) /\ Of(Options(kind), p) # {} => Of(selected[kind], p) # {}

\* The option for all is selected in a dropdown exactly if all others are,
\* whichever dropdown was clicked (a dropdown without options may go either
\* way): the code finds out by comparing lengths of lists of which either
\* may have the option for all in it.
AllMeansAll ==
  \A kind \in Kinds :
    /\ All \in selected[kind] => Options(kind) \subseteq selected[kind]
    /\ Options(kind) # {} /\ Options(kind) \subseteq selected[kind] => All \in selected[kind]

\* Both: no sequence of clicks brings the dropdowns apart.
SelectionsAgree == ProvidersAgree /\ AllMeansAll

\* A click on an option of one provider leaves the selections of the others
\* alone.  On the page of recommendations that needs a condition: a provider
\* which has estimates but no option in the clicked dropdown loses all its
\* selections.
ClickIsLocal ==
  [][\A kind \in Kinds : \A option \in Options(kind) :
       Toggle(kind, option) /\ Distinct /\ UniqueKeys(kind) =>
         \A p \in Providers \ {option.provider}, k \in Kinds :
           Of(Options(kind), p) # {} => Of(selected'[k], p) = Of(selected[k], p)]_vars

\* Names that no option is compared with: empty ones, and types that are null.
Nameless(row, field) == row.name[field] = Blank \/ (row.name[field] = Null /\ field = "types")

\* An option of the row's name is selected; for a row without one, all are.
Ticked(row, field) ==
  IF Nameless(row, field) THEN Options(field) \subseteq selected[field]
  ELSE \E o \in selected[field] \ {All} : o.key = OptionOf(row, field).key

\* A complete range of dates wins over the month filter, whichever was used
\* last.  A range that was completed before and no longer is asks for the time
\* since its first day, and for none if that one is missing.
Asked(row) ==
  IF IsComplete(dateRange) THEN row.age \in dateRange.end..dateRange.start
  ELSE IF timeframe # -1 THEN row.age <= timeframe
  ELSE dateRange.start # None /\ row.age <= dateRange.start

\* A page shows exactly the rows of which every field's option is ticked and,
\* on the page of emissions, whose time is asked for, after any clicks in both
\* time filters and all dropdowns, although the code asks the option for all
\* instead where it is selected.  Options are found by name: if no other
\* provider has an option of the same name, it is the row's own option that is
\* selected, and the row's provider too.
ShownIsSelected ==
  /\ Shown = {row \in RowsOfPage(page) :
                /\ page = "emissions" => Asked(row)
                /\ \A field \in FieldsOf(page) \cap DOMAIN row.name : Ticked(row, field)}
  /\ \A row \in Shown : \A field \in FieldsOf(page) \cap DOMAIN row.name :
       UniqueKeys(field) => /\ OptionOf(row, field) \in selected[field]
                            /\ Distinct => Chosen(row.provider)
=============================================================================
