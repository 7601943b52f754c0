----------------------- MODULE SeedAndFiltersProofs -----------------------
(***************************************************************************)
(* Theorems about the filter bars of the client and about the script that  *)
(* seeds the cache: each for any values of its module's constants.         *)
(***************************************************************************)
EXTENDS DashboardFilters, SeedCache, CollectionProofs

(***************************************************************************)
(* DashboardFilters: any rows, names and providers, any number of clicks.  *)
(***************************************************************************)
Loaded == data \in DataSets /\ page \in {"emissions", "recommendations"}

OptionType == [key : Names \cup {Unknown} \cup Providers, provider : Providers]

-----------------------------------------------------------------------------
(* Options. *)

\* Every row of the loaded ones has a provider, and names in its fields.
LEMMA RowsTyped ==
  ASSUME Loaded, NEW row \in data, NEW field \in DOMAIN row.name
  PROVE  OptionOf(row, field) \in OptionType
<1>1. row \in Rows
  BY DataAssumption DEF Loaded
<1>2. row.provider \in Providers /\ row.name[field] \in Names \cup {Null, Blank}
  BY <1>1 DEF Rows
<1> QED
  BY <1>2 DEF OptionOf, OptionType

\* Options have the type of options, which the option for all has not.
LEMMA OptionsTyped ==
  ASSUME Loaded, NEW kind
  PROVE  /\ Options(kind) \subseteq OptionType
         /\ All \notin Options(kind)
<1>1. Options(kind) \subseteq OptionType
  <2>1. CASE kind = "providers"
    BY <2>1 DEF Options, OptionsOn, ProviderOption, OptionType
  <2>2. CASE kind # "providers"
    <3>1. \A row \in Having(kind) : OptionOf(row, kind) \in OptionType
      BY RowsTyped DEF Having
    <3> QED
      BY <2>2, <3>1 DEF Options, OptionsOn
  <2> QED
    BY <2>1, <2>2
<1> QED
  BY <1>1, SpecialAssumption DEF OptionType

\* What is made of finitely many things is finite.
LEMMA ImageFinite ==
  ASSUME NEW S, NEW f, f \in [S -> {f[x] : x \in S}], IsFiniteSet(S)
  PROVE  IsFiniteSet({f[x] : x \in S})
<1>1. f \in Surjection(S, {f[x] : x \in S})
  BY DEF Surjection
<1> QED
  BY <1>1, FS_Surjection

\* There are finitely many options.
LEMMA OptionsFinite ==
  ASSUME Loaded, NEW kind
  PROVE  IsFiniteSet(Options(kind))
<1>1. CASE kind = "providers"
  <2> DEFINE f == [p \in Providers |-> ProviderOption(p)]
  <2>1. f \in [Providers -> {f[p] : p \in Providers}]
    OBVIOUS
  <2>2. Options(kind) = {f[p] : p \in Providers}
    BY <1>1 DEF Options, OptionsOn
  <2> HIDE DEF f
  <2> QED
    BY <2>1, <2>2, ImageFinite, ProvidersAssumption
<1>2. CASE kind # "providers"
  <2> DEFINE S == RowsOfPage(page) \cap Having(kind)
             f == [row \in S |-> OptionOf(row, kind)]
  <2>1. f \in [S -> {f[row] : row \in S}]
    OBVIOUS
  <2>2. Options(kind) = {f[row] : row \in S}
    BY <1>2 DEF Options, OptionsOn
  <2>3. S \subseteq data /\ IsFiniteSet(data)
    BY DataAssumption DEF Loaded, Having
  <2>4. IsFiniteSet(S)
    BY <2>3, FS_Subset
  <2> HIDE DEF S, f
  <2> QED
    BY <2>1, <2>2, <2>4, ImageFinite
<1> QED
  BY <1>1, <1>2

-----------------------------------------------------------------------------
(* What a click chooses. *)

\* Completing the clicked dropdown leaves its options.
LEMMA CompletedTyped ==
  ASSUME NEW kind, NEW s \in SUBSET (Options(kind) \cup {All})
  PROVE  Completed(kind, s) \in SUBSET (Options(kind) \cup {All})
BY DEF Completed

\* The providers of options are providers.
LEMMA ProvidersTyped ==
  ASSUME Loaded, NEW kind, NEW s \in SUBSET (Options(kind) \cup {All})
  PROVE  ProvidersIn(s) \subseteq Providers
BY OptionsTyped DEF ProvidersIn, OptionType

\* What is carried over to another dropdown is among its options.
LEMMA OthersTyped ==
  ASSUME TypeOK, NEW clicked \in Kinds, NEW kind \in Kinds \ {clicked},
         NEW s \in SUBSET (Options(clicked) \cup {All})
  PROVE  Others(clicked, s, kind) \in SUBSET Options(kind)
<1>1. Loaded /\ selected[kind] \subseteq Options(kind) \cup {All}
  BY DEF Loaded, TypeOK
<1>2. CASE kind = "providers"
  BY <1>1, <1>2, ProvidersTyped DEF Others, Options, OptionsOn
<1>3. CASE kind # "providers" /\ page = "emissions" /\ clicked = "accounts"
  <2>1. kind = "services"
    BY <1>3 DEF Kinds, FieldsOf
  <2>2. \A p : ServicesOf(p) \subseteq Options("services")
    BY <1>1, <2>1 DEF ServicesOf, FirstServices
  <2>3. Others(clicked, s, kind) = UNION {ServicesOf(p) : p \in ProvidersIn(s)}
    BY <1>3 DEF Others
  <2> QED
    BY <2>1, <2>2, <2>3
<1>4. CASE kind # "providers" /\ ~(page = "emissions" /\ clicked = "accounts")
  <2>1. \A p : Carried(kind, p) \subseteq Options(kind)
    BY <1>1, OptionsTyped DEF Carried, Of
  <2>2. PICK S : Others(clicked, s, kind) = UNION {Carried(kind, p) : p \in S}
    BY <1>4 DEF Others
  <2> QED
    BY <2>1, <2>2
<1> QED
  BY <1>2, <1>3, <1>4

\* A click leaves the dropdowns as the code chooses them from a selection that
\* has one option more or less.
LEMMA ClickChooses ==
  ASSUME TypeOK, NEW kind \in Kinds, NEW option \in Options(kind) \cup {All},
         Toggle(kind, option)
  PROVE  \E s \in SUBSET (Options(kind) \cup {All}) :
           /\ selected' = Choose(kind, s)
           /\ \/ option \notin selected[kind] /\ s = selected[kind] \cup {option}
              \/ \E o \in selected[kind] :
                   /\ s = selected[kind] \ {o}
                   /\ (IF o = All THEN All ELSE o.key) = (IF option = All THEN All ELSE option.key)
<1>1. selected[kind] \subseteq Options(kind) \cup {All}
  BY DEF TypeOK
<1> DEFINE key(o) == IF o = All THEN All ELSE o.key
           same == {o \in selected[kind] : key(o) = key(option)}
<1>2. \/ same = {} /\ selected' = Choose(kind, selected[kind] \cup {option})
      \/ \E o \in same : selected' = Choose(kind, selected[kind] \ {o})
  BY DEF Toggle
<1>3. CASE same = {} /\ selected' = Choose(kind, selected[kind] \cup {option})
  <2>1. option \notin selected[kind]
    BY <1>3
  <2>2. selected[kind] \cup {option} \in SUBSET (Options(kind) \cup {All})
    BY <1>1
  <2> QED
    BY <1>3, <2>1, <2>2
<1>4. ASSUME NEW o \in same, selected' = Choose(kind, selected[kind] \ {o})
      PROVE  \E s \in SUBSET (Options(kind) \cup {All}) :
               /\ selected' = Choose(kind, s)
               /\ \E x \in selected[kind] : s = selected[kind] \ {x} /\ key(x) = key(option)
  <2>1. selected[kind] \ {o} \in SUBSET (Options(kind) \cup {All})
    BY <1>1
  <2> QED
    BY <1>4, <2>1
<1> QED
  BY <1>2, <1>3, <1>4

\* The page a click happens on stays, with its dropdowns and their options.
LEMMA ClickKeepsPage ==
  ASSUME NEW kind, NEW option, Toggle(kind, option)
  PROVE  /\ UNCHANGED <<data, page, timeframe, dateRange, Kinds, FieldsOf(page), Distinct>>
         /\ \A k : Options(k)' = Options(k)
BY DEF Toggle, Kinds, FieldsOf, Distinct, UniqueKeys, Options, OptionsOn, RowsOfPage, Having,
   OptionOf, ProviderOption

\* Whatever is clicked, every dropdown has options of its own only.
LEMMA ChooseTyped ==
  ASSUME TypeOK, NEW kind \in Kinds, NEW s \in SUBSET (Options(kind) \cup {All})
  PROVE  /\ DOMAIN Choose(kind, s) = Kinds
         /\ \A k \in Kinds : Choose(kind, s)[k] \subseteq Options(k) \cup {All}
<1>1. CASE All \in selected[kind] /\ All \notin s
  BY <1>1 DEF Choose
<1>2. CASE ~(All \in selected[kind] /\ All \notin s)
  <2> DEFINE c == Completed(kind, s)
             Raw(k) == IF k = kind THEN c ELSE Others(kind, c, k)
  <2>1. Choose(kind, s) = [k \in Kinds |-> AddAll(k, Raw(k))]
    BY <1>2 DEF Choose
  <2>2. c \in SUBSET (Options(kind) \cup {All})
    BY CompletedTyped
  <2>3. \A k \in Kinds : Raw(k) \subseteq Options(k) \cup {All}
    <3> HIDE DEF c
    <3> QED
      BY <2>2, OthersTyped
  <2> HIDE DEF c, Raw
  <2> QED
    BY <2>1, <2>3 DEF AddAll
<1> QED
  BY <1>1, <1>2

-----------------------------------------------------------------------------
(* The dropdowns agree. *)

\* Where services have names of their own, those found by key are those of the
\* provider.
LEMMA ServicesByKey ==
  ASSUME Loaded, UniqueKeys("services"), NEW p \in Providers,
         selected["services"] \subseteq Options("services") \cup {All}
  PROVE  ServicesOf(p) = Carried("services", p)
<1> DEFINE keys == KeysIn(Of(Options("services"), p))
<1>1. \A o \in Options("services") : o.key \in keys <=> o.provider = p
  BY OptionsTyped DEF KeysIn, Of, UniqueKeys
<1>2. CASE Chosen(p)
  BY <1>1, <1>2 DEF ServicesOf, Carried, Of
<1>3. CASE ~Chosen(p)
  <2>1. FirstServices(keys) = {o \in Options("services") : o.key \in keys}
    <3>1. \A o, x \in Options("services") : x.key = o.key => o.provider <= x.provider
      <4>1. \A o \in Options("services") : o.provider \in Nat
        BY OptionsTyped, ProvidersAssumption DEF OptionType
      <4>2. \A o \in Options("services") : o.provider <= o.provider
        BY <4>1
      <4> QED
        BY <4>2 DEF UniqueKeys
    <3> QED
      BY <3>1 DEF FirstServices
  <2>2. ServicesOf(p) = FirstServices(keys)
    BY <1>3 DEF ServicesOf
  <2>3. Carried("services", p) = {o \in Options("services") \ {All} : o.provider = p}
    BY <1>3 DEF Carried, Of
  <2> QED
    BY <1>1, <2>1, <2>2, <2>3, OptionsTyped
<1> QED
  BY <1>2, <1>3

\* So are the providers that are found by the keys of services.
LEMMA ProvidersByKey ==
  ASSUME Loaded, UniqueKeys("services"), NEW s \in SUBSET (Options("services") \cup {All})
  PROVE  ProvidersOfServices(s) = ProvidersIn(s)
<1>1. \A x \in Options("services") : x.key \in KeysIn(s) <=> x \in s \ {All}
  BY OptionsTyped DEF KeysIn, UniqueKeys
<1>2. s \ {All} \subseteq Options("services")
  OBVIOUS
<1>3. {x \in Options("services") : x.key \in KeysIn(s)} = s \ {All}
  BY <1>1, <1>2
<1> QED
  BY <1>3 DEF ProvidersOfServices, ProvidersIn

\* Then every dropdown but the clicked one carries over the providers' options,
\* whichever way the code goes.
LEMMA OthersCarry ==
  ASSUME TypeOK, Distinct, NEW clicked \in Kinds, NEW kind \in FieldsOf(page) \ {clicked},
         NEW s \in SUBSET (Options(clicked) \cup {All})
  PROVE  Others(clicked, s, kind) = UNION {Carried(kind, p) : p \in ProvidersIn(s)}
<1>1. Loaded /\ kind # "providers" /\ kind \in Kinds
  BY DEF Loaded, TypeOK, FieldsOf, Kinds
<1>2. CASE page = "emissions" /\ clicked = "accounts"
  <2>1. kind = "services" /\ UniqueKeys("services")
    BY <1>2 DEF FieldsOf, Distinct
  <2>2. selected["services"] \subseteq Options("services") \cup {All}
    BY <1>1, <2>1 DEF TypeOK
  <2>3. \A p \in ProvidersIn(s) : ServicesOf(p) = Carried("services", p)
    BY <1>1, <2>1, <2>2, ServicesByKey, ProvidersTyped
  <2>4. Others(clicked, s, kind) = UNION {ServicesOf(p) : p \in ProvidersIn(s)}
    BY <1>1, <1>2 DEF Others
  <2> QED
    BY <2>1, <2>3, <2>4
<1>3. CASE page = "emissions" /\ clicked = "services"
  <2>1. ProvidersOfServices(s) = ProvidersIn(s)
    BY <1>1, <1>3, ProvidersByKey DEF Distinct
  <2> QED
    BY <1>1, <1>3, <2>1 DEF Others
<1>4. CASE ~(page = "emissions" /\ clicked \in {"accounts", "services"})
  BY <1>1, <1>4 DEF Others
<1> QED
  BY <1>2, <1>3, <1>4

\* What a click leaves of a provider: of the clicked dropdown what is selected
\* there, and of the others what is carried over if the provider is among them.
LEMMA ChooseOf ==
  ASSUME TypeOK, Distinct, NEW kind \in Kinds, NEW s \in SUBSET (Options(kind) \cup {All}),
         ~(All \in selected[kind] /\ All \notin s), NEW p \in Providers
  PROVE  /\ Of(Choose(kind, s)[kind], p) = Of(Completed(kind, s), p)
         /\ \A k \in FieldsOf(page) \ {kind} :
              Of(Choose(kind, s)[k], p) =
                IF p \in ProvidersIn(Completed(kind, s)) THEN Carried(k, p) ELSE {}
         /\ ProviderOption(p) \in Choose(kind, s)["providers"] <=>
              p \in ProvidersIn(Completed(kind, s))
<1> DEFINE c == Completed(kind, s)
           Raw(k) == IF k = kind THEN c ELSE Others(kind, c, k)
<1>1. Choose(kind, s) = [k \in Kinds |-> AddAll(k, Raw(k))]
  BY DEF Choose
<1>2. c \in SUBSET (Options(kind) \cup {All})
  BY CompletedTyped
<1>3. Loaded /\ "providers" \in Kinds /\ FieldsOf(page) \subseteq Kinds
  BY DEF Loaded, TypeOK, Kinds
<1>4. \A k \in Kinds : Of(Choose(kind, s)[k], p) = Of(Raw(k), p)
  <2> HIDE DEF Raw
  <2> QED
    BY <1>1 DEF AddAll, Of
<1> HIDE DEF c
<1>5. ASSUME NEW k \in FieldsOf(page) \ {kind}
      PROVE  Of(Raw(k), p) = IF p \in ProvidersIn(c) THEN Carried(k, p) ELSE {}
  <2>1. Raw(k) = UNION {Carried(k, q) : q \in ProvidersIn(c)}
    BY <1>2, OthersCarry
  <2>2. \A q : \A o \in Carried(k, q) : o # All /\ o.provider = q
    BY DEF Carried, Of
  <2> QED
    BY <2>1, <2>2 DEF Of
<1>6. ProviderOption(p) # All
  BY SpecialAssumption DEF ProviderOption
<1>7. ProviderOption(p) \in Choose(kind, s)["providers"] <=> p \in ProvidersIn(c)
  <2>1. ProviderOption(p) \in Choose(kind, s)["providers"] <=> ProviderOption(p) \in Raw("providers")
    <3> HIDE DEF Raw
    <3> QED
      BY <1>1, <1>3, <1>6 DEF AddAll
  <2>2. CASE kind = "providers"
    <3>1. \A o \in c \ {All} : o = ProviderOption(o.provider)
      BY <1>2, <2>2 DEF Options, OptionsOn, ProviderOption
    <3>2. ProviderOption(p).provider = p
      BY DEF ProviderOption
    <3> QED
      BY <1>6, <2>1, <2>2, <3>1, <3>2 DEF ProvidersIn
  <2>3. CASE kind # "providers"
    <3>1. Raw("providers") = {ProviderOption(q) : q \in ProvidersIn(c)}
      BY <2>3 DEF Others
    <3>2. \A q : ProviderOption(q).provider = q
      BY DEF ProviderOption
    <3> QED
      BY <2>1, <3>1, <3>2
  <2> QED
    BY <2>2, <2>3
<1> QED
  BY <1>3, <1>4, <1>5, <1>7 DEF c

\* After any click a provider is selected exactly if every dropdown that has
\* options of it has one of them selected.
LEMMA ChooseAgrees ==
  ASSUME TypeOK, Distinct, ProvidersAgree, NEW kind \in Kinds,
         NEW s \in SUBSET (Options(kind) \cup {All}),
         NEW k \in FieldsOf(page), NEW p \in Providers
  PROVE  /\ Of(Choose(kind, s)[k], p) # {} => ProviderOption(p) \in Choose(kind, s)["providers"]
         /\ ProviderOption(p) \in Choose(kind, s)["providers"] /\ Of(Options(k), p) # {}
              => Of(Choose(kind, s)[k], p) # {}
<1>1. k \in Kinds /\ "providers" \in Kinds
  BY DEF Kinds
<1>2. CASE All \in selected[kind] /\ All \notin s
  BY <1>1, <1>2 DEF Choose, Of
<1>3. CASE ~(All \in selected[kind] /\ All \notin s)
  <2> DEFINE ps == ProvidersIn(Completed(kind, s))
  <2>1. ProviderOption(p) \in Choose(kind, s)["providers"] <=> p \in ps
    BY <1>3, ChooseOf
  <2>2. CASE k = kind
    <3>1. Of(Choose(kind, s)[k], p) = Of(Completed(kind, s), p)
      BY <1>3, <2>2, ChooseOf
    <3>2. Of(Completed(kind, s), p) # {} <=> p \in ps
      BY DEF Of, ProvidersIn
    <3> QED
      BY <2>1, <3>1, <3>2
  <2>3. CASE k # kind
    <3>1. Of(Choose(kind, s)[k], p) = IF p \in ps THEN Carried(k, p) ELSE {}
      BY <1>3, <2>3, ChooseOf
    <3>2. Of(Options(k), p) # {} => Carried(k, p) # {}
      BY DEF ProvidersAgree, Carried
    <3> QED
      BY <2>1, <3>1, <3>2
  <2> QED
    BY <2>2, <2>3
<1> QED
  BY <1>2, <1>3

\* All options of a dropdown are as many as the dropdown has, and no others are.
LEMMA AllByLength ==
  ASSUME Loaded, NEW kind, NEW s \in SUBSET Options(kind)
  PROVE  Cardinality(s) = Cardinality(Options(kind)) <=> s = Options(kind)
BY OptionsFinite, FS_Subset

\* One more or one less than all options is not as many.
LEMMA NotByLength ==
  ASSUME Loaded, NEW kind
  PROVE  /\ Cardinality(Options(kind) \cup {All}) # Cardinality(Options(kind))
         /\ \A x \in Options(kind) :
              /\ Cardinality((Options(kind) \cup {All}) \ {x}) = Cardinality(Options(kind))
              /\ Cardinality(Options(kind) \ {x}) # Cardinality(Options(kind))
<1> DEFINE T == Options(kind)
           n == Cardinality(T)
<1>1. IsFiniteSet(T) /\ n \in Nat /\ All \notin T
  BY OptionsFinite, FS_CardinalityType, OptionsTyped
<1> HIDE DEF T
<1>2. IsFiniteSet(T \cup {All}) /\ Cardinality(T \cup {All}) = n + 1
  BY <1>1, FS_AddElement
<1>3. ASSUME NEW x \in T
      PROVE  Cardinality((T \cup {All}) \ {x}) = n /\ Cardinality(T \ {x}) = n - 1
  <2>1. Cardinality(T \ {x}) = n - 1
    BY <1>1, FS_RemoveElement
  <2>2. Cardinality((T \cup {All}) \ {x}) = Cardinality(T \cup {All}) - 1
    BY <1>2, FS_RemoveElement
  <2> QED
    BY <1>1, <1>2, <2>1, <2>2
<1> HIDE DEF n
<1>4. n + 1 # n /\ n - 1 # n
  BY <1>1
<1> QED
  BY <1>2, <1>3, <1>4 DEF T, n

\* The option for all comes with all others and goes with any of them.
LEMMA ChooseAll ==
  ASSUME TypeOK, AllMeansAll, NEW kind \in Kinds, NEW option \in Options(kind) \cup {All},
         NEW s \in SUBSET (Options(kind) \cup {All}),
         \/ option \notin selected[kind] /\ s = selected[kind] \cup {option}
         \/ \E o \in selected[kind] : s = selected[kind] \ {o},
         NEW k \in Kinds
  PROVE  /\ All \in Choose(kind, s)[k] => Options(k) \subseteq Choose(kind, s)[k]
         /\ Options(k) # {} /\ Options(k) \subseteq Choose(kind, s)[k] => All \in Choose(kind, s)[k]
<1>1. Loaded
  BY DEF Loaded, TypeOK
<1>2. CASE All \in selected[kind] /\ All \notin s
  BY <1>2 DEF Choose
<1>3. CASE ~(All \in selected[kind] /\ All \notin s) /\ k # kind
  <2> DEFINE t == Others(kind, Completed(kind, s), k)
  <2>1. Choose(kind, s)[k] = AddAll(k, t)
    BY <1>3 DEF Choose
  <2>2. t \in SUBSET Options(k)
    BY <1>3, CompletedTyped, OthersTyped
  <2> HIDE DEF t
  <2>3. Cardinality(t) = Cardinality(Options(k)) <=> t = Options(k)
    BY <1>1, <2>2, AllByLength
  <2>4. All \notin Options(k)
    BY <1>1, OptionsTyped
  <2> QED
    BY <2>1, <2>2, <2>3, <2>4 DEF AddAll
<1>4. CASE ~(All \in selected[kind] /\ All \notin s) /\ k = kind
  <2> DEFINE c == Completed(kind, s)
             T == Options(kind)
  <2>1. Choose(kind, s)[k] = AddAll(kind, c)
    BY <1>4 DEF Choose
  <2>2. All \notin T /\ selected[kind] \subseteq T \cup {All}
    BY <1>1, OptionsTyped DEF TypeOK
  <2>3. CASE All \in selected[kind]
    <3>1. selected[kind] = T \cup {All} /\ All \in s
      BY <1>4, <2>2, <2>3 DEF AllMeansAll
    <3>2. PICK x \in T : s = (T \cup {All}) \ {x}
      BY <2>2, <3>1
    <3>3. c = T \ {x}
      <4>1. Cardinality(s) = Cardinality(T)
        BY <1>1, <3>2, NotByLength
      <4>2. c = s \ {All}
        BY <2>3, <4>1 DEF Completed
      <4> QED
        BY <2>2, <3>2, <4>2
    <3>4. AddAll(kind, c) = T \ {x}
      BY <1>1, <3>3, NotByLength DEF AddAll
    <3> QED
      BY <1>4, <2>1, <2>2, <3>2, <3>4
  <2>4. CASE All \notin selected[kind] /\ (All \in s \/ Cardinality(s) = Cardinality(T))
    <3>1. c = T \cup {All}
      BY <2>4 DEF Completed
    <3>2. AddAll(kind, c) = T \cup {All}
      BY <3>1 DEF AddAll
    <3> QED
      BY <1>4, <2>1, <3>2
  <2>5. CASE All \notin selected[kind] /\ All \notin s /\ Cardinality(s) # Cardinality(T)
    <3>1. c = s
      BY <2>5 DEF Completed
    <3>2. AddAll(kind, c) = s
      BY <2>5, <3>1 DEF AddAll
    <3>3. s # T
      BY <2>5
    <3> QED
      BY <1>4, <2>1, <2>5, <3>2, <3>3
  <2> QED
    BY <2>3, <2>4, <2>5
<1> QED
  BY <1>2, <1>3, <1>4

-----------------------------------------------------------------------------
(* The invariant. *)

\* A complete range of dates is in force.
RangeInForce == IsComplete(dateRange) => timeframe = -1

IInv == TypeOK /\ SelectionsAgree /\ RangeInForce

Opened == Loaded /\ selected = Everything(page) /\ timeframe = 36 /\ dateRange = NoDates

\* A page that has just opened, with everything selected, satisfies it.
LEMMA OpenedIsSound == Opened => IInv
<1> SUFFICES ASSUME Opened PROVE IInv
  OBVIOUS
<1>1. Loaded /\ DOMAIN selected = Kinds /\ \A k \in Kinds : selected[k] = Options(k) \cup {All}
  BY DEF Opened, Everything, Kinds, Options
<1>2. NoDates \in DateRanges /\ ~IsComplete(NoDates)
  BY DEF NoDates, DateRanges, IsComplete
<1>3. TypeOK
  BY <1>1, <1>2, TimeAssumption DEF TypeOK, Opened, Loaded
<1>4. \A k \in FieldsOf(page) : k \in Kinds
  BY DEF Kinds
<1>5. \A p \in Providers : Chosen(p)
  BY <1>1 DEF Chosen, Kinds, Options, OptionsOn
<1>6. ProvidersAgree
  BY <1>1, <1>4, <1>5 DEF ProvidersAgree, Of
<1>7. AllMeansAll
  BY <1>1 DEF AllMeansAll
<1> QED
  BY <1>2, <1>3, <1>6, <1>7 DEF IInv, SelectionsAgree, RangeInForce, Opened

\* The invariant holds at first.
LEMMA InitIsSound == Init => IInv
<1>1. Init => Opened
  BY DEF Init, Opened, Loaded
<1> QED
  BY <1>1, OpenedIsSound

\* No click on an option breaks it.
LEMMA ClickIsSound ==
  ASSUME IInv, NEW kind \in Kinds, NEW option \in Options(kind) \cup {All}, Toggle(kind, option)
  PROVE  IInv'
<1>1. PICK s \in SUBSET (Options(kind) \cup {All}) :
        /\ selected' = Choose(kind, s)
        /\ \/ option \notin selected[kind] /\ s = selected[kind] \cup {option}
           \/ \E o \in selected[kind] : s = selected[kind] \ {o}
  BY ClickChooses DEF IInv
<1>2. /\ UNCHANGED <<data, page, timeframe, dateRange, Kinds, FieldsOf(page), Distinct>>
      /\ \A k : Options(k)' = Options(k)
  BY ClickKeepsPage
<1>3. TypeOK'
  <2>1. /\ DOMAIN selected' = Kinds
        /\ \A k \in Kinds : selected'[k] \subseteq Options(k) \cup {All}
    BY <1>1, ChooseTyped DEF IInv
  <2>2. DateRanges' = DateRanges
    BY DEF DateRanges
  <2> QED
    BY <1>2, <2>1, <2>2 DEF IInv, TypeOK
<1>4. ProvidersAgree'
  <2> SUFFICES ASSUME Distinct, NEW k \in FieldsOf(page), NEW p \in Providers
               PROVE  /\ Of(selected'[k], p) # {} => ProviderOption(p) \in selected'["providers"]
                      /\ ProviderOption(p) \in selected'["providers"] /\ Of(Options(k), p) # {}
                           => Of(selected'[k], p) # {}
    BY <1>2 DEF ProvidersAgree, Chosen, Of, ProviderOption
  <2> QED
    BY <1>1, ChooseAgrees DEF IInv, SelectionsAgree
<1>5. AllMeansAll'
  <2> SUFFICES ASSUME NEW k \in Kinds
               PROVE  /\ All \in selected'[k] => Options(k) \subseteq selected'[k]
                      /\ Options(k) # {} /\ Options(k) \subseteq selected'[k] => All \in selected'[k]
    BY <1>2 DEF AllMeansAll
  <2> QED
    BY <1>1, ChooseAll DEF IInv, SelectionsAgree
<1>6. RangeInForce'
  BY <1>2 DEF IInv, RangeInForce, IsComplete
<1> QED
  BY <1>3, <1>4, <1>5, <1>6 DEF IInv, SelectionsAgree

\* No button or date does: the dropdowns stay.
LEMMA TimeIsSound ==
  ASSUME IInv, UNCHANGED <<data, page, selected>>, timeframe' \in TimeFrames \cup {-1},
         dateRange' \in DateRanges, IsComplete(dateRange') => timeframe' = -1
  PROVE  IInv'
<1>1. \A k : Options(k)' = Options(k)
  BY DEF Options, OptionsOn, RowsOfPage, Having, OptionOf, ProviderOption
<1>2. UNCHANGED <<Kinds, FieldsOf(page), Distinct, DateRanges>>
  BY <1>1 DEF Kinds, FieldsOf, Distinct, UniqueKeys, DateRanges
<1>3. TypeOK'
  BY <1>1, <1>2 DEF IInv, TypeOK
<1>4. ProvidersAgree'
  BY <1>1, <1>2 DEF IInv, SelectionsAgree, ProvidersAgree, Chosen, Of, ProviderOption
<1>5. AllMeansAll'
  BY <1>1, <1>2 DEF IInv, SelectionsAgree, AllMeansAll
<1>6. RangeInForce'
  BY DEF RangeInForce, IsComplete
<1> QED
  BY <1>3, <1>4, <1>5, <1>6 DEF IInv, SelectionsAgree

\* Every step keeps the invariant.
LEMMA NextIsSound ==
  ASSUME IInv, [Next]_vars
  PROVE  IInv'
<1>1. ASSUME NEW kind \in Kinds, NEW option \in Options(kind) \cup {All}, Toggle(kind, option)
      PROVE  IInv'
  BY <1>1, ClickIsSound
<1>2. CASE WithTimeFrame
  <2>1. NoDates \in DateRanges /\ ~IsComplete(NoDates)
    BY DEF NoDates, DateRanges, IsComplete
  <2> QED
    BY <1>2, <2>1, TimeIsSound DEF WithTimeFrame
<1>3. CASE WithDateRange
  BY <1>3, TimeIsSound DEF WithDateRange, IInv, TypeOK
<1>4. CASE Navigate
  <2>1. Opened'
    BY <1>4 DEF Navigate, Opened, Loaded, IInv, TypeOK, Everything, FieldsOf, OptionsOn,
       RowsOfPage, Having, OptionOf, ProviderOption, NoDates
  <2> QED
    BY <2>1, OpenedIsSound, PTL
<1>5. CASE UNCHANGED vars
  BY <1>5, TimeIsSound DEF vars, IInv, TypeOK, RangeInForce
<1> QED
  BY <1>1, <1>2, <1>3, <1>4, <1>5 DEF Next

\* The invariant holds always.
LEMMA Invariance == Spec => []IInv
<1>1. IInv /\ [Next]_vars => IInv'
  BY NextIsSound
<1> QED
  BY <1>1, InitIsSound, PTL DEF Spec

\* A dropdown never has a selection that is not an option of it, and the time
\* is given by one of the two filters.
THEOREM TypeCorrect == Spec => []TypeOK
<1>1. IInv => TypeOK
  BY DEF IInv
<1> QED
  BY <1>1, Invariance, PTL

\* No sequence of clicks, on whatever rows, brings the dropdowns of a page apart.
THEOREM DropdownsAgree == Spec => []SelectionsAgree
<1>1. IInv => SelectionsAgree
  BY DEF IInv
<1> QED
  BY <1>1, Invariance, PTL

-----------------------------------------------------------------------------
(* Clicks are local. *)

\* Of one provider a dropdown of providers has one option.
LEMMA ProvidersOf ==
  ASSUME NEW s \in SUBSET (Options("providers") \cup {All}), NEW p \in Providers
  PROVE  Of(s, p) = IF ProviderOption(p) \in s THEN {ProviderOption(p)} ELSE {}
<1>1. \A o \in s \ {All} : o = ProviderOption(o.provider)
  BY DEF Options, OptionsOn, ProviderOption
<1>2. ProviderOption(p) # All /\ ProviderOption(p).provider = p
  BY SpecialAssumption DEF ProviderOption
<1> QED
  BY <1>1, <1>2 DEF Of

\* Completing a dropdown adds or removes the option for all only.
LEMMA CompletedOf ==
  ASSUME Loaded, NEW kind, NEW s \in SUBSET (Options(kind) \cup {All}),
         All \in s <=> All \in selected[kind], NEW p
  PROVE  Of(Completed(kind, s), p) = Of(s, p)
<1>1. CASE All \notin selected[kind] /\ Cardinality(s) = Cardinality(Options(kind))
  <2>1. s = Options(kind)
    BY <1>1, AllByLength
  <2>2. Completed(kind, s) = Options(kind) \cup {All}
    BY <1>1 DEF Completed
  <2> QED
    BY <2>1, <2>2 DEF Of
<1>2. CASE ~(All \notin selected[kind] /\ Cardinality(s) = Cardinality(Options(kind)))
  BY <1>2 DEF Completed, Of
<1> QED
  BY <1>1, <1>2

\* The other providers keep what was selected of them.
LEMMA OthersKeep ==
  ASSUME IInv, Distinct, NEW kind \in Kinds, UniqueKeys(kind),
         NEW option \in Options(kind), Toggle(kind, option),
         NEW p \in Providers \ {option.provider}, Of(Options(kind), p) # {}, NEW k \in Kinds
  PROVE  Of(selected'[k], p) = Of(selected[k], p)
<1>1. /\ Loaded /\ TypeOK /\ ProvidersAgree
      /\ \A x \in Kinds : selected[x] \subseteq Options(x) \cup {All}
  BY DEF IInv, TypeOK, Loaded, SelectionsAgree
<1>2. option # All /\ option.key # All
  BY <1>1, OptionsTyped, SpecialAssumption DEF OptionType
<1>3. PICK s \in SUBSET (Options(kind) \cup {All}) :
        /\ selected' = Choose(kind, s)
        /\ \/ s = selected[kind] \cup {option}
           \/ \E o \in selected[kind] :
                /\ s = selected[kind] \ {o}
                /\ (IF o = All THEN All ELSE o.key) = (IF option = All THEN All ELSE option.key)
  BY <1>1, ClickChooses
<1>4. s = selected[kind] \cup {option} \/ s = selected[kind] \ {option}
  <2>1. \A o \in selected[kind] :
          (IF o = All THEN All ELSE o.key) = option.key => o = option
    BY <1>1, <1>2 DEF UniqueKeys
  <2> QED
    BY <1>2, <1>3, <2>1
<1>5. Of(s, p) = Of(selected[kind], p) /\ (All \in s <=> All \in selected[kind])
  BY <1>2, <1>4 DEF Of
<1> DEFINE c == Completed(kind, s)
<1>6. Of(c, p) = Of(selected[kind], p)
  BY <1>1, <1>5, CompletedOf
<1>7. p \in ProvidersIn(c) <=> Chosen(p)
  <2>1. p \in ProvidersIn(c) <=> Of(c, p) # {}
    BY DEF Of, ProvidersIn
  <2>2. Of(selected[kind], p) # {} <=> Chosen(p)
    <3>1. CASE kind = "providers"
      BY <1>1, <3>1, ProvidersOf DEF Chosen
    <3>2. CASE kind \in FieldsOf(page)
      BY <1>1, <3>2 DEF ProvidersAgree
    <3> QED
      BY <3>1, <3>2 DEF Kinds
  <2> QED
    BY <1>6, <2>1, <2>2
<1>8. /\ Of(Choose(kind, s)[kind], p) = Of(c, p)
      /\ \A x \in FieldsOf(page) \ {kind} :
           Of(Choose(kind, s)[x], p) = IF p \in ProvidersIn(c) THEN Carried(x, p) ELSE {}
      /\ ProviderOption(p) \in Choose(kind, s)["providers"] <=> p \in ProvidersIn(c)
  BY <1>1, <1>5, ChooseOf
<1>9. CASE k = kind
  BY <1>3, <1>6, <1>8, <1>9
<1>10. CASE k # kind /\ k \in FieldsOf(page)
  <2>1. CASE Chosen(p)
    BY <1>3, <1>7, <1>8, <1>10, <2>1 DEF Carried, Of
  <2>2. CASE ~Chosen(p)
    BY <1>1, <1>3, <1>7, <1>8, <1>10, <2>2 DEF ProvidersAgree
  <2> QED
    BY <2>1, <2>2
<1>11. CASE k = "providers"
  <2>1. /\ Choose(kind, s)["providers"] \in SUBSET (Options("providers") \cup {All})
        /\ selected["providers"] \in SUBSET (Options("providers") \cup {All})
    BY <1>1, <1>11, ChooseTyped
  <2> QED
    BY <1>3, <1>7, <1>8, <1>11, <2>1, ProvidersOf DEF Chosen
<1> QED
  BY <1>9, <1>10, <1>11 DEF Kinds

\* A click on an option changes its provider's selections only, if every other
\* provider has options in the clicked dropdown.
THEOREM ClicksAreLocal == Spec => ClickIsLocal
<1> DEFINE Local == \A kind \in Kinds : \A option \in Options(kind) :
             Toggle(kind, option) /\ Distinct /\ UniqueKeys(kind) =>
               \A p \in Providers \ {option.provider}, k \in Kinds :
                 Of(Options(kind), p) # {} => Of(selected'[k], p) = Of(selected[k], p)
<1>1. IInv => Local
  BY OthersKeep
<1>2. IInv /\ [Next]_vars => [Local]_vars
  BY <1>1
<1> QED
  BY <1>2, Invariance, PTL DEF ClickIsLocal, Spec

-----------------------------------------------------------------------------
(* What is shown is selected. *)

\* A row that a page has is an option of each of its fields.
LEMMA RowIsOption ==
  ASSUME Loaded, NEW row \in RowsOfPage(page), NEW field \in FieldsOf(page) \cap DOMAIN row.name
  PROVE  /\ row \in data /\ row.name[field] \in Names \cup {Null, Blank} /\ row.provider \in Providers
         /\ field \in Kinds /\ field # "providers"
         /\ OptionOf(row, field) \in Options(field) /\ OptionOf(row, field) # All
<1>1. row \in data /\ field # "providers" /\ field \in Kinds
  BY DEF RowsOfPage, Having, FieldsOf, Kinds
<1>2. row.name[field] \in Names \cup {Null, Blank} /\ row.provider \in Providers
  BY <1>1, DataAssumption DEF Loaded, Rows
<1>3. OptionOf(row, field) \in Options(field)
  BY <1>1 DEF Options, OptionsOn, Having
<1> QED
  BY <1>1, <1>2, <1>3, OptionsTyped

\* No option is named by a name that is null or empty.
LEMMA OptionsNamed ==
  ASSUME Loaded, NEW field, field # "providers", NEW o \in Options(field)
  PROVE  o.key # Null /\ o.key # Blank
<1>1. PICK x \in RowsOfPage(page) \cap Having(field) : o = OptionOf(x, field)
  BY DEF Options, OptionsOn
<1>2. x \in data /\ field \in DOMAIN x.name
  BY <1>1 DEF Having
<1>3. x.name[field] \in Names \cup {Null, Blank}
  BY <1>2, DataAssumption DEF Loaded, Rows
<1> QED
  BY <1>1, <1>3, SpecialAssumption DEF OptionOf

\* A row passes a filter if its option is ticked, and only then.
LEMMA PassesIfTicked ==
  ASSUME Loaded, TypeOK, AllMeansAll,
         NEW row \in RowsOfPage(page), NEW field \in FieldsOf(page) \cap DOMAIN row.name
  PROVE  Passes(row, field) <=> Ticked(row, field)
<1> DEFINE own == OptionOf(row, field)
<1> DEFINE name == row.name[field]
<1>1. /\ name \in Names \cup {Null, Blank} /\ field \in Kinds /\ field # "providers"
      /\ own \in Options(field) /\ own # All
  BY RowIsOption
<1>2. own.key = IF name \in {Null, Blank} THEN Unknown ELSE name
  BY DEF OptionOf
<1>3. All \in selected[field] <=> Options(field) \subseteq selected[field]
  BY <1>1 DEF AllMeansAll
<1>4. \A o \in selected[field] \ {All} : o.key # Null /\ o.key # Blank
  <2>1. selected[field] \subseteq Options(field) \cup {All}
    BY <1>1 DEF TypeOK
  <2> QED
    BY <1>1, <2>1, OptionsNamed
<1>5. Passes(row, field) <=>
        \/ All \in selected[field]
        \/ \E o \in selected[field] \ {All} : (o.key = Unknown /\ name = Null /\ field # "types") \/ o.key = name
  BY DEF Passes
<1>6. Nameless(row, field) <=> name = Blank \/ (name = Null /\ field = "types")
  BY DEF Nameless
<1>7. Ticked(row, field) <=>
        IF Nameless(row, field) THEN Options(field) \subseteq selected[field]
        ELSE \E o \in selected[field] \ {All} : o.key = own.key
  BY DEF Ticked
<1>8. Null # Blank /\ Unknown \notin {Null, Blank} /\ Null \notin Names /\ Blank \notin Names
  BY SpecialAssumption
<1> HIDE DEF own, name
<1>9. CASE Nameless(row, field)
  BY <1>3, <1>4, <1>5, <1>6, <1>7, <1>8, <1>9
<1>10. CASE ~Nameless(row, field)
  <2>1. ASSUME Passes(row, field) PROVE \E o \in selected[field] \ {All} : o.key = own.key
    <3>1. CASE All \in selected[field]
      BY <1>1, <1>3, <3>1
    <3>2. ASSUME NEW o \in selected[field] \ {All},
                 (o.key = Unknown /\ name = Null /\ field # "types") \/ o.key = name
          PROVE o.key = own.key
      BY <1>2, <1>4, <3>2
    <3> QED
      BY <1>5, <2>1, <3>1, <3>2
  <2>2. ASSUME NEW o \in selected[field] \ {All}, o.key = own.key PROVE Passes(row, field)
    BY <1>2, <1>5, <1>6, <1>10, <2>2
  <2> QED
    BY <1>7, <1>10, <2>1, <2>2
<1> QED
  BY <1>9, <1>10

\* The age of a row passes the filter of the page of emissions if it is asked
\* for by the range of dates or by the month filter.
LEMMA InTimeIfAsked ==
  ASSUME IInv, NEW row \in data
  PROVE  InTime(row) <=> Asked(row)
<1>1. /\ timeframe \in TimeFrames \cup {-1} /\ data \in DataSets
      /\ dateRange.start \in 0..MaxAge \cup {None} /\ dateRange.end \in 0..MaxAge \cup {None}
      /\ IsComplete(dateRange) => timeframe = -1
  BY DEF IInv, TypeOK, DateRanges, RangeInForce
<1>2. row.age \in 0..MaxAge
  BY <1>1, DataAssumption DEF Rows
<1>3. MaxAge \in Nat /\ None \notin 0..MaxAge /\ TimeFrames \subseteq Nat \ {0}
  BY TimeAssumption
<1>4. IsComplete(dateRange) <=> dateRange.start # None /\ dateRange.end # None
  BY DEF IsComplete
<1>5. CASE IsComplete(dateRange)
  <2>1. dateRange.start \in 0..MaxAge /\ dateRange.end \in 0..MaxAge
    BY <1>1, <1>4, <1>5
  <2> QED
    BY <1>1, <1>2, <1>3, <1>4, <1>5, <2>1 DEF InTime, Asked
<1>6. CASE ~IsComplete(dateRange) /\ timeframe # -1
  <2>1. timeframe \in Nat
    BY <1>1, <1>3, <1>6
  <2> QED
    BY <1>6, <2>1 DEF InTime, Asked
<1>7. CASE ~IsComplete(dateRange) /\ timeframe = -1
  <2>1. CASE dateRange.start = None
    BY <1>2, <1>3, <1>7, <2>1 DEF InTime, Asked
  <2>2. CASE dateRange.start # None
    BY <1>4, <1>7, <2>2 DEF InTime, Asked
  <2> QED
    BY <2>1, <2>2
<1> QED
  BY <1>5, <1>6, <1>7

\* What a page shows are the rows it has that are ticked in all of their fields.
LEMMA ShownAreTicked ==
  ASSUME IInv
  PROVE  Shown = {row \in RowsOfPage(page) :
                    /\ page = "emissions" => Asked(row)
                    /\ \A field \in FieldsOf(page) \cap DOMAIN row.name : Ticked(row, field)}
<1>1. Loaded /\ TypeOK /\ AllMeansAll
  BY DEF IInv, TypeOK, Loaded, SelectionsAgree
<1>2. Shown = {row \in RowsOfPage(page) :
                 /\ page = "emissions" => InTime(row)
                 /\ \A field \in FieldsOf(page) \cap DOMAIN row.name : Passes(row, field)}
  <2>1. CASE page = "emissions"
    <3>1. ASSUME NEW row \in Having("services")
          PROVE  FieldsOf(page) \cap DOMAIN row.name = {"accounts", "services"}
      <4>1. row \in Rows /\ "services" \in DOMAIN row.name
        BY <1>1, DataAssumption DEF Loaded, Having
      <4>2. DOMAIN row.name \in {EstimateFields, RecommendationFields}
        BY <4>1 DEF Rows
      <4> QED
        BY <2>1, <4>1, <4>2 DEF FieldsOf, EstimateFields, RecommendationFields
    <3> QED
      BY <2>1, <3>1 DEF Shown, RowsOfPage
  <2>2. CASE page # "emissions"
    BY <2>2 DEF Shown, RowsOfPage
  <2> QED
    BY <2>1, <2>2
<1>3. \A row \in RowsOfPage(page) : row \in data /\ (InTime(row) <=> Asked(row))
  <2>1. \A row \in RowsOfPage(page) : row \in data
    BY DEF RowsOfPage, Having
  <2> QED
    BY <2>1, InTimeIfAsked
<1>4. \A row \in RowsOfPage(page) : \A field \in FieldsOf(page) \cap DOMAIN row.name :
        Passes(row, field) <=> Ticked(row, field)
  BY <1>1, PassesIfTicked
<1> QED
  BY <1>2, <1>3, <1>4

\* Where options have names of their own, the row's own one is selected, and so
\* is its provider.
LEMMA ShownByOwnOption ==
  ASSUME IInv, NEW row \in Shown, NEW field \in FieldsOf(page) \cap DOMAIN row.name, UniqueKeys(field)
  PROVE  /\ OptionOf(row, field) \in selected[field]
         /\ Distinct => Chosen(row.provider)
<1>1. Loaded /\ TypeOK /\ ProvidersAgree
  BY DEF IInv, TypeOK, Loaded, SelectionsAgree
<1>2. row \in RowsOfPage(page) /\ Ticked(row, field)
  BY ShownAreTicked
<1>3. /\ OptionOf(row, field) \in Options(field) /\ OptionOf(row, field) # All
      /\ field \in Kinds /\ row.provider \in Providers
  BY <1>1, <1>2, RowIsOption
<1>4. selected[field] \subseteq Options(field) \cup {All}
  BY <1>1, <1>3 DEF TypeOK
<1>5. OptionOf(row, field) \in selected[field]
  BY <1>2, <1>3, <1>4 DEF Ticked, UniqueKeys
<1>6. OptionOf(row, field) \in Of(selected[field], row.provider)
  BY <1>3, <1>5 DEF Of, OptionOf
<1> QED
  BY <1>1, <1>3, <1>5, <1>6 DEF ProvidersAgree

\* After any clicks a page shows exactly the rows whose fields are all ticked
\* and, on the page of emissions, whose time is asked for; where names are not
\* shared, their own options and their providers are selected.
THEOREM ShownBySelection == Spec => []ShownIsSelected
<1>1. IInv => ShownIsSelected
  BY ShownAreTicked, ShownByOwnOption DEF ShownIsSelected
<1> QED
  BY <1>1, Invariance, PTL

-----------------------------------------------------------------------------
(***************************************************************************)
(* SeedCache: any calendar, ranges and windows, any number of sessions.    *)
(***************************************************************************)
(***************************************************************************)
(* Lists of estimates.                                                     *)
(***************************************************************************)
\* Each period at most once.
Once(s) == \A i, j \in DOMAIN s : s[i].period = s[j].period => i = j

\* Two lists in a row.
LEMMA TwoLists ==
  ASSUME NEW T, NEW s \in Seq(T), NEW t \in Seq(T)
  PROVE /\ s \o t \in Seq(T)
        /\ Elements(s \o t) = Elements(s) \cup Elements(t)
        /\ PeriodsOf(s \o t) = PeriodsOf(s) \cup PeriodsOf(t)
        /\ Once(s) /\ Once(t) /\ PeriodsOf(s) \cap PeriodsOf(t) = {} => Once(s \o t)
  <1> DEFINE q == s \o t
  <1>1. /\ q \in Seq(T) /\ Len(q) = Len(s) + Len(t) /\ Len(s) \in Nat /\ Len(t) \in Nat
        /\ \A i \in 1..Len(s) : q[i] = s[i]
        /\ \A i \in 1..Len(t) : q[Len(s) + i] = t[i]
    OBVIOUS
  <1>10. DOMAIN s = 1..Len(s) /\ DOMAIN t = 1..Len(t) /\ DOMAIN q = 1..Len(q)
    OBVIOUS
  <1> HIDE DEF q
  <1>2. ASSUME NEW i \in 1..Len(q), i \notin 1..Len(s)
        PROVE i - Len(s) \in 1..Len(t) /\ q[i] = t[i - Len(s)]
    <2> DEFINE k == i - Len(s)
    <2>1. k \in 1..Len(t) /\ Len(s) + k = i
      BY <1>1, <1>2
    <2> HIDE DEF k
    <2>2. q[i] = t[k]
      BY <1>1, <2>1
    <2> QED
      BY <2>1, <2>2 DEF k
  <1>3. ASSUME NEW i \in 1..Len(q)
        PROVE /\ i \in 1..Len(s) => q[i] \in Elements(s)
              /\ i \notin 1..Len(s) => q[i] \in Elements(t)
    BY <1>2, <1>1, <1>10 DEF Elements
  <1>4. ASSUME NEW i \in 1..Len(s) PROVE s[i] \in Elements(q)
    <2>1. i \in 1..Len(q) /\ q[i] = s[i]
      BY <1>1
    <2> QED
      BY <1>10, <2>1 DEF Elements
  <1>5. ASSUME NEW i \in 1..Len(t) PROVE t[i] \in Elements(q)
    <2> DEFINE k == Len(s) + i
    <2>1. k \in 1..Len(q) /\ q[k] = t[i]
      BY <1>1
    <2> HIDE DEF k
    <2> QED
      BY <1>10, <2>1 DEF Elements
  <1>6. Elements(q) = Elements(s) \cup Elements(t)
    <2>1. Elements(q) \subseteq Elements(s) \cup Elements(t)
      BY <1>10, <1>3 DEF Elements
    <2>2. Elements(s) \subseteq Elements(q) /\ Elements(t) \subseteq Elements(q)
      BY <1>10, <1>4, <1>5 DEF Elements
    <2> QED
      BY <2>1, <2>2
  <1>7. PeriodsOf(q) = PeriodsOf(s) \cup PeriodsOf(t)
    BY <1>6 DEF PeriodsOf
  <1>8. ASSUME Once(s), Once(t), PeriodsOf(s) \cap PeriodsOf(t) = {},
               NEW i \in 1..Len(q), NEW j \in 1..Len(q), q[i].period = q[j].period
        PROVE i = j
    <2>1. CASE i \in 1..Len(s) /\ j \in 1..Len(s)
      <3>1. s[i].period = s[j].period
        BY <1>1, <1>8, <2>1
      <3> QED
        BY <1>10, <1>8, <2>1, <3>1 DEF Once
    <2>2. CASE i \in 1..Len(s) /\ j \notin 1..Len(s)
      BY <1>3, <1>8, <2>2 DEF PeriodsOf
    <2>3. CASE i \notin 1..Len(s) /\ j \in 1..Len(s)
      BY <1>3, <1>8, <2>3 DEF PeriodsOf
    <2>4. CASE i \notin 1..Len(s) /\ j \notin 1..Len(s)
      <3>1. /\ i - Len(s) \in 1..Len(t) /\ j - Len(s) \in 1..Len(t)
            /\ t[i - Len(s)].period = t[j - Len(s)].period
        BY <1>2, <1>8, <2>4
      <3>2. i - Len(s) = j - Len(s)
        BY <1>10, <1>8, <3>1 DEF Once
      <3> QED
        BY <1>1, <3>2
    <2> QED
      BY <2>1, <2>2, <2>3, <2>4
  <1>9. Once(s) /\ Once(t) /\ PeriodsOf(s) \cap PeriodsOf(t) = {} => Once(q)
    BY <1>10, <1>8 DEF Once
  <1> QED
    BY <1>1, <1>6, <1>7, <1>9 DEF q

(***************************************************************************)
(* Lists put together to one.                                              *)
(***************************************************************************)
\* The function that FlattenSeq is defined with.
FlatFrom(s, f, m) == f = [n \in 1..m |-> IF n = 1 THEN s[n] ELSE f[n - 1] \o s[n]]

\* Such a function exists, by induction.
LEMMA FlatExists ==
  ASSUME NEW s, NEW m \in Nat
  PROVE \E f : FlatFrom(s, f, m)
  <1> DEFINE good == {k \in Nat : \E f : FlatFrom(s, f, k)}
  <1>1. 0 \in good
    <2> DEFINE f == [n \in 1..0 |-> <<>>]
    <2>1. FlatFrom(s, f, 0)
      BY DEF FlatFrom
    <2> QED
      BY <2>1
  <1>2. ASSUME NEW k \in Nat, k \in good PROVE k + 1 \in good
    <2>1. PICK f : FlatFrom(s, f, k)
      BY <1>2
    <2> DEFINE g == [n \in 1..k + 1 |->
                       IF n = k + 1 THEN IF n = 1 THEN s[n] ELSE f[k] \o s[n] ELSE f[n]]
    <2> DEFINE h == [n \in 1..k + 1 |-> IF n = 1 THEN s[n] ELSE g[n - 1] \o s[n]]
    <2>2. ASSUME NEW n \in 1..k + 1 PROVE g[n] = h[n]
      <3>1. CASE n = k + 1 /\ n = 1
        BY <3>1
      <3>2. CASE n = k + 1 /\ n # 1
        <4>1. n - 1 = k /\ k \in 1..k + 1 /\ k # k + 1
          BY <3>2
        <4>2. g[k] = f[k]
          BY <4>1
        <4>3. g[n] = f[k] \o s[n] /\ h[n] = g[k] \o s[n]
          BY <3>2, <4>1
        <4> QED
          BY <4>2, <4>3
      <3>3. CASE n # k + 1
        <4>1. n \in 1..k
          BY <3>3
        <4>2. g[n] = f[n] /\ f[n] = IF n = 1 THEN s[n] ELSE f[n - 1] \o s[n]
          BY <2>1, <3>3, <4>1 DEF FlatFrom
        <4>3. n # 1 => g[n - 1] = f[n - 1]
          BY <4>1
        <4> HIDE DEF g
        <4> QED
          BY <4>2, <4>3
      <3> QED
        BY <3>1, <3>2, <3>3
    <2>3. g = h
      BY <2>2
    <2>4. FlatFrom(s, g, k + 1)
      BY <2>3 DEF FlatFrom
    <2> HIDE DEF g
    <2> QED
      BY <2>4
  <1> HIDE DEF good
  <1>3. Nat \subseteq good
    BY <1>1, <1>2, Induction
  <1> QED
    BY <1>3 DEF good

\* FlattenSeq is its last value.
LEMMA FlatTaken ==
  ASSUME NEW s, Len(s) \in Nat, Len(s) # 0
  PROVE \E f : FlatFrom(s, f, Len(s)) /\ FlattenSeq(s) = f[Len(s)]
  <1> DEFINE F == CHOOSE f : FlatFrom(s, f, Len(s))
  <1>1. FlatFrom(s, F, Len(s))
    BY FlatExists
  <1>2. FlattenSeq(s) = F[Len(s)]
    BY DEF FlattenSeq, FlatFrom
  <1> QED
    BY <1>1, <1>2

\* What all of the first n parts have.
AllOf(s, n) == UNION {Elements(s[k]) : k \in 1..n}

\* Parts that share no period, each of which has none twice.
Apart(s) ==
  /\ \A k \in DOMAIN s : Once(s[k])
  /\ \A k, l \in DOMAIN s : k # l => PeriodsOf(s[k]) \cap PeriodsOf(s[l]) = {}

\* Such parts put together have what the parts have, and no period twice.
LEMMA Flattened ==
  ASSUME NEW T, NEW s \in Seq(Seq(T)), Len(s) # 0, Apart(s)
  PROVE /\ FlattenSeq(s) \in Seq(T)
        /\ Elements(FlattenSeq(s)) = AllOf(s, Len(s))
        /\ Once(FlattenSeq(s))
  <1> DEFINE m == Len(s)
  <1>0. m \in Nat /\ m # 0
    OBVIOUS
  <1>1. DOMAIN s = 1..m /\ \A k \in 1..m : s[k] \in Seq(T)
    OBVIOUS
  <1>2. PICK f : FlatFrom(s, f, m) /\ FlattenSeq(s) = f[m]
    BY <1>0, FlatTaken
  <1> HIDE DEF m
  <1>3. \A n \in 1..m : f[n] = IF n = 1 THEN s[n] ELSE f[n - 1] \o s[n]
    BY <1>2 DEF FlatFrom
  <1> DEFINE Good(n) == f[n] \in Seq(T) /\ Elements(f[n]) = AllOf(s, n) /\ Once(f[n])
  <1> DEFINE good == {n \in Nat : n \in 1..m => Good(n)}
  <1>4. 0 \in good
    OBVIOUS
  <1>5. ASSUME NEW n \in Nat, n \in good, n + 1 \in 1..m PROVE Good(n + 1)
    <2>a. PICK k \in 1..m : k = n + 1
      BY <1>5
    <2>b. Once(s[k])
      BY <1>1 DEF Apart
    <2>0. k \in 1..m /\ k - 1 = n /\ s[k] \in Seq(T) /\ Once(s[k])
      BY <1>1, <2>a, <2>b
    <2> SUFFICES Good(k)
      BY <2>a
    <2>1. CASE n = 0
      <3>1. f[k] = s[k] /\ k = 1
        BY <1>3, <2>0, <2>1
      <3>2. AllOf(s, 1) = Elements(s[1])
        BY DEF AllOf
      <3> QED
        BY <2>0, <3>1, <3>2
    <2>2. CASE n # 0
      <3>1. n \in 1..m /\ k # 1
        BY <1>0, <2>0, <2>2
      <3>2. Good(n)
        BY <1>5, <3>1
      <3>3. f[k] = f[n] \o s[k]
        BY <1>3, <2>0, <3>1
      <3>4. PeriodsOf(f[n]) \cap PeriodsOf(s[k]) = {}
        <4>1. ASSUME NEW e \in Elements(f[n]), NEW d \in Elements(s[k]), e.period = d.period PROVE FALSE
          <5>1. PICK l \in 1..n : e \in Elements(s[l])
            BY <3>2, <4>1 DEF AllOf
          <5>2. l \in 1..m /\ l # k
            BY <1>0, <2>0, <3>1
          <5>3. PeriodsOf(s[l]) \cap PeriodsOf(s[k]) = {}
            BY <1>1, <2>0, <5>2 DEF Apart
          <5> QED
            BY <4>1, <5>1, <5>3 DEF PeriodsOf
        <4> QED
          BY <4>1 DEF PeriodsOf
      <3>5. /\ f[k] \in Seq(T) /\ Elements(f[k]) = Elements(f[n]) \cup Elements(s[k])
            /\ Once(f[k])
        BY <2>0, <3>2, <3>3, <3>4, TwoLists
      <3>6. AllOf(s, k) = AllOf(s, n) \cup Elements(s[k])
        <4>1. 1..k = 1..n \cup {k}
          BY <2>0, <3>1
        <4> QED
          BY <4>1 DEF AllOf
      <3> QED
        BY <3>2, <3>5, <3>6
    <2> QED
      BY <2>1, <2>2
  <1>6. \A n \in Nat : n \in good => n + 1 \in good
    BY <1>5
  <1> HIDE DEF good
  <1>7. Nat \subseteq good
    BY <1>4, <1>6, Induction
  <1>8. m \in good /\ m \in 1..m
    BY <1>0, <1>7
  <1> QED
    BY <1>2, <1>8 DEF good, m

(***************************************************************************)
(* The calendar.                                                           *)
(***************************************************************************)
LEMMA Calendar ==
  /\ NDays \in Nat /\ 1 \in MonthStarts
  /\ \A m \in MonthStarts : m \in Nat /\ 1 <= m /\ m <= NDays
  /\ \A d \in Days : d \in Nat /\ 1 <= d /\ d <= NDays
  /\ 1 \in Days
  BY CalendarAssumption DEF Days

\* A set of numbers up to a bound has a largest one.
LEMMA LargestIs ==
  ASSUME NEW n \in Nat, NEW S \in SUBSET (0..n), S # {}
  PROVE Largest(S) \in S /\ \A y \in S : y <= Largest(S)
  <1> DEFINE good == {k \in Nat : \A T \in SUBSET (0..k) : T # {} => \E x \in T : \A y \in T : y <= x}
  <1>1. 0 \in good
    <2>1. ASSUME NEW T \in SUBSET (0..0), T # {} PROVE \E x \in T : \A y \in T : y <= x
      <3>1. 0..0 = {0}
        OBVIOUS
      <3>2. T = {0}
        BY <2>1, <3>1
      <3> QED
        BY <3>2
    <2> QED
      BY <2>1
  <1>2. ASSUME NEW k \in Nat, k \in good PROVE k + 1 \in good
    <2>1. ASSUME NEW T \in SUBSET (0..k + 1), T # {} PROVE \E x \in T : \A y \in T : y <= x
      <3>1. CASE k + 1 \in T
        BY <2>1, <3>1
      <3>2. CASE k + 1 \notin T
        <4>1. T \in SUBSET (0..k)
          BY <3>2
        <4> QED
          BY <1>2, <2>1, <4>1
      <3> QED
        BY <3>1, <3>2
    <2> QED
      BY <2>1
  <1> HIDE DEF good
  <1>3. Nat \subseteq good
    BY <1>1, <1>2, Induction
  <1>4. \E x \in S : \A y \in S : y <= x
    BY <1>3 DEF good
  <1> QED
    BY <1>4 DEF Largest

\* A set of numbers has a smallest one.
LEMMA SmallestIs ==
  ASSUME NEW S \in SUBSET Nat, S # {}
  PROVE Smallest(S) \in S /\ \A y \in S : Smallest(S) <= y
  <1> DEFINE good == {k \in Nat : \A T \in SUBSET Nat : (\E x \in T : x <= k) => \E x \in T : \A y \in T : x <= y}
  <1>1. 0 \in good
    <2>1. ASSUME NEW T \in SUBSET Nat, NEW x \in T, x <= 0 PROVE \E z \in T : \A y \in T : z <= y
      <3>1. x = 0
        BY <2>1
      <3> QED
        BY <3>1
    <2> QED
      BY <2>1
  <1>2. ASSUME NEW k \in Nat, k \in good PROVE k + 1 \in good
    <2>1. ASSUME NEW T \in SUBSET Nat, NEW x \in T, x <= k + 1 PROVE \E z \in T : \A y \in T : z <= y
      <3>1. CASE \E z \in T : z <= k
        BY <1>2, <3>1
      <3>2. CASE \A z \in T : ~(z <= k)
        <4>1. \A z \in T : k + 1 <= z
          BY <3>2
        <4>2. x = k + 1
          BY <2>1, <4>1
        <4> QED
          BY <4>1, <4>2
      <3> QED
        BY <3>1, <3>2
    <2> QED
      BY <2>1
  <1> HIDE DEF good
  <1>3. Nat \subseteq good
    BY <1>1, <1>2, Induction
  <1>4. PICK k \in S : TRUE
    OBVIOUS
  <1>5. \E x \in S : \A y \in S : x <= y
    <2>1. k \in Nat /\ k <= k /\ k \in good
      BY <1>3, <1>4
    <2> HIDE <1>4
    <2>2. \E x \in S : x <= k
      BY <1>4, <2>1
    <2> QED
      BY <2>1, <2>2 DEF good
  <1> QED
    BY <1>5 DEF Smallest

\* The month a day is in, and the next one.
LEMMA Months ==
  ASSUME NEW d \in Nat, 1 <= d
  PROVE LET first == Largest({m \in MonthStarts : m <= d})
        IN  /\ first \in MonthStarts /\ first <= d
            /\ \A m \in MonthStarts : m <= d => m <= first
  <1> DEFINE S == {m \in MonthStarts : m <= d}
  <1>1. S \in SUBSET (0..d) /\ S # {}
    BY Calendar
  <1> HIDE DEF S
  <1>2. Largest(S) \in S /\ \A y \in S : y <= Largest(S)
    BY <1>1, LargestIs
  <1> QED
    BY <1>2 DEF S

\* The month after the one that a day is in begins after it, and none in between.
LEMMA MonthAfter ==
  ASSUME NEW d \in Days
  PROVE /\ NextMonth(d) \in MonthStarts \cup {NDays + 1} /\ NextMonth(d) \in Nat /\ d < NextMonth(d)
        /\ \A m \in MonthStarts : d < m => NextMonth(d) <= m
        /\ NextMonth(d) <= NDays + 1
  <1> DEFINE S == {m \in MonthStarts \cup {NDays + 1} : m > d}
  <1>1. S \in SUBSET Nat /\ NDays + 1 \in S
    BY Calendar
  <1>2. \A m \in S : m \in MonthStarts \cup {NDays + 1} /\ m > d
    OBVIOUS
  <1>3. \A m \in MonthStarts : d < m => m \in S
    BY Calendar
  <1> HIDE DEF S
  <1>4. Smallest(S) \in S /\ \A y \in S : Smallest(S) <= y
    BY <1>1, SmallestIs
  <1>5. NextMonth(d) = Smallest(S)
    BY DEF NextMonth, S
  <1> QED
    BY <1>1, <1>2, <1>3, <1>4, <1>5, Calendar

\* A period begins no later than its days, and with itself.
LEMMA StartFacts ==
  ASSUME grouping \in Groupings, NEW d \in Nat, 1 <= d
  PROVE /\ StartOf(d) \in Nat /\ 1 <= StartOf(d) /\ StartOf(d) <= d
        /\ StartOf(StartOf(d)) = StartOf(d)
  <1>1. grouping \in {"day", "week", "month"}
    BY CalendarAssumption
  <1>2. CASE grouping = "day"
    BY <1>2 DEF StartOf
  <1>3. CASE grouping = "week"
    <2> DEFINE x == (d - 1) % 7
    <2>1. x \in 0..6 /\ x <= d - 1
      OBVIOUS
    <2>2. (d - x - 1) % 7 = 0
      OBVIOUS
    <2>3. StartOf(d) = d - x
      BY <1>3 DEF StartOf
    <2>4. StartOf(d - x) = (d - x) - ((d - x - 1) % 7)
      BY <1>3 DEF StartOf
    <2> HIDE DEF x
    <2> QED
      BY <2>1, <2>2, <2>3, <2>4
  <1>4. CASE grouping = "month"
    <2> DEFINE first == Largest({m \in MonthStarts : m <= d})
    <2> DEFINE again == Largest({m \in MonthStarts : m <= first})
    <2>1. first \in MonthStarts /\ first <= d /\ first \in Nat /\ 1 <= first
      BY Months, Calendar
    <2>2. StartOf(d) = first /\ StartOf(first) = again
      BY <1>4 DEF StartOf
    <2>3. again \in MonthStarts /\ again <= first /\ \A m \in MonthStarts : m <= first => m <= again
      <3> HIDE DEF first
      <3> QED
        BY <2>1, Months
    <2> HIDE DEF first, again
    <2>4. again = first
      BY <2>1, <2>3, Calendar
    <2> QED
      BY <2>1, <2>2, <2>4
  <1> QED
    BY <1>1, <1>2, <1>3, <1>4

\* Its days are those up to the next one, of which the request has all but a Sunday.
LEMMA PeriodFacts ==
  ASSUME grouping \in Groupings, NEW p \in Days, StartOf(p) = p
  PROVE /\ Following(p) \in Nat /\ p < Following(p)
        /\ \A d \in Days : StartOf(d) = p <=> p <= d /\ d < Following(p)
        /\ EndOf(p) = Following(p) - (IF grouping = "week" THEN 2 ELSE 1)
        /\ EndOf(p) \in Nat /\ p <= EndOf(p)
        /\ grouping = "week" => Following(p) = p + 7
  <1>0. p \in Nat /\ 1 <= p /\ p <= NDays /\ NDays \in Nat
    BY Calendar
  <1>1. grouping \in {"day", "week", "month"}
    BY CalendarAssumption
  <1>2. CASE grouping = "day"
    BY <1>0, <1>2, Calendar DEF StartOf, Following, EndOf
  <1>3. CASE grouping = "week"
    <2>1. (p - 1) % 7 = 0
      BY <1>0, <1>3 DEF StartOf
    <2>2. p % 7 = 1
      BY <1>0, <2>1
    <2>3. Following(p) = p + 7 /\ EndOf(p) = p + 5
      BY <1>0, <1>3, <2>2 DEF Following, EndOf
    <2>4. ASSUME NEW d \in Days PROVE StartOf(d) = p <=> p <= d /\ d < p + 7
      <3>1. d \in Nat /\ 1 <= d
        BY Calendar
      <3>2. StartOf(d) = d - ((d - 1) % 7)
        BY <1>3 DEF StartOf
      <3>3. d - ((d - 1) % 7) = p <=> p <= d /\ d < p + 7
        BY <1>0, <2>1, <3>1
      <3> QED
        BY <3>2, <3>3
    <2> QED
      BY <1>0, <1>3, <2>3, <2>4
  <1>4. CASE grouping = "month"
    <2> DEFINE after == NextMonth(p)
    <2>1. after \in Nat /\ p < after /\ (\A m \in MonthStarts : p < m => after <= m) /\ after \in MonthStarts \cup {NDays + 1}
      BY MonthAfter
    <2>2. Following(p) = after /\ EndOf(p) = after - 1
      BY <1>4 DEF Following, EndOf
    <2> HIDE DEF after
    <2>3. p \in MonthStarts
      BY <1>0, <1>4, Months DEF StartOf
    <2>4. ASSUME NEW d \in Days PROVE StartOf(d) = p <=> p <= d /\ d < after
      <3> DEFINE first == Largest({m \in MonthStarts : m <= d})
      <3>1. d \in Nat /\ 1 <= d /\ d <= NDays
        BY Calendar
      <3>2. first \in MonthStarts /\ first <= d /\ \A m \in MonthStarts : m <= d => m <= first
        BY <3>1, Months
      <3>3. StartOf(d) = first
        BY <1>4 DEF StartOf
      <3> HIDE DEF first
      <3>4. first \in Nat
        BY <3>2, Calendar
      <3>5. first = p => p <= d /\ d < after
        BY <1>0, <2>1, <3>1, <3>2
      <3>6. p <= d /\ d < after => first = p
        BY <1>0, <2>1, <2>3, <3>1, <3>2, <3>4
      <3> QED
        BY <3>3, <3>5, <3>6
    <2> QED
      BY <1>0, <1>4, <2>1, <2>2, <2>4
  <1> QED
    BY <1>1, <1>2, <1>3, <1>4

\* Of two periods one is over before the other begins.
LEMMA PeriodsApart ==
  ASSUME grouping \in Groupings, NEW p \in Days, StartOf(p) = p, NEW q \in Days, StartOf(q) = q, p < q
  PROVE Following(p) <= q
  <1>1. /\ Following(p) \in Nat
        /\ \A d \in Days : StartOf(d) = p <=> p <= d /\ d < Following(p)
    BY PeriodFacts
  <1>2. p \in Nat /\ q \in Nat
    BY Calendar
  <1> QED
    BY <1>1, <1>2

(***************************************************************************)
(* The missing periods and the requests for them.                          *)
(***************************************************************************)
\* The missing dates are first days of periods, none of them in the future.
DatesMissed ==
  /\ grouping \in Groupings
  /\ today \in Days
  /\ \A d \in missing : d \in Days /\ StartOf(d) = d /\ d <= today

\* What the calendar says of missing periods.
LEMMA Missed ==
  ASSUME DatesMissed
  PROVE /\ today \in Nat /\ 1 <= today /\ today <= NDays
        /\ missing \in SUBSET (0..NDays) /\ missing \in SUBSET Nat
        /\ \A p \in missing : /\ p \in Nat /\ 1 <= p /\ p <= today /\ p \in Days /\ StartOf(p) = p
                              /\ Following(p) \in Nat /\ p < Following(p)
                              /\ EndOf(p) \in Nat /\ p <= EndOf(p) /\ EndOf(p) < Following(p)
        /\ \A p, q \in missing : p < q => Following(p) <= q
  <1>1. today \in Nat /\ 1 <= today /\ today <= NDays /\ NDays \in Nat
    BY Calendar DEF DatesMissed
  <1>2. ASSUME NEW p \in missing
        PROVE /\ p \in Nat /\ 1 <= p /\ p <= today /\ p \in Days /\ StartOf(p) = p
              /\ Following(p) \in Nat /\ p < Following(p)
              /\ EndOf(p) \in Nat /\ p <= EndOf(p) /\ EndOf(p) < Following(p)
    <2>1. p \in Days /\ StartOf(p) = p /\ p <= today /\ grouping \in Groupings
      BY DEF DatesMissed
    <2>2. /\ Following(p) \in Nat /\ p < Following(p) /\ EndOf(p) \in Nat /\ p <= EndOf(p)
          /\ EndOf(p) = Following(p) - (IF grouping = "week" THEN 2 ELSE 1)
      BY <2>1, PeriodFacts
    <2> QED
      BY <2>1, <2>2, Calendar
  <1>3. ASSUME NEW p \in missing, NEW q \in missing, p < q PROVE Following(p) <= q
    BY <1>2, <1>3, PeriodsApart DEF DatesMissed
  <1> QED
    BY <1>1, <1>2, <1>3

\* Within a run of missing periods, each later one follows a missing one.
LEMMA Predecessor ==
  ASSUME DatesMissed, NEW p \in missing, NEW x \in Days, StartOf(x) = x, p < x,
         \A d \in missing : d \in p..x - 1 => Following(d) \in missing
  PROVE x \in missing /\ \E y \in missing : p <= y /\ Following(y) = x
  <1> DEFINE S == {d \in missing : p <= d /\ d < x}
  <1>1. S \in SUBSET (0..NDays) /\ p \in S /\ NDays \in Nat
    BY Missed, Calendar
  <1>2. \A d \in S : d \in missing /\ p <= d /\ d < x
    OBVIOUS
  <1>3. \A d \in missing : p <= d /\ d < x => d \in S
    OBVIOUS
  <1> DEFINE y == Largest(S)
  <1> HIDE DEF S
  <1>4. y \in S /\ \A d \in S : d <= y
    BY <1>1, LargestIs
  <1> HIDE DEF y
  <1>5. y \in missing /\ p <= y /\ y < x /\ y \in Nat /\ Following(y) \in Nat /\ y < Following(y)
    BY <1>2, <1>4, Missed
  <1>6. x \in Nat /\ p \in Nat
    BY Missed, Calendar
  <1>7. Following(y) \in missing
    BY <1>5, <1>6
  <1>8. Following(y) <= x
    BY <1>5, Missed, PeriodsApart DEF DatesMissed
  <1>9. ~(Following(y) < x)
    BY <1>3, <1>4, <1>5, <1>6, <1>7
  <1>10. Following(y) = x
    BY <1>5, <1>6, <1>8, <1>9
  <1> QED
    BY <1>5, <1>7, <1>10

\* All periods of a group are missing.
LEMMA GroupMissing ==
  ASSUME DatesMissed, NEW p \in missing, NEW q \in missing, Group(p, q),
         NEW x \in Days, StartOf(x) = x, p <= x, x <= q
  PROVE x \in missing
  <1>1. x \in Nat /\ p \in Nat /\ q \in Nat
    BY Missed, Calendar
  <1>2. CASE x = p
    BY <1>2
  <1>3. CASE p < x
    <2>1. \A d \in missing : d \in p..x - 1 => Following(d) \in missing
      <3>1. \A d \in missing : d \in p..x - 1 => d \in p..q - 1
        BY <1>1
      <3> QED
        BY <3>1 DEF Group
    <2> QED
      BY <1>3, <2>1, Predecessor
  <1> QED
    BY <1>1, <1>2, <1>3

\* Two groups are one, or one is over before the other begins.
LEMMA GroupsApart ==
  ASSUME DatesMissed, NEW p \in missing, NEW q \in missing, Group(p, q),
         NEW p2 \in missing, NEW q2 \in missing, Group(p2, q2)
  PROVE (p = p2 /\ q = q2) \/ q < p2 \/ q2 < p
  <1>0. p \in Nat /\ q \in Nat /\ p2 \in Nat /\ q2 \in Nat
    BY Missed
  <1>1. ASSUME NEW a \in missing, NEW b \in missing, Group(a, b),
               NEW c \in missing, NEW d \in missing, Group(c, d), a < c
        PROVE b < c
    <2>0. a \in Nat /\ b \in Nat /\ c \in Nat /\ d \in Nat /\ c \in Days /\ StartOf(c) = c
      BY Missed
    <2> SUFFICES ASSUME c <= b PROVE FALSE
      BY <2>0
    <2>1. \A e \in missing : e \in a..c - 1 => Following(e) \in missing
      <3>1. \A e \in missing : e \in a..c - 1 => e \in a..b - 1
        BY <2>0
      <3> QED
        BY <1>1, <3>1 DEF Group
    <2>2. \E y \in missing : Following(y) = c
      BY <1>1, <2>0, <2>1, Predecessor
    <2> QED
      BY <1>1, <2>2 DEF Group
  <1>2. ASSUME NEW a \in missing, NEW b \in missing, Group(a, b),
               NEW d \in missing, Group(a, d)
        PROVE ~(b < d)
    <2>0. a \in Nat /\ b \in Nat /\ d \in Nat
      BY Missed
    <2> SUFFICES ASSUME b < d PROVE FALSE
      OBVIOUS
    <2>1. b \in a..d - 1
      BY <1>2, <2>0 DEF Group
    <2> QED
      BY <1>2, <2>1 DEF Group
  <1>3. p = p2 => ~(q < q2) /\ ~(q2 < q)
    BY <1>2
  <1> QED
    BY <1>0, <1>1, <1>3

\* Each missing period is in a group.
LEMMA InGroup ==
  ASSUME DatesMissed, NEW x \in missing
  PROVE \E p, q \in missing : Group(p, q) /\ p <= x /\ x <= q
  <1>0. x \in Nat /\ NDays \in Nat
    BY Missed, Calendar
  <1> DEFINE P == {p \in missing : p <= x /\ \A d \in missing : d \in p..x - 1 => Following(d) \in missing}
  <1> DEFINE Q == {q \in missing : x <= q /\ \A d \in missing : d \in x..q - 1 => Following(d) \in missing}
  <1> DEFINE p == Smallest(P)
  <1> DEFINE q == Largest(Q)
  <1>1. x \in P /\ x \in Q
    BY <1>0
  <1>2. P \in SUBSET Nat /\ Q \in SUBSET (0..NDays)
    BY Missed
  <1>3. \A d \in missing : /\ d \in P <=> d <= x /\ \A e \in missing : e \in d..x - 1 => Following(e) \in missing
                           /\ d \in Q <=> x <= d /\ \A e \in missing : e \in x..d - 1 => Following(e) \in missing
    OBVIOUS
  <1>3a. P \subseteq missing /\ Q \subseteq missing
    OBVIOUS
  <1> HIDE DEF P, Q
  <1>4. p \in P /\ \A d \in P : p <= d
    BY <1>1, <1>2, SmallestIs
  <1>5. q \in Q /\ \A d \in Q : d <= q
    BY <1>0, <1>1, <1>2, LargestIs
  <1> HIDE DEF p, q
  <1>6. /\ p \in missing /\ p <= x /\ p \in Nat
        /\ \A d \in missing : d \in p..x - 1 => Following(d) \in missing
    BY <1>3, <1>3a, <1>4, Missed
  <1>7. /\ q \in missing /\ x <= q /\ q \in Nat
        /\ \A d \in missing : d \in x..q - 1 => Following(d) \in missing
    BY <1>3, <1>3a, <1>5, Missed
  <1>8. ASSUME NEW d \in missing, Following(d) = p PROVE FALSE
    <2>1. d \in Nat /\ d < p
      BY <1>8, Missed
    <2>2. ASSUME NEW e \in missing, e \in d..x - 1 PROVE Following(e) \in missing
      <3>1. CASE e = d
        BY <1>6, <1>8, <3>1
      <3>2. CASE e # d
        <4>1. e \in Nat /\ d < e /\ p <= e
          BY <1>8, <2>1, <2>2, <3>2, Missed
        <4> QED
          BY <1>0, <1>6, <2>2, <4>1
      <3> QED
        BY <3>1, <3>2
    <2>3. d \in P
      BY <1>0, <1>3, <1>6, <2>1, <2>2
    <2> QED
      BY <1>4, <1>6, <2>1, <2>3
  <1>9. ASSUME Following(q) \in missing PROVE FALSE
    <2> DEFINE f == Following(q)
    <2>1. f \in Nat /\ q < f
      BY <1>7, Missed
    <2>2. ASSUME NEW e \in missing, e \in x..f - 1 PROVE Following(e) \in missing
      <3>1. CASE e = q
        BY <1>9, <3>1
      <3>2. CASE e < q
        BY <1>0, <1>7, <2>2, <3>2
      <3>3. CASE q < e
        <4>1. f <= e /\ e \in Nat
          BY <1>7, <3>3, Missed
        <4> QED
          BY <1>0, <2>1, <2>2, <4>1
      <3> QED
        BY <1>0, <1>7, <2>1, <2>2, <3>1, <3>2, <3>3
    <2>3. f \in Q
      BY <1>0, <1>3, <1>7, <1>9, <2>1, <2>2
    <2> QED
      BY <1>5, <1>7, <2>1, <2>3
  <1>10. \A d \in missing : d \in p..q - 1 => d \in p..x - 1 \/ d \in x..q - 1
    BY <1>0, <1>6, <1>7
  <1>11. Group(p, q)
    BY <1>0, <1>6, <1>7, <1>8, <1>9, <1>10 DEF Group
  <1> QED
    BY <1>6, <1>7, <1>11

(***************************************************************************)
(* What a request for a group is answered with.                            *)
(***************************************************************************)
\* The days of an estimate that were over when it was made.
Over(e) == {d \in InPeriod(e.period) : d < e.on}

\* All of them are in the estimate, a Sunday excepted that no request is for.
IsWhole(e) == e.days = {d \in Over(e) : ~IsLost(d, e.period)}

\* The request for the group from p to q.
RequestFor(p, q) == [from |-> p, to |-> EndOf(q)]

\* Its results are about the periods of the group.
LEMMA ReportedPeriods ==
  ASSUME DatesMissed, NEW p \in missing, NEW q \in missing, Group(p, q)
  PROVE {StartOf(d) : d \in Reported(RequestFor(p, q))} = {x \in missing : p <= x /\ x <= q}
  <1> DEFINE r == RequestFor(p, q)
  <1> DEFINE R == Reported(r)
  <1>0. /\ p \in Nat /\ q \in Nat /\ 1 <= p /\ EndOf(q) \in Nat /\ q <= EndOf(q) /\ EndOf(q) < Following(q)
        /\ Following(q) \in Nat /\ today \in Nat /\ today <= NDays /\ NDays \in Nat
    BY Missed, Calendar
  <1>1. \A d : d \in R <=> d \in p..EndOf(q) /\ d <= today
    BY DEF Reported, RequestFor
  <1> HIDE DEF R
  <1>2. ASSUME NEW d \in R PROVE StartOf(d) \in missing /\ p <= StartOf(d) /\ StartOf(d) <= q
    <2> DEFINE s == StartOf(d)
    <2>1. d \in Nat /\ 1 <= d /\ p <= d /\ d <= EndOf(q) /\ d \in Days
      BY <1>0, <1>1 DEF Days
    <2>2. s \in Nat /\ 1 <= s /\ s <= d /\ StartOf(s) = s
      BY <2>1, StartFacts DEF DatesMissed
    <2>3. s \in Days
      BY <1>0, <1>1, <2>1, <2>2 DEF Days
    <2>4. /\ Following(s) \in Nat
          /\ \A e \in Days : StartOf(e) = s <=> s <= e /\ e < Following(s)
      BY <2>2, <2>3, PeriodFacts DEF DatesMissed
    <2>5. d < Following(s)
      BY <2>1, <2>4
    <2>6. p \in Days /\ StartOf(p) = p /\ q \in Days /\ StartOf(q) = q /\ grouping \in Groupings
      BY DEF DatesMissed
    <2> HIDE DEF s
    <2>7. ~(s < p)
      <3> SUFFICES ASSUME s < p PROVE FALSE
        OBVIOUS
      <3>1. Following(s) <= p
        BY <2>2, <2>3, <2>6, PeriodsApart
      <3> QED
        BY <1>0, <2>1, <2>4, <2>5, <3>1
    <2>8. ~(q < s)
      <3> SUFFICES ASSUME q < s PROVE FALSE
        OBVIOUS
      <3>1. Following(q) <= s
        BY <2>2, <2>3, <2>6, PeriodsApart
      <3> QED
        BY <1>0, <2>1, <2>2, <3>1
    <2>9. p <= s /\ s <= q
      BY <1>0, <2>2, <2>7, <2>8
    <2>10. s \in missing
      BY <2>2, <2>3, <2>9, GroupMissing
    <2> QED
      BY <2>9, <2>10 DEF s
  <1>3. ASSUME NEW x \in missing, p <= x, x <= q PROVE x \in R /\ StartOf(x) = x
    BY <1>0, <1>1, <1>3, Missed
  <1> QED
    BY <1>2, <1>3 DEF R

\* Each estimate has the days of its period.
LEMMA EstimateWhole ==
  ASSUME DatesMissed, NEW p \in missing, NEW q \in missing, Group(p, q),
         NEW x \in missing, p <= x, x <= q
  PROVE LET e == Estimate(RequestFor(p, q), x)
        IN  e \in Estimated /\ e.period = x /\ e.on = today /\ IsWhole(e)
  <1> DEFINE e == Estimate(RequestFor(p, q), x)
  <1>0. /\ p \in Nat /\ q \in Nat /\ 1 <= p /\ EndOf(q) \in Nat /\ q <= EndOf(q) /\ EndOf(q) < Following(q)
        /\ Following(q) \in Nat /\ today \in Nat /\ today <= NDays /\ NDays \in Nat
        /\ x \in Nat /\ x \in Days /\ StartOf(x) = x /\ Following(x) \in Nat
    BY Missed, Calendar
  <1>1. e.period = x /\ e.on = today
    BY DEF Estimate
  <1>2. \A d : d \in e.days <=> d \in p..EndOf(q) /\ StartOf(d) = x /\ d < today /\ d <= today
    BY DEF Estimate, Reported, RequestFor
  <1>3. /\ \A d \in Days : StartOf(d) = x <=> x <= d /\ d < Following(x)
        /\ grouping = "week" => Following(x) = x + 7
    BY <1>0, PeriodFacts DEF DatesMissed
  <1>4. EndOf(q) = Following(q) - (IF grouping = "week" THEN 2 ELSE 1)
    BY PeriodFacts DEF DatesMissed
  <1>5. \A d : d \in Over(e) <=> d \in x..Following(x) - 1 /\ d < today
    BY <1>1 DEF Over, InPeriod
  <1>6. ASSUME NEW d \in e.days PROVE d \in Days /\ d \in Over(e)
    <2>1. d \in Days
      BY <1>0, <1>2 DEF Days
    <2>2. x <= d /\ d < Following(x) /\ d \in Nat
      BY <1>2, <1>3, <2>1, Calendar
    <2> QED
      BY <1>0, <1>2, <1>5, <2>1, <2>2
  <1>7. ASSUME NEW d \in Over(e) PROVE d \in e.days <=> d <= EndOf(q)
    <2>1. d \in Nat /\ x <= d /\ d < Following(x) /\ d < today
      BY <1>0, <1>5
    <2>2. d \in Days
      BY <1>0, <2>1, Missed DEF Days
    <2> QED
      BY <1>0, <1>2, <1>3, <2>1, <2>2
  <1>8. ASSUME NEW d \in Over(e) PROVE d <= EndOf(q) <=> ~IsLost(d, x)
    <2>1. d \in Nat /\ x <= d /\ d < Following(x)
      BY <1>0, <1>5
    <2>2. CASE x = q
      <3>1. Following(x) \notin missing
        BY <2>2 DEF Group
      <3> QED
        BY <1>0, <1>3, <1>4, <2>1, <2>2, <3>1 DEF IsLost, Sunday
    <2>3. CASE x < q
      <3>1. x \in p..q - 1
        BY <1>0, <2>3
      <3>2. Following(x) \in missing
        BY <3>1 DEF Group
      <3>3. Following(x) <= q
        BY <2>3, Missed
      <3> QED
        BY <1>0, <2>1, <3>2, <3>3 DEF IsLost
    <2> QED
      BY <1>0, <2>2, <2>3
  <1>9. e.days \subseteq Over(e)
    BY <1>6
  <1> HIDE DEF e
  <1>10. IsWhole(e)
    BY <1>1, <1>7, <1>8, <1>9 DEF IsWhole
  <1>11. e \in Estimated
    <2>1. e.days \in SUBSET Days
      BY <1>6
    <2>2. today \in Days
      BY DEF DatesMissed
    <2>3. e = [period |-> x, on |-> today, days |-> e.days]
      BY DEF e, Estimate
    <2> QED
      BY <1>0, <2>1, <2>2, <2>3 DEF Estimated
  <1> QED
    BY <1>1, <1>10, <1>11 DEF e

\* The results of a request: an estimate for each period of its group.
LEMMA ResultsWhole ==
  ASSUME DatesMissed, NEW p \in missing, NEW q \in missing, Group(p, q)
  PROVE LET s == Results(RequestFor(p, q))
        IN  /\ s \in Seq(Estimated) /\ Once(s)
            /\ PeriodsOf(s) = {x \in missing : p <= x /\ x <= q}
            /\ \A e \in Elements(s) : e.on = today /\ IsWhole(e)
  <1> DEFINE r == RequestFor(p, q)
  <1> DEFINE X == {x \in missing : p <= x /\ x <= q}
  <1> DEFINE days == [d \in 1..today |-> d]
  <1> DEFINE sorted == Select(days, X)
  <1> DEFINE s == [i \in DOMAIN sorted |-> Estimate(r, sorted[i])]
  <1>0. today \in Nat /\ today <= NDays /\ NDays \in Nat /\ \A x \in missing : x \in 1..today
    BY Missed, Calendar
  <1>1. X = {StartOf(d) : d \in Reported(r)}
    BY ReportedPeriods
  <1>2. Results(r) = s
    BY <1>1 DEF Results
  <1>3. days \in Seq(Days) /\ Len(days) = today
    BY <1>0 DEF Days
  <1>4. Elements(days) = 1..today
    BY DEF Elements
  <1>5. \A i, j \in 1..Len(days) : days[i] = days[j] => i = j
    BY <1>3
  <1> HIDE DEF days
  <1>6. /\ sorted \in Seq(Days)
        /\ Elements(sorted) = 1..today \cap X
    BY <1>3, <1>4, SelectType
  <1>7. \A i, j \in 1..Len(sorted) : sorted[i] = sorted[j] => i = j
    BY <1>3, <1>5, SelectDistinct
  <1>8. 1..today \cap X = X
    BY <1>0
  <1> HIDE DEF sorted
  <1>9. /\ Len(sorted) \in Nat /\ DOMAIN sorted = 1..Len(sorted)
        /\ \A i \in 1..Len(sorted) : sorted[i] \in X
        /\ \A x \in X : \E i \in 1..Len(sorted) : sorted[i] = x
    BY <1>6, <1>8 DEF Elements
  <1>10. \A x \in X : LET e == Estimate(r, x)
                      IN  e \in Estimated /\ e.period = x /\ e.on = today /\ IsWhole(e)
    BY EstimateWhole
  <1> HIDE DEF X, r
  <1>11. /\ DOMAIN s = 1..Len(sorted) /\ s \in Seq(Estimated)
         /\ \A i \in 1..Len(sorted) : s[i] = Estimate(r, sorted[i]) /\ s[i].period = sorted[i]
    BY <1>9, <1>10
  <1>12. Once(s)
    BY <1>7, <1>11 DEF Once
  <1>13. PeriodsOf(s) = X
    BY <1>9, <1>11 DEF PeriodsOf, Elements
  <1>14. \A e \in Elements(s) : e.on = today /\ IsWhole(e)
    BY <1>9, <1>10, <1>11 DEF Elements
  <1> QED
    BY <1>2, <1>11, <1>12, <1>13, <1>14 DEF r, X

\* The requests are those for the groups.
LEMMA RequestsAre ==
  ASSUME DatesMissed
  PROVE /\ \A r \in Requests : \E p, q \in missing : Group(p, q) /\ r = RequestFor(p, q)
        /\ \A p, q \in missing : Group(p, q) => RequestFor(p, q) \in Requests
        /\ \A r, t \in Requests : r.from = t.from => r = t
  <1>1. ASSUME NEW r \in Requests PROVE \E p, q \in missing : Group(p, q) /\ r = RequestFor(p, q)
    <2>1. PICK g \in missing \X missing : Group(g[1], g[2]) /\ r = [from |-> g[1], to |-> EndOf(g[2])]
      BY DEF Requests
    <2>2. g[1] \in missing /\ g[2] \in missing
      OBVIOUS
    <2> QED
      BY <2>1, <2>2 DEF RequestFor
  <1>2. ASSUME NEW p \in missing, NEW q \in missing, Group(p, q) PROVE RequestFor(p, q) \in Requests
    <2> DEFINE g == <<p, q>>
    <2>1. g \in missing \X missing /\ g[1] = p /\ g[2] = q
      OBVIOUS
    <2> HIDE DEF g
    <2>2. g \in {pair \in missing \X missing : Group(pair[1], pair[2])}
      BY <1>2, <2>1
    <2> QED
      BY <2>1, <2>2 DEF Requests, RequestFor
  <1>3. ASSUME NEW r \in Requests, NEW t \in Requests, r.from = t.from PROVE r = t
    <2>1. PICK p \in missing, q \in missing : Group(p, q) /\ r = RequestFor(p, q)
      BY <1>1
    <2>2. PICK p2 \in missing, q2 \in missing : Group(p2, q2) /\ t = RequestFor(p2, q2)
      BY <1>1
    <2>3. p = p2
      BY <1>3, <2>1, <2>2 DEF RequestFor
    <2>4. p <= q /\ p2 <= q2 /\ p \in Nat /\ q \in Nat /\ p2 \in Nat /\ q2 \in Nat
      BY <2>1, <2>2, Missed DEF Group
    <2>5. q = q2
      BY <2>1, <2>2, <2>3, <2>4, GroupsApart
    <2> QED
      BY <2>1, <2>2, <2>3, <2>5
  <1> QED
    BY <1>1, <1>2, <1>3

\* What is fetched: an estimate for each missing period, and each of them whole.
LEMMA EstimatesWhole ==
  ASSUME DatesMissed
  PROVE /\ Estimates \in Seq(Estimated) /\ Once(Estimates)
        /\ PeriodsOf(Estimates) = missing
        /\ \A e \in Elements(Estimates) : e.on = today /\ IsWhole(e)
  <1> DEFINE s == [d \in 1..today |->
                     IF \E r \in Requests : r.from = d
                     THEN Results(CHOOSE r \in Requests : r.from = d) ELSE <<>>]
  <1>0. today \in Nat /\ 1 <= today /\ \A x \in missing : x \in 1..today
    BY Missed
  <1>1. Estimates = FlattenSeq(s)
    BY DEF Estimates
  <1>2. ASSUME NEW r \in Requests PROVE (CHOOSE t \in Requests : t.from = r.from) = r
    <2>1. \A t \in Requests : t.from = r.from => t = r
      BY RequestsAre
    <2> QED
      BY <2>1
  <1>3. ASSUME NEW d \in 1..today, NEW r \in Requests, r.from = d PROVE s[d] = Results(r)
    <2>1. (CHOOSE t \in Requests : t.from = d) = r
      BY <1>2, <1>3
    <2> QED
      BY <1>3, <2>1
  <1>4. \A d \in 1..today : (\A r \in Requests : r.from # d) => s[d] = <<>>
    OBVIOUS
  <1>5. DOMAIN s = 1..today /\ s = [d \in 1..today |-> s[d]]
    OBVIOUS
  <1> HIDE DEF s
  <1>6. ASSUME NEW p \in missing, NEW q \in missing, Group(p, q)
        PROVE p \in 1..today /\ s[p] = Results(RequestFor(p, q))
    <2>1. RequestFor(p, q) \in Requests /\ RequestFor(p, q).from = p
      BY <1>6, RequestsAre DEF RequestFor
    <2> QED
      BY <1>0, <1>3, <2>1
  <1>7. ASSUME NEW d \in 1..today
        PROVE \/ s[d] = <<>>
              \/ \E q \in missing : d \in missing /\ Group(d, q)
    <2>1. CASE \A r \in Requests : r.from # d
      BY <1>4, <2>1
    <2>2. ASSUME NEW r \in Requests, r.from = d PROVE \E q \in missing : d \in missing /\ Group(d, q)
      <3>1. PICK p \in missing, q \in missing : Group(p, q) /\ r = RequestFor(p, q)
        BY RequestsAre
      <3>2. p = d
        BY <2>2, <3>1 DEF RequestFor
      <3> QED
        BY <3>1, <3>2
    <2> QED
      BY <2>1, <2>2
  <1>8. \A d \in 1..today : s[d] \in Seq(Estimated) /\ Once(s[d])
    <2> TAKE d \in 1..today
    <2>1. CASE s[d] = <<>>
      BY <2>1 DEF Once
    <2>2. ASSUME NEW q \in missing, d \in missing, Group(d, q) PROVE s[d] \in Seq(Estimated) /\ Once(s[d])
      BY <1>6, <2>2, ResultsWhole
    <2> QED
      BY <1>7, <2>1, <2>2
  <1>9. \A d \in 1..today : \A e \in Elements(s[d]) : e.on = today /\ IsWhole(e) /\ e.period \in missing
    <2> TAKE d \in 1..today
    <2>1. CASE s[d] = <<>>
      BY <2>1 DEF Elements
    <2>2. ASSUME NEW q \in missing, d \in missing, Group(d, q)
          PROVE \A e \in Elements(s[d]) : e.on = today /\ IsWhole(e) /\ e.period \in missing
      <3>1. s[d] = Results(RequestFor(d, q))
        BY <1>6, <2>2
      <3>2. PeriodsOf(s[d]) = {x \in missing : d <= x /\ x <= q} /\ \A e \in Elements(s[d]) : e.on = today /\ IsWhole(e)
        BY <2>2, <3>1, ResultsWhole
      <3> QED
        BY <3>2 DEF PeriodsOf
    <2> QED
      BY <1>7, <2>1, <2>2
  <1>10. ASSUME NEW k \in 1..today, NEW l \in 1..today, k # l,
                NEW x \in PeriodsOf(s[k]), x \in PeriodsOf(s[l])
         PROVE FALSE
    <2>1. s[k] # <<>> /\ s[l] # <<>>
      BY <1>10 DEF PeriodsOf, Elements
    <2>2. PICK q \in missing : k \in missing /\ Group(k, q)
      BY <1>7, <2>1
    <2>3. PICK q2 \in missing : l \in missing /\ Group(l, q2)
      BY <1>7, <2>1
    <2>4. x \in missing /\ k <= x /\ x <= q /\ l <= x /\ x <= q2
      BY <1>6, <1>10, <2>2, <2>3, ResultsWhole
    <2>5. k \in Nat /\ l \in Nat /\ x \in Nat /\ q \in Nat /\ q2 \in Nat
      BY <2>2, <2>3, <2>4, Missed
    <2>6. q < l \/ q2 < k
      BY <1>10, <2>2, <2>3, GroupsApart
    <2> QED
      BY <2>4, <2>5, <2>6
  <1>11. s \in Seq(Seq(Estimated)) /\ Len(s) = today
    BY <1>0, <1>5, <1>8
  <1>12. Apart(s)
    BY <1>5, <1>8, <1>10 DEF Apart
  <1>13. /\ Estimates \in Seq(Estimated) /\ Once(Estimates)
         /\ Elements(Estimates) = AllOf(s, today)
    BY <1>0, <1>1, <1>11, <1>12, Flattened
  <1>14. \A e \in Elements(Estimates) : e.on = today /\ IsWhole(e) /\ e.period \in missing
    BY <1>9, <1>13 DEF AllOf
  <1>15. ASSUME NEW x \in missing PROVE x \in PeriodsOf(Estimates)
    <2>1. PICK p \in missing, q \in missing : Group(p, q) /\ p <= x /\ x <= q
      BY InGroup
    <2>2. x \in PeriodsOf(s[p]) /\ p \in 1..today
      BY <1>6, <2>1, ResultsWhole
    <2> QED
      BY <1>13, <2>2 DEF PeriodsOf, AllOf
  <1> QED
    BY <1>13, <1>14, <1>15 DEF PeriodsOf

(***************************************************************************)
(* The inductive invariant.                                                *)
(***************************************************************************)
\* An estimate that went into the cache has the days that were over, up to a Sunday.
HoldsOver(e) ==
  /\ e.days \subseteq Over(e)
  /\ Over(e) \ e.days \subseteq (IF grouping = "week" THEN {Sunday(e.period)} ELSE {})

Running == {"load", "fetch", "write", "slide"}

\* Where the missing dates were looked for.
LookedAt == IF mode = "LOCAL" THEN kept ELSE store.lines

\* The window is within the range, which is not in the future.
WindowFits ==
  /\ step >= 1
  /\ pc \in Running => range.first <= current /\ current <= range.last /\ range.last <= today

\* What is missing is what the window wants and the cache has not.
MissingIsRight ==
  /\ \A d \in missing : d \in Days /\ StartOf(d) = d /\ d <= today
  /\ pc = "fetch" => Elements(kept) \subseteq Elements(store.lines)
  /\ pc \in {"fetch", "write"} =>
       /\ Wanted(current, Until) \subseteq missing \cup PeriodsOf(LookedAt)
       /\ missing \cap PeriodsOf(LookedAt) = {}

\* What is fetched is missing, and all of what is anywhere is whole.
EstimatesHold ==
  /\ pc = "write" => /\ PeriodsOf(fetched) = missing /\ Once(fetched)
                     /\ \A e \in Elements(fetched) : IsWhole(e)
  /\ \A e \in Elements(store.lines) : HoldsOver(e)
  /\ \A e \in Elements(kept) : HoldsOver(e)
  /\ \A e \in Elements(fetched) : HoldsOver(e)

\* A window that was dealt with is in the cache; so are, in a collection, those before.
WindowsCached ==
  /\ pc = "slide" => \/ mode = "LOCAL" /\ store.state = "torn"
                     \/ Wanted(current, Until) \subseteq PeriodsOf(store.lines)
  /\ mode = "MONGODB" => Once(store.lines)
  /\ mode = "MONGODB" /\ pc \in Running =>
       current = range.first \/ Wanted(range.first, current - 1) \subseteq PeriodsOf(store.lines)
  /\ pc = "done" =>
       IF mode = "MONGODB"
       THEN Wanted(range.first, range.last) \subseteq PeriodsOf(store.lines)
       ELSE store.state = "torn" \/ LastWindow \subseteq PeriodsOf(store.lines)

SeedInv == SeedTypeOK /\ WindowFits /\ MissingIsRight /\ EstimatesHold /\ WindowsCached

(***************************************************************************)
(* What the actions are made of.                                           *)
(***************************************************************************)
LEMMA InvImplies == SeedInv => SeedTypeOK /\ EstimatesAreWhole /\ SeededIsCached
  <1> SUFFICES ASSUME SeedInv PROVE EstimatesAreWhole /\ SeededIsCached
    BY DEF SeedInv
  <1>1. FetchedIsWhole
    <2> SUFFICES ASSUME pc = "write" PROVE FetchedIsWhole
      BY DEF FetchedIsWhole
    <2>1. \A e \in Elements(fetched) :
            e.days = {d \in InPeriod(e.period) : d < e.on /\ ~IsLost(d, e.period)}
      <3> SUFFICES ASSUME NEW e \in Elements(fetched)
                   PROVE e.days = {d \in InPeriod(e.period) : d < e.on /\ ~IsLost(d, e.period)}
        OBVIOUS
      <3>1. e.days = {d \in Over(e) : ~IsLost(d, e.period)}
        BY DEF SeedInv, EstimatesHold, IsWhole
      <3> QED
        BY <3>1 DEF Over
    <2> QED
      BY <2>1 DEF FetchedIsWhole, SeedInv, EstimatesHold, Once
  <1>2. StoredIsWhole
    BY DEF StoredIsWhole, SeedInv, EstimatesHold, HoldsOver, Over
  <1>3. ASSUME mode = "MONGODB", NEW p \in PeriodsOf(store.lines) PROVE Times(p) = 1
    <2> DEFINE s == store.lines
    <2>1. Once(s)
      BY <1>3 DEF SeedInv, WindowsCached
    <2>2. PICK i \in DOMAIN s : s[i].period = p
      BY DEF PeriodsOf, Elements
    <2>3. {j \in DOMAIN s : s[j].period = p} = {i}
      BY <2>1, <2>2 DEF Once
    <2> QED
      BY <2>3, FS_Singleton DEF Times
  <1>4. SeededIsCached
    BY <1>3 DEF SeededIsCached, SeedInv, WindowsCached
  <1> QED
    BY <1>1, <1>2, <1>4 DEF EstimatesAreWhole

\* What a file may be after it was written over.
LEMMA WrittenOver ==
  ASSUME NEW T, NEW s \in Seq(T), NEW old \in Seq(T), NEW f \in Overwritten(s, old)
  PROVE /\ f.state \in {"absent", "sound", "torn"} /\ f.lines \in Seq(T)
        /\ Elements(f.lines) \subseteq Elements(s) \cup Elements(old)
        /\ f.state = "torn" \/ Elements(s) \subseteq Elements(f.lines)
  <1>1. CASE f = Torn
    BY <1>1 DEF Torn, Elements
  <1>2. CASE f = Sound(s)
    BY <1>2 DEF Sound
  <1>3. ASSUME old # <<>>, NEW rest \in Rests(Tail(old)), f = Sound(s \o rest)
        PROVE /\ f.state = "sound" /\ f.lines \in Seq(T)
              /\ Elements(f.lines) \subseteq Elements(s) \cup Elements(old)
              /\ Elements(s) \subseteq Elements(f.lines)
    <2> DEFINE t == Tail(old)
    <2>1. /\ t \in Seq(T) /\ Len(t) = Len(old) - 1 /\ Len(old) \in Nat /\ Len(old) # 0
          /\ \A i \in 1..Len(t) : t[i] = old[i + 1]
      BY <1>3
    <2>2. PICK k \in 1..Len(t) + 1 : rest = SubSeq(t, k, Len(t))
      BY DEF Rests
    <2> HIDE DEF t
    <2>3. /\ rest \in Seq(T) /\ Len(rest) \in Nat
          /\ \A i \in 1..Len(rest) : i + k - 1 \in 1..Len(t) /\ rest[i] = t[i + k - 1]
      BY <2>1, <2>2
    <2>4. Elements(rest) \subseteq Elements(old)
      <3> SUFFICES ASSUME NEW i \in 1..Len(rest) PROVE rest[i] \in Elements(old)
        BY <2>3, ElementsOf
      <3> DEFINE j == i + k - 1
      <3>1. j \in 1..Len(t) /\ rest[i] = t[j]
        BY <2>3
      <3> HIDE DEF j
      <3>2. t[j] = old[j + 1] /\ j + 1 \in 1..Len(old)
        BY <2>1, <3>1
      <3> QED
        BY <3>1, <3>2, ElementsOf
    <2>5. /\ s \o rest \in Seq(T)
          /\ Elements(s \o rest) = Elements(s) \cup Elements(rest)
      BY <2>3, TwoLists
    <2> QED
      BY <1>3, <2>4, <2>5 DEF Sound
  <1> QED
    BY <1>1, <1>2, <1>3 DEF Overwritten

\* What depends on the grouping only stays as it is.
LEMMA Unmoved ==
  ASSUME grouping' = grouping
  PROVE /\ \A d : StartOf(d)' = StartOf(d)
        /\ \A p, q : Wanted(p, q)' = Wanted(p, q)
        /\ \A e : Over(e)' = Over(e) /\ HoldsOver(e)' = HoldsOver(e)
        /\ missing' = missing => \A e : IsWhole(e)' = IsWhole(e)
  <1>1. \A d : StartOf(d)' = StartOf(d) /\ Following(d)' = Following(d)
    BY DEF StartOf, Following
  <1>2. \A p, q : Wanted(p, q)' = Wanted(p, q)
    BY <1>1 DEF Wanted
  <1>3. \A e : Over(e)' = Over(e)
    BY <1>1 DEF Over, InPeriod
  <1>4. \A e : HoldsOver(e)' = HoldsOver(e)
    BY <1>3 DEF HoldsOver, Sunday
  <1>5. ASSUME missing' = missing PROVE \A e : IsWhole(e)' = IsWhole(e)
    <2>1. \A d, p : IsLost(d, p)' = IsLost(d, p)
      BY <1>1, <1>5 DEF IsLost, Sunday
    <2> QED
      BY <1>3, <2>1 DEF IsWhole
  <1> QED
    BY <1>1, <1>2, <1>3, <1>4, <1>5

\* The days of the window and what it wants.
LEMMA TheWindow ==
  ASSUME SeedTypeOK, WindowFits, pc \in Running
  PROVE /\ current \in Nat /\ 1 <= current /\ range.first \in Nat /\ 1 <= range.first /\ range.last \in Nat
        /\ step \in Nat /\ step >= 1 /\ today \in Nat
        /\ Until \in Nat /\ current <= Until /\ Until <= range.last /\ range.last <= today
        /\ Until = range.last \/ Until = current + step - 1
        /\ current + step > range.last => Until = range.last
        /\ current + step <= range.last => Until = current + step - 1
        /\ \A d \in Wanted(current, Until) : d \in Days /\ StartOf(d) = d /\ d <= today
  <1>1. /\ range.first \in Days /\ range.last \in Days /\ today \in Days /\ step \in Nat /\ current \in Nat
        /\ grouping \in Groupings
    BY DEF SeedTypeOK
  <1>2. /\ range.first \in Nat /\ 1 <= range.first /\ range.last \in Nat /\ today \in Nat /\ range.last <= NDays
        /\ NDays \in Nat
    BY <1>1, Calendar
  <1>3. range.first <= current /\ current <= range.last /\ range.last <= today /\ step >= 1
    BY DEF WindowFits
  <1>4. /\ Until \in Nat /\ current <= Until /\ Until <= range.last
        /\ Until = range.last \/ Until = current + step - 1
        /\ current + step > range.last => Until = range.last
        /\ current + step <= range.last => Until = current + step - 1
    BY <1>1, <1>2, <1>3 DEF Until
  <1>5. StartOf(current) \in Nat /\ 1 <= StartOf(current)
    BY <1>1, <1>2, <1>3, StartFacts
  <1>6. \A d \in Wanted(current, Until) : d \in Days /\ StartOf(d) = d /\ d <= today
    BY <1>2, <1>3, <1>4, <1>5 DEF Wanted, Days
  <1> QED
    BY <1>1, <1>2, <1>3, <1>4, <1>6

\* What the constants are.
LEMMA SeedBounds ==
  /\ Groupings \subseteq {"day", "week", "month"} /\ Modes \subseteq {"LOCAL", "MONGODB"}
  /\ FirstDays \subseteq Days /\ Ranges \subseteq [first : Days, last : Days]
  /\ Windows \subseteq Nat \ {0} /\ MaxSessions \in Nat /\ Days \subseteq Nat
  BY CalendarAssumption DEF Days

\* The invariant holds at first.
LEMMA SeedInitInv == SeedInit => SeedInv
  <1> SUFFICES ASSUME SeedInit PROVE SeedInv
    OBVIOUS
  <1>1. /\ store.state = "absent" /\ store.lines = <<>> /\ pc = "idle" /\ step = 1 /\ current = 1
        /\ kept = <<>> /\ missing = {} /\ fetched = <<>> /\ sessions = 0
        /\ range = [first |-> 1, last |-> 1] /\ grouping \in Groupings /\ mode \in Modes /\ today \in Days
    BY SeedBounds DEF SeedInit, Absent
  <1>2. SeedTypeOK
    BY <1>1, Calendar, SeedBounds DEF SeedTypeOK
  <1>3. WindowFits
    BY <1>1 DEF WindowFits, Running
  <1>4. MissingIsRight
    BY <1>1 DEF MissingIsRight
  <1>5. EstimatesHold
    BY <1>1 DEF EstimatesHold, Elements
  <1>6. WindowsCached
    BY <1>1 DEF WindowsCached, Once, Running
  <1> QED
    BY <1>2, <1>3, <1>4, <1>5, <1>6 DEF SeedInv

\* Nothing but the day, or nothing at all, has changed.
LEMMA Steady ==
  ASSUME SeedInv, UNCHANGED <<given, store, pc, entered, progress, sessions>>,
         today' \in Days, today <= today'
  PROVE SeedInv'
  <1>0. /\ grouping' = grouping /\ mode' = mode /\ store' = store /\ pc' = pc /\ range' = range /\ step' = step
        /\ current' = current /\ kept' = kept /\ missing' = missing /\ fetched' = fetched /\ sessions' = sessions
    BY DEF given, entered, progress
  <1>1. SeedTypeOK'
    BY <1>0 DEF SeedInv, SeedTypeOK
  <1>2. \A d : StartOf(d)' = StartOf(d)
    BY <1>0, Unmoved
  <1>3. /\ Until' = Until /\ LookedAt' = LookedAt
        /\ \A p, q : Wanted(p, q)' = Wanted(p, q)
        /\ \A s : PeriodsOf(s)' = PeriodsOf(s)
    BY <1>0, Unmoved DEF Until, LookedAt, PeriodsOf
  <1>4. /\ today \in Nat /\ today' \in Nat /\ range.last \in Nat
        /\ \A d \in Days : d \in Nat
    BY SeedBounds DEF SeedInv, SeedTypeOK
  <1>5. WindowFits'
    BY <1>0, <1>4 DEF SeedInv, WindowFits
  <1>6. MissingIsRight'
    <2>1. \A d \in missing : d \in Days /\ StartOf(d) = d /\ d <= today'
      <3>1. \A d \in missing : d \in Days /\ StartOf(d) = d /\ d <= today
        BY DEF SeedInv, MissingIsRight
      <3>2. ASSUME NEW d \in missing PROVE d <= today'
        <4>1. d \in Nat /\ d <= today /\ today <= today'
          BY <1>4, <3>1
        <4> QED
          BY <1>4, <4>1
      <3> QED
        BY <3>1, <3>2
    <2> QED
      BY <1>0, <1>2, <1>3, <2>1 DEF SeedInv, MissingIsRight
  <1>7. EstimatesHold'
    BY <1>0, <1>3, Unmoved DEF SeedInv, EstimatesHold, Once
  <1>8. WindowsCached'
    BY <1>0, <1>3 DEF SeedInv, WindowsCached, Once, LastWindow
  <1> QED
    BY <1>1, <1>5, <1>6, <1>7, <1>8 DEF SeedInv

\* The script begins.
LEMMA PromptInv ==
  ASSUME SeedInv, NEW r \in Ranges, NEW days \in Nat, days >= 1, Prompt(r, days)
  PROVE SeedInv'
  <1>0. /\ grouping' = grouping /\ mode' = mode /\ store' = store /\ pc' = "load" /\ range' = r /\ step' = days
        /\ current' = r.first /\ kept' = <<>> /\ missing' = {} /\ fetched' = <<>> /\ sessions' = sessions + 1
        /\ today' = today /\ r.first <= r.last /\ r.last <= today /\ sessions < MaxSessions
    BY DEF Prompt, given
  <1>1. r \in [first : Days, last : Days] /\ r.first \in Nat /\ r.last \in Nat
    BY SeedBounds
  <1>2. SeedTypeOK'
    BY <1>0, <1>1, SeedBounds DEF SeedInv, SeedTypeOK
  <1>3. WindowFits'
    BY <1>0, <1>1 DEF WindowFits
  <1>4. MissingIsRight'
    BY <1>0 DEF MissingIsRight
  <1>5. EstimatesHold'
    BY <1>0, Unmoved DEF SeedInv, EstimatesHold, Elements
  <1>6. WindowsCached'
    BY <1>0 DEF SeedInv, WindowsCached, Once
  <1> QED
    BY <1>2, <1>3, <1>4, <1>5, <1>6 DEF SeedInv

\* The missing dates of the window.
LEMMA LoadInv ==
  ASSUME SeedInv, pc = "load", pc' = "fetch",
         UNCHANGED <<given, today, entered, current, fetched, sessions>>,
         store'.lines = store.lines, store'.state \in {"absent", "sound", "torn"},
         kept' \in Seq(Estimated), Elements(kept') \subseteq Elements(store.lines),
         missing' = Wanted(current, Until) \ PeriodsOf(LookedAt')
  PROVE SeedInv'
  <1>0. /\ grouping' = grouping /\ mode' = mode /\ range' = range /\ step' = step
        /\ current' = current /\ fetched' = fetched /\ sessions' = sessions /\ today' = today
    BY DEF given, entered
  <1>1. SeedTypeOK /\ WindowFits /\ pc \in Running /\ pc' \in Running
    BY DEF SeedInv, Running
  <1>2. \A d \in missing' : d \in Days /\ StartOf(d) = d /\ d <= today
    BY <1>1, TheWindow
  <1>3. SeedTypeOK'
    BY <1>0, <1>2 DEF SeedInv, SeedTypeOK
  <1>4. WindowFits'
    BY <1>0, <1>1 DEF WindowFits
  <1>5. /\ \A d : StartOf(d)' = StartOf(d)
        /\ Until' = Until
        /\ \A p, q : Wanted(p, q)' = Wanted(p, q)
        /\ \A e : HoldsOver(e)' = HoldsOver(e)
        /\ \A s : PeriodsOf(s)' = PeriodsOf(s)
    BY <1>0, Unmoved DEF Until, PeriodsOf
  <1>6. MissingIsRight'
    BY <1>0, <1>2, <1>5 DEF MissingIsRight
  <1>7. EstimatesHold'
    BY <1>0, <1>5 DEF SeedInv, EstimatesHold
  <1>8. WindowsCached'
    BY <1>0, <1>1, <1>5 DEF SeedInv, WindowsCached, Once
  <1> QED
    BY <1>3, <1>4, <1>6, <1>7, <1>8 DEF SeedInv

\* The script gives up.
LEMMA FailInv ==
  ASSUME SeedInv, pc' = "failed", UNCHANGED <<given, today, store, entered, progress, sessions>>
  PROVE SeedInv'
  <1>0. /\ grouping' = grouping /\ mode' = mode /\ store' = store /\ range' = range /\ step' = step /\ today' = today
        /\ current' = current /\ kept' = kept /\ missing' = missing /\ fetched' = fetched /\ sessions' = sessions
    BY DEF given, entered, progress
  <1>1. SeedTypeOK'
    BY <1>0 DEF SeedInv, SeedTypeOK
  <1>2. WindowFits'
    BY <1>0 DEF SeedInv, WindowFits, Running
  <1>3. MissingIsRight'
    BY <1>0, Unmoved DEF SeedInv, MissingIsRight
  <1>4. EstimatesHold'
    BY <1>0, Unmoved DEF SeedInv, EstimatesHold
  <1>5. WindowsCached'
    BY <1>0 DEF SeedInv, WindowsCached, Once, Running
  <1> QED
    BY <1>1, <1>2, <1>3, <1>4, <1>5 DEF SeedInv

\* All estimates are fetched.
LEMMA FetchInv == ASSUME SeedInv, Fetch PROVE SeedInv'
  <1>0. /\ grouping' = grouping /\ mode' = mode /\ store' = store /\ range' = range /\ step' = step /\ today' = today
        /\ current' = current /\ kept' = kept /\ missing' = missing /\ sessions' = sessions
        /\ fetched' = Estimates /\ pc = "fetch" /\ pc' = "write"
    BY DEF Fetch, given, entered
  <1>1. DatesMissed
    BY DEF DatesMissed, SeedInv, SeedTypeOK, MissingIsRight
  <1>2. /\ Estimates \in Seq(Estimated) /\ Once(Estimates) /\ PeriodsOf(Estimates) = missing
        /\ \A e \in Elements(Estimates) : e.on = today /\ IsWhole(e)
    BY <1>1, EstimatesWhole
  <1> DEFINE all == Estimates
  <1>3. \A e \in Elements(all) : HoldsOver(e)
    <2> SUFFICES ASSUME NEW e \in Elements(all) PROVE HoldsOver(e)
      OBVIOUS
    <2>1. e.days = {d \in Over(e) : ~IsLost(d, e.period)}
      BY <1>2 DEF IsWhole
    <2> QED
      BY <2>1 DEF HoldsOver, IsLost
  <1>4. SeedTypeOK'
    BY <1>0, <1>2 DEF SeedInv, SeedTypeOK
  <1>5. WindowFits'
    BY <1>0 DEF SeedInv, WindowFits, Running
  <1>6. Until' = Until /\ LookedAt' = LookedAt /\ \A s : PeriodsOf(s)' = PeriodsOf(s)
    BY <1>0 DEF Until, LookedAt, PeriodsOf
  <1>7. MissingIsRight'
    BY <1>0, <1>6, Unmoved DEF SeedInv, MissingIsRight
  <1>8. fetched' = all
    BY <1>0
  <1>9. PeriodsOf(all) = missing /\ Once(all) /\ \A e \in Elements(all) : IsWhole(e)
    BY <1>2
  <1> HIDE DEF all
  <1>10. EstimatesHold'
    BY <1>0, <1>3, <1>6, <1>8, <1>9, Unmoved DEF SeedInv, EstimatesHold, Once
  <1>11. WindowsCached'
    BY <1>0, <1>6, Unmoved DEF SeedInv, WindowsCached, Once, Running
  <1> QED
    BY <1>4, <1>5, <1>7, <1>10, <1>11 DEF SeedInv

\* The cache has the window: it was there, or it was written.
LEMMA DealtWithInv ==
  ASSUME SeedInv, pc \in {"fetch", "write"}, pc' = "slide",
         UNCHANGED <<given, today, entered, current, kept, missing, sessions>>,
         fetched' \in Seq(Estimated), \A e \in Elements(fetched') : HoldsOver(e),
         store'.state \in {"absent", "sound", "torn"}, store'.lines \in Seq(Estimated),
         \A e \in Elements(store'.lines) : HoldsOver(e),
         \/ mode = "LOCAL" /\ store'.state = "torn"
         \/ Wanted(current, Until) \subseteq PeriodsOf(store'.lines),
         mode = "MONGODB" => Once(store'.lines) /\ PeriodsOf(store.lines) \subseteq PeriodsOf(store'.lines)
  PROVE SeedInv'
  <1>0. /\ grouping' = grouping /\ mode' = mode /\ range' = range /\ step' = step /\ today' = today
        /\ current' = current /\ kept' = kept /\ missing' = missing /\ sessions' = sessions
    BY DEF given, entered
  <1>1. SeedTypeOK'
    BY <1>0 DEF SeedInv, SeedTypeOK
  <1>2. WindowFits'
    BY <1>0 DEF SeedInv, WindowFits, Running
  <1>3. Until' = Until /\ \A p, q : Wanted(p, q)' = Wanted(p, q)
    BY <1>0, Unmoved DEF Until
  <1>4. MissingIsRight'
    BY <1>0, Unmoved DEF SeedInv, MissingIsRight
  <1>5. EstimatesHold'
    BY <1>0, Unmoved DEF SeedInv, EstimatesHold
  <1>6. mode = "MONGODB" => current = range.first \/ Wanted(range.first, current - 1) \subseteq PeriodsOf(store.lines)
    BY DEF SeedInv, WindowsCached, Running
  <1>7. WindowsCached'
    BY <1>0, <1>3, <1>6 DEF WindowsCached, Once, PeriodsOf
  <1> QED
    BY <1>1, <1>2, <1>4, <1>5, <1>7 DEF SeedInv

\* The window is in the cache already.
LEMMA NothingMissingInv == ASSUME SeedInv, NothingMissing PROVE SeedInv'
  <1>0. /\ store' = store /\ fetched' = <<>> /\ pc = "fetch" /\ pc' = "slide" /\ missing = {}
        /\ UNCHANGED <<given, today, entered, current, kept, missing, sessions>>
    BY DEF NothingMissing
  <1>1. /\ Wanted(current, Until) \subseteq PeriodsOf(LookedAt) /\ Elements(kept) \subseteq Elements(store.lines)
        /\ mode \in {"LOCAL", "MONGODB"}
    BY <1>0, SeedBounds DEF SeedInv, SeedTypeOK, MissingIsRight
  <1>2. Wanted(current, Until) \subseteq PeriodsOf(store.lines)
    BY <1>1 DEF LookedAt, PeriodsOf
  <1>3. fetched' \in Seq(Estimated) /\ Elements(fetched') = {}
    BY <1>0 DEF Elements
  <1>4. store'.state \in {"absent", "sound", "torn"} /\ store'.lines \in Seq(Estimated)
    BY <1>0 DEF SeedInv, SeedTypeOK
  <1>5. \A e \in Elements(store'.lines) : HoldsOver(e)
    BY <1>0 DEF SeedInv, EstimatesHold
  <1>6. mode = "MONGODB" => Once(store'.lines)
    BY <1>0 DEF SeedInv, WindowsCached
  <1> QED
    BY <1>0, <1>2, <1>3, <1>4, <1>5, <1>6, DealtWithInv

\* The file is written over: it has the window, or a part of a line.
LEMMA WriteFileInv == ASSUME SeedInv, WriteFile PROVE SeedInv'
  <1>0. /\ mode = "LOCAL" /\ pc = "write" /\ pc' = "slide" /\ store' \in Overwritten(kept \o fetched, store.lines)
        /\ UNCHANGED <<given, today, entered, current, kept, missing, fetched, sessions>>
    BY DEF WriteFile, progress
  <1>1. kept \in Seq(Estimated) /\ fetched \in Seq(Estimated) /\ store.lines \in Seq(Estimated)
    BY DEF SeedInv, SeedTypeOK
  <1> DEFINE s == kept \o fetched
  <1>2. /\ s \in Seq(Estimated) /\ Elements(s) = Elements(kept) \cup Elements(fetched)
        /\ PeriodsOf(s) = PeriodsOf(kept) \cup PeriodsOf(fetched)
    BY <1>1, TwoLists
  <1> DEFINE f == store'
  <1> DEFINE old == store.lines
  <1>2a. f \in Overwritten(s, old) /\ old \in Seq(Estimated)
    BY <1>0, <1>1
  <1> HIDE DEF s, f, old
  <1>2b. /\ f.state \in {"absent", "sound", "torn"} /\ f.lines \in Seq(Estimated)
         /\ Elements(f.lines) \subseteq Elements(s) \cup Elements(old)
         /\ f.state = "torn" \/ Elements(s) \subseteq Elements(f.lines)
    BY <1>2, <1>2a, WrittenOver
  <1>3. /\ store'.state \in {"absent", "sound", "torn"} /\ store'.lines \in Seq(Estimated)
        /\ Elements(store'.lines) \subseteq Elements(s) \cup Elements(store.lines)
        /\ store'.state = "torn" \/ Elements(s) \subseteq Elements(store'.lines)
    BY <1>2b DEF f, old
  <1>4. \A e \in Elements(store'.lines) : HoldsOver(e)
    BY <1>2, <1>3 DEF SeedInv, EstimatesHold
  <1>5. Wanted(current, Until) \subseteq PeriodsOf(s)
    BY <1>0, <1>2 DEF SeedInv, EstimatesHold, MissingIsRight, LookedAt
  <1>6. store'.state = "torn" \/ Wanted(current, Until) \subseteq PeriodsOf(store'.lines)
    BY <1>3, <1>5 DEF PeriodsOf
  <1>7. fetched' \in Seq(Estimated) /\ \A e \in Elements(fetched') : HoldsOver(e)
    BY <1>0 DEF SeedInv, SeedTypeOK, EstimatesHold
  <1> QED
    BY <1>0, <1>3, <1>4, <1>6, <1>7, DealtWithInv

\* What is inserted was missing, so that no period is there twice.
LEMMA InsertInv == ASSUME SeedInv, InsertDocuments PROVE SeedInv'
  <1>0. /\ mode = "MONGODB" /\ pc = "write" /\ pc' = "slide" /\ store' = Sound(store.lines \o fetched)
        /\ UNCHANGED <<given, today, entered, current, kept, missing, fetched, sessions>>
    BY DEF InsertDocuments, progress
  <1> DEFINE old == store.lines
  <1> DEFINE s == old \o fetched
  <1>1. fetched \in Seq(Estimated) /\ old \in Seq(Estimated)
    BY DEF SeedInv, SeedTypeOK
  <1>2. Once(old) /\ Once(fetched) /\ PeriodsOf(old) \cap PeriodsOf(fetched) = {}
    BY <1>0 DEF SeedInv, WindowsCached, EstimatesHold, MissingIsRight, LookedAt
  <1>3. /\ s \in Seq(Estimated) /\ Elements(s) = Elements(old) \cup Elements(fetched)
        /\ PeriodsOf(s) = PeriodsOf(old) \cup PeriodsOf(fetched) /\ Once(s)
    BY <1>1, <1>2, TwoLists
  <1>4. store'.state = "sound" /\ store'.lines = s
    BY <1>0 DEF Sound
  <1> HIDE DEF s
  <1>5. \A e \in Elements(s) : HoldsOver(e)
    BY <1>3 DEF SeedInv, EstimatesHold
  <1>6. Wanted(current, Until) \subseteq PeriodsOf(s)
    BY <1>0, <1>3 DEF SeedInv, EstimatesHold, MissingIsRight, LookedAt
  <1>7. fetched' \in Seq(Estimated) /\ \A e \in Elements(fetched') : HoldsOver(e)
    BY <1>0 DEF SeedInv, SeedTypeOK, EstimatesHold
  <1>8. PeriodsOf(old) \subseteq PeriodsOf(s)
    BY <1>3
  <1> QED
    BY <1>0, <1>3, <1>4, <1>5, <1>6, <1>7, <1>8, DealtWithInv

\* The periods of the windows dealt with are those of the range up to there.
LEMMA WantedGrows ==
  ASSUME SeedTypeOK, WindowFits, pc \in Running
  PROVE /\ current = range.first => Wanted(range.first, Until) \subseteq Wanted(current, Until)
        /\ Wanted(range.first, Until) \subseteq Wanted(range.first, current - 1) \cup Wanted(current, Until)
  <1>1. /\ current \in Nat /\ 1 <= current /\ range.first \in Nat /\ 1 <= range.first
        /\ Until \in Nat /\ current <= Until /\ grouping \in Groupings
    BY TheWindow DEF SeedTypeOK
  <1>2. /\ StartOf(current) \in Nat /\ StartOf(current) <= current
        /\ StartOf(range.first) \in Nat
    BY <1>1, StartFacts
  <1>3. \A d \in StartOf(range.first)..Until : d \in StartOf(range.first)..current - 1 \/ d \in StartOf(current)..Until
    BY <1>1, <1>2
  <1> QED
    BY <1>3 DEF Wanted

\* The next window begins with the day after this one.
LEMMA SlideInv == ASSUME SeedInv, Slide PROVE SeedInv'
  <1>0. /\ grouping' = grouping /\ mode' = mode /\ store' = store /\ range' = range /\ step' = step /\ today' = today
        /\ kept' = kept /\ missing' = missing /\ fetched' = fetched /\ sessions' = sessions
        /\ current' = current + step /\ pc = "slide" /\ pc' = IF current' <= range.last THEN "load" ELSE "done"
    BY DEF Slide, given, entered
  <1>1. SeedTypeOK /\ WindowFits /\ pc \in Running
    BY <1>0 DEF SeedInv, Running
  <1>2. /\ current \in Nat /\ 1 <= current /\ range.first \in Nat /\ 1 <= range.first /\ range.last \in Nat
        /\ step \in Nat /\ step >= 1 /\ today \in Nat
        /\ Until \in Nat /\ current <= Until /\ Until <= range.last /\ range.last <= today
        /\ current + step > range.last => Until = range.last
        /\ current + step <= range.last => Until = current + step - 1
    BY <1>1, TheWindow
  <1>3. range.first <= current
    BY <1>1 DEF WindowFits
  <1>4. /\ pc' \in {"load", "done"} /\ (pc' = "load" => current' <= range.last)
        /\ (pc' = "done" => Until = range.last)
        /\ (pc' = "load" => current' - 1 = Until)
        /\ current' \in Nat /\ range.first <= current' /\ current' - step = current
    <2>1. current + step \in Nat /\ range.first <= current + step /\ (current + step) - step = current
      BY <1>2, <1>3
    <2>2. current + step <= range.last \/ current + step > range.last
      BY <1>2
    <2> QED
      BY <1>0, <1>2, <2>1, <2>2
  <1>5. SeedTypeOK'
    BY <1>0, <1>4 DEF SeedInv, SeedTypeOK
  <1>6. WindowFits'
    BY <1>0, <1>2, <1>4 DEF WindowFits, Running
  <1>7. MissingIsRight'
    BY <1>0, <1>4, Unmoved DEF SeedInv, MissingIsRight
  <1>8. EstimatesHold'
    BY <1>0, <1>4, Unmoved DEF SeedInv, EstimatesHold
  <1>9. /\ (mode = "LOCAL" /\ store.state = "torn") \/ Wanted(current, Until) \subseteq PeriodsOf(store.lines)
        /\ mode = "MONGODB" => Once(store.lines)
        /\ mode = "MONGODB" => current = range.first \/ Wanted(range.first, current - 1) \subseteq PeriodsOf(store.lines)
    BY <1>0, <1>1 DEF SeedInv, WindowsCached
  <1>10. mode = "MONGODB" => Wanted(range.first, Until) \subseteq PeriodsOf(store.lines)
    BY <1>1, <1>9, WantedGrows
  <1>11. /\ \A p, q : Wanted(p, q)' = Wanted(p, q)
         /\ \A s : PeriodsOf(s)' = PeriodsOf(s)
    BY <1>0, Unmoved DEF PeriodsOf
  <1>12. pc' = "done" => (LastWindow)' = Wanted(current, Until)
    <2>1. pc' = "done" => Wanted(current' - step', range'.last) = Wanted(current, Until)
      BY <1>0, <1>4
    <2> QED
      BY <1>11, <2>1 DEF LastWindow
  <1>13. WindowsCached'
    <2>1. pc' = "load" /\ mode' = "MONGODB" => Wanted(range'.first, current' - 1) \subseteq PeriodsOf(store'.lines)
      BY <1>0, <1>4, <1>10
    <2>2. pc' = "done" /\ mode' = "MONGODB" => Wanted(range'.first, range'.last) \subseteq PeriodsOf(store'.lines)
      BY <1>0, <1>4, <1>10
    <2>3. pc' = "done" /\ mode' # "MONGODB" => store'.state = "torn" \/ LastWindow' \subseteq PeriodsOf(store'.lines)
      BY <1>0, <1>9, <1>12
    <2>4. mode' = "MONGODB" => Once(store.lines)'
      BY <1>0, <1>9 DEF Once
    <2>5. pc' # "slide" /\ (pc' \in Running' => pc' = "load")
      BY <1>4 DEF Running
    <2> QED
      BY <1>11, <2>1, <2>2, <2>3, <2>4, <2>5 DEF WindowsCached
  <1> QED
    BY <1>5, <1>6, <1>7, <1>8, <1>13 DEF SeedInv

\* The file keeps the estimates of the window.
LEMMA LoadFileInv == ASSUME SeedInv, LoadFile PROVE SeedInv'
  <1>0. /\ mode = "LOCAL" /\ pc = "load" /\ pc' = "fetch" /\ store' = Sound(store.lines)
        /\ kept' = InWindow(store.lines) /\ missing' = Wanted(current, Until) \ PeriodsOf(kept')
        /\ UNCHANGED <<given, today, entered, current, fetched, sessions>>
    BY DEF LoadFile
  <1>1. store.lines \in Seq(Estimated) /\ mode' = "LOCAL"
    BY <1>0 DEF SeedInv, SeedTypeOK, given
  <1>2. kept' \in Seq(Estimated) /\ Elements(kept') \subseteq Elements(store.lines)
    BY <1>0, <1>1, SelectType DEF InWindow
  <1>3. store'.lines = store.lines /\ store'.state = "sound"
    BY <1>0 DEF Sound
  <1>4. LookedAt' = kept'
    BY <1>1 DEF LookedAt
  <1> QED
    BY <1>0, <1>2, <1>3, <1>4, LoadInv

\* A collection is asked for its dates only.
LEMMA LoadDatesInv == ASSUME SeedInv, LoadDates PROVE SeedInv'
  <1>0. /\ mode = "MONGODB" /\ pc = "load" /\ pc' = "fetch" /\ store' = store
        /\ kept' = <<>> /\ missing' = Wanted(current, Until) \ PeriodsOf(store.lines)
        /\ UNCHANGED <<given, today, entered, current, fetched, sessions>>
    BY DEF LoadDates
  <1>1. store.lines \in Seq(Estimated) /\ mode' = "MONGODB" /\ store.state \in {"absent", "sound", "torn"}
    BY <1>0 DEF SeedInv, SeedTypeOK, given
  <1>2. kept' \in Seq(Estimated) /\ Elements(kept') = {}
    BY <1>0 DEF Elements
  <1>3. LookedAt' = store.lines
    BY <1>0, <1>1 DEF LookedAt
  <1> QED
    BY <1>0, <1>1, <1>2, <1>3, LoadInv

\* Each action keeps the invariant.
LEMMA SeedNextInv == SeedInv /\ [SeedNext]_seedVars => SeedInv'
  <1> SUFFICES ASSUME SeedInv, [SeedNext]_seedVars PROVE SeedInv'
    OBVIOUS
  <1>0. today \in Days /\ today \in Nat /\ NDays \in Nat
    BY Calendar DEF SeedInv, SeedTypeOK
  <1>1. CASE Midnight
    <2>1. today' = today + 1 /\ today < NDays
      BY <1>1 DEF Midnight
    <2>2. today' \in Days /\ today <= today'
      BY <1>0, <2>1 DEF Days
    <2> QED
      BY <1>1, <2>2, Steady DEF Midnight
  <1>2. CASE StartSingle
    <2>1. PICK r \in Ranges : Prompt(r, r.last + 1 - r.first)
      BY <1>2 DEF StartSingle
    <2> DEFINE days == r.last + 1 - r.first
    <2>2. r.first \in Nat /\ r.last \in Nat /\ r.first <= r.last
      BY <2>1, SeedBounds DEF Prompt
    <2>3. days \in Nat /\ days >= 1
      BY <2>2
    <2>4. Prompt(r, days)
      BY <2>1
    <2> HIDE DEF days
    <2> QED
      BY <2>3, <2>4, PromptInv
  <1>3. CASE StartSplit
    <2>1. PICK r \in Ranges, days \in Windows : Prompt(r, days)
      BY <1>3 DEF StartSplit
    <2>2. days \in Nat /\ days >= 1
      BY SeedBounds
    <2> QED
      BY <2>1, <2>2, PromptInv
  <1>4. CASE LoadFile
    BY <1>4, LoadFileInv
  <1>5. CASE LoadTornFile
    BY <1>5, FailInv DEF LoadTornFile
  <1>6. CASE LoadDates
    BY <1>6, LoadDatesInv
  <1>7. CASE NothingMissing
    BY <1>7, NothingMissingInv
  <1>8. CASE Fetch
    BY <1>8, FetchInv
  <1>9. CASE FetchFails
    BY <1>9, FailInv DEF FetchFails
  <1>10. CASE WriteFile
    BY <1>10, WriteFileInv
  <1>11. CASE InsertDocuments
    BY <1>11, InsertInv
  <1>12. CASE Slide
    BY <1>12, SlideInv
  <1>13. CASE UNCHANGED seedVars
    BY <1>0, <1>13, Steady DEF seedVars
  <1> QED
    BY <1>1, <1>2, <1>3, <1>4, <1>5, <1>6, <1>7, <1>8, <1>9, <1>10, <1>11, <1>12, <1>13 DEF SeedNext

\* In every session, for any calendar, ranges and windows: what is missing,
\* fetched and cached is what the window wants, and what it wanted stays cached.
THEOREM SeedInvariant == SeedSpec => []SeedInv
  BY SeedInitInv, SeedNextInv, PTL DEF SeedSpec

\* Dates stay within the calendar and estimates are estimates, whatever is
\* entered and however often the script is run.
THEOREM SeedTypes == SeedSpec => []SeedTypeOK
  BY SeedInvariant, InvImplies, PTL

\* Whatever ranges and windows periods are asked by, and whatever is cached of
\* them: what is fetched has each missing period once, with all days of it that
\* are over; only the Sunday of the last week of a group is left out.
THEOREM SeededEstimates == SeedSpec => []EstimatesAreWhole
  BY SeedInvariant, InvImplies, PTL

\* When the script says it is done, a collection has every period of the range,
\* and none twice, whatever windows it was filled by; a file has the last window
\* or is torn.
THEOREM SeededRanges == SeedSpec => []SeededIsCached
  BY SeedInvariant, InvImplies, PTL
=============================================================================
