------------------------- MODULE SubscriptionProofs --------------------------
(***************************************************************************)
(* That the client is subscribed to what the configuration names, and that *)
(* the store is muted whichever of the two threads is first, for every     *)
(* configuration and every file system the assumptions allow.              *)
(***************************************************************************)
EXTENDS Subscription, SequenceTheorems, TLAPS

SetupSpec == SetupInit /\ [][SetupNext]_setupVars

-----------------------------------------------------------------------------
(* The invariant. *)

SetupTypes ==
    /\ config \in Config
    /\ phase \in {"loading", "starting", "client", "muting", "active", "failed"}
    /\ raw \in Seq(STRING)
    /\ names \in Seq(DOMAIN EsType)
    /\ toMute \in Seq(PathType)
    /\ types \subseteq DOMAIN EventNameOf
    /\ dirs \subseteq PathType

\* How many of the configured names are resolved, and what they make.
Taken == Len(Groups(config)) - Len(raw)

ResolvedUpTo(ns, rs, n) ==
    /\ ToSet(ns) = {FromStr[rs[i]] : i \in 1 .. n}
    /\ \A i, j \in DOMAIN ns : i < j =>
           /\ ns[i] # ns[j]
           /\ \E k \in 1 .. n :
                  /\ FromStr[rs[k]] = ns[i]
                  /\ \A l \in 1 .. k : FromStr[rs[l]] # ns[j]

\* The names are those of a beginning of the configured ones, and the rest is
\* still to resolve, until there is a client.
NamesResolved ==
    /\ phase = "loading" => names = << >>
    /\ phase \notin {"loading", "failed"} =>
           /\ Valid(config)
           /\ Taken \in 0 .. Len(Groups(config))
           /\ \A i \in 1 .. Len(raw) : raw[i] = Groups(config)[Taken + i]
           /\ ResolvedUpTo(names, Groups(config), Taken)
    /\ phase \in {"client", "muting", "active"} => raw = << >>
    /\ phase = "active" => types = {EsType[names[i]] : i \in DOMAIN names}

\* Once it was decided what to mute the store's directory is muted or next,
\* and what is muted stays so; directories only come to be.
StoreToMute ==
    /\ Directories \subseteq dirs
    /\ /\ phase \in {"muting", "active"}
       /\ HasDirectory(config.path)
       /\ \/ StorePrefix = StoreDirectory(config.path)
          \/ {StorePrefix, Front(StorePrefix)} \cap Directories # {}
       => StorePrefix \in muted \cup ToSet(toMute)
    /\ phase = "active" => toMute = << >>

SetupInv == SetupTypes /\ NamesResolved /\ StoreToMute

-----------------------------------------------------------------------------
(* The tables, and sequences. *)

\* A name in the configuration, the type it subscribes to and the name in the
\* graph are one: the three tables agree.
LEMMA Tables ==
    ASSUME NEW r \in AllNames
    PROVE  /\ FromStr[r] \in DOMAIN EsType
           /\ EsType[FromStr[r]] \in DOMAIN EventNameOf
           /\ EventNameOf[EsType[FromStr[r]]] = r
BY DEF AllNames, FromStr, EsType, EventNameOf

LEMMA FrontProperties ==
    ASSUME NEW S, NEW p \in Seq(S), p # << >>
    PROVE  /\ Front(p) \in Seq(S)
           /\ Len(Front(p)) = Len(p) - 1
           /\ \A i \in 1 .. Len(p) - 1 : Front(p)[i] = p[i]
           /\ Last(p) \in S
           /\ p = Append(Front(p), Last(p))
<1>1. Len(p) \in Nat \ {0}
  BY EmptySeq
<1>2. /\ Front(p) \in Seq(S)
      /\ Len(Front(p)) = Len(p) - 1
      /\ \A i \in 1 .. Len(p) - 1 : Front(p)[i] = p[i]
  <2>1. \A i \in 1 .. Len(p) - 1 : p[i] \in S
    BY <1>1, ElementOfSeq
  <2>2. /\ SubSeq(p, 1, Len(p) - 1) \in Seq(S)
        /\ Len(SubSeq(p, 1, Len(p) - 1)) = Len(p) - 1
    <3> DEFINE q == SubSeq(p, 1, Len(p) - 1)
    <3>1. Len(p) - 1 \in Int /\ 1 \in Int
      BY <1>1
    <3>2. q \in Seq(S) /\ Len(q) = IF 1 <= Len(p) - 1 THEN Len(p) - 1 - 1 + 1 ELSE 0
      BY <2>1, <3>1, SubSeqProperties
    <3> HIDE DEF q
    <3>3. \A n \in Nat : (IF 1 <= n THEN n - 1 + 1 ELSE 0) = n
      OBVIOUS
    <3>4. Len(p) - 1 \in Nat
      BY <1>1
    <3>5. Len(q) = Len(p) - 1
      BY <3>2, <3>3, <3>4
    <3> QED
      BY <3>2, <3>5 DEF q
  <2>3. ASSUME NEW i \in 1 .. Len(p) - 1
        PROVE  SubSeq(p, 1, Len(p) - 1)[i] = p[i]
    BY <1>1
  <2> QED
    BY <2>2, <2>3 DEF Front
<1>3. Last(p) \in S
  BY <1>1, ElementOfSeq DEF Last
<1>4. p = Append(Front(p), Last(p))
  <2> DEFINE q == Append(Front(p), Last(p))
  <2>1. q \in Seq(S) /\ Len(q) = Len(p)
    BY <1>1, <1>2, <1>3, AppendProperties
  <2>2. \A i \in 1 .. Len(p) : p[i] = q[i]
    BY <1>1, <1>2, <1>3, AppendProperties DEF Last
  <2> QED
    BY <2>1, <2>2, SeqEqual
<1> QED
  BY <1>2, <1>3, <1>4

LEMMA GroupsAreStrings ==
    ASSUME NEW c \in Config
    PROVE  Groups(c) \in Seq(STRING)
BY ConfigAssumption, ConcatProperties DEF Groups

-----------------------------------------------------------------------------
(* The names. *)

\* One more name resolved.
LEMMA OneMoreResolved ==
    ASSUME NEW rs \in Seq(AllNames), NEW n \in 0 .. Len(rs) - 1,
           NEW ns \in Seq(DOMAIN EsType), ResolvedUpTo(ns, rs, n)
    PROVE  /\ Resolved(ns, rs[n + 1]) \in Seq(DOMAIN EsType)
           /\ ResolvedUpTo(Resolved(ns, rs[n + 1]), rs, n + 1)
<1> DEFINE x == FromStr[rs[n + 1]]
           new == Resolved(ns, rs[n + 1])
<1>1. Len(rs) \in Nat /\ n \in Nat /\ n + 1 \in 1 .. Len(rs) /\ Len(ns) \in Nat
  BY LenProperties
<1>2. x \in DOMAIN EsType
  BY <1>1, ElementOfSeq, Tables
<1>3. DOMAIN ns = 1 .. Len(ns)
  BY LenProperties
<1>4. {FromStr[rs[i]] : i \in 1 .. n + 1} = {FromStr[rs[i]] : i \in 1 .. n} \cup {x}
  BY <1>1
<1>5. CASE x \in ToSet(ns)
  <2>1. new = ns
    BY <1>3, <1>5 DEF Resolved, Contains, ToSet
  <2>2. {FromStr[rs[i]] : i \in 1 .. n + 1} = ToSet(ns)
    BY <1>4, <1>5 DEF ResolvedUpTo
  <2>3. ASSUME NEW i \in DOMAIN ns, NEW j \in DOMAIN ns, i < j
        PROVE  /\ ns[i] # ns[j]
               /\ \E k \in 1 .. n + 1 : /\ FromStr[rs[k]] = ns[i]
                                        /\ \A l \in 1 .. k : FromStr[rs[l]] # ns[j]
    BY <2>3, <1>1 DEF ResolvedUpTo
  <2> QED
    BY <2>1, <2>2, <2>3 DEF ResolvedUpTo
<1>6. CASE x \notin ToSet(ns)
  <2>1. new = Append(ns, x)
    BY <1>3, <1>6 DEF Resolved, Contains, ToSet
  <2>2. /\ new \in Seq(DOMAIN EsType) /\ Len(new) = Len(ns) + 1
        /\ \A i \in 1 .. Len(ns) : new[i] = ns[i]
        /\ new[Len(ns) + 1] = x
    BY <2>1, <1>1, <1>2, AppendProperties
  <2>3. DOMAIN new = 1 .. Len(ns) + 1
    BY <2>2, LenProperties
  <2> HIDE DEF new
  <2>4. ToSet(new) = ToSet(ns) \cup {x}
    <3>1. DOMAIN ns = 1 .. Len(ns) /\ Len(ns) \in Nat
      BY <1>1
    <3>2. DOMAIN new = DOMAIN ns \cup {Len(ns) + 1}
      BY <2>3, <3>1
    <3> QED
      BY <2>2, <3>1, <3>2 DEF ToSet
  <2>5. ToSet(new) = {FromStr[rs[i]] : i \in 1 .. n + 1}
    BY <1>4, <2>4 DEF ResolvedUpTo
  <2>6. ASSUME NEW i \in DOMAIN new, NEW j \in DOMAIN new, i < j
        PROVE  /\ new[i] # new[j]
               /\ \E k \in 1 .. n + 1 : /\ FromStr[rs[k]] = new[i]
                                        /\ \A l \in 1 .. k : FromStr[rs[l]] # new[j]
    <3>1. i \in 1 .. Len(ns) /\ new[i] = ns[i] /\ ns[i] \in ToSet(ns)
      BY <1>1, <1>3, <2>2, <2>3, <2>6 DEF ToSet
    <3>2. CASE j \in 1 .. Len(ns)
      <4>1. new[j] = ns[j]
        BY <2>2, <3>2
      <4>2. /\ ns[i] # ns[j]
            /\ \E k \in 1 .. n : /\ FromStr[rs[k]] = ns[i]
                                 /\ \A l \in 1 .. k : FromStr[rs[l]] # ns[j]
        BY <1>3, <2>6, <3>1, <3>2 DEF ResolvedUpTo
      <4> QED
        BY <1>1, <3>1, <4>1, <4>2
    <3>3. CASE j \notin 1 .. Len(ns)
      <4>1. new[j] = x
        BY <1>1, <2>2, <2>3, <3>3
      <4>2. PICK k \in 1 .. n : FromStr[rs[k]] = ns[i]
        BY <3>1 DEF ResolvedUpTo
      <4>3. \A l \in 1 .. n : FromStr[rs[l]] \in ToSet(ns)
        BY DEF ResolvedUpTo
      <4>4. \A l \in 1 .. k : FromStr[rs[l]] # x
        BY <1>1, <1>6, <4>3
      <4> QED
        BY <1>1, <1>6, <3>1, <4>1, <4>2, <4>4
    <3> QED
      BY <3>2, <3>3
  <2> QED
    BY <2>2, <2>5, <2>6 DEF ResolvedUpTo, new
<1> QED
  BY <1>5, <1>6

-----------------------------------------------------------------------------
(* Paths. *)

LEMMA FrontOfAppend ==
    ASSUME NEW S, NEW q \in Seq(S), NEW e \in S
    PROVE  Front(Append(q, e)) = q
<1> DEFINE p == Append(q, e)
<1>1. p \in Seq(S) /\ p # << >> /\ Len(p) = Len(q) + 1 /\ \A i \in 1 .. Len(q) : p[i] = q[i]
  BY AppendProperties
<1> HIDE DEF p
<1>2. /\ Front(p) \in Seq(S)
      /\ Len(Front(p)) = Len(p) - 1
      /\ \A i \in 1 .. Len(p) - 1 : Front(p)[i] = p[i]
  BY <1>1, FrontProperties
<1>3. Len(q) \in Nat
  BY LenProperties
<1>4. Len(p) - 1 = Len(q)
  BY <1>1, <1>3
<1>5. Front(p) = q
  BY <1>1, <1>2, <1>4, SeqEqual
<1> QED
  BY <1>5 DEF p

\* The real path is a path; below a link it ends as the path does.
LEMMA RealPath ==
    ASSUME NEW p \in PathType
    PROVE  Real(p) \in PathType
<1>1. CASE p # << >> /\ p[1] \in DOMAIN Link
  <2>1. Link[p[1]] \in PathType /\ Tail(p) \in PathType
    BY <1>1, FileSystemAssumption, HeadTailProperties DEF PathType
  <2> QED
    BY <1>1, <2>1, ConcatProperties DEF Real, PathType
<1>2. CASE ~(p # << >> /\ p[1] \in DOMAIN Link)
  BY <1>2 DEF Real
<1> QED
  BY <1>1, <1>2

LEMMA RealOfLonger ==
    ASSUME NEW p \in PathType, Len(p) > 1
    PROVE  /\ Front(p) \in PathType /\ Last(p) \in STRING
           /\ Real(p) = Append(Real(Front(p)), Last(p))
           /\ Front(Real(p)) = Real(Front(p))
<1>1. Len(p) \in Nat /\ p # << >>
  BY EmptySeq, LenProperties DEF PathType
<1> DEFINE q == Front(p)
           e == Last(p)
<1>2. /\ q \in Seq(STRING) /\ e \in STRING
      /\ Len(q) = Len(p) - 1
      /\ q[1] = p[1]
      /\ p = Append(q, e)
  BY <1>1, FrontProperties DEF PathType
<1> HIDE DEF q, e
<1>3. q # << >>
  <2>1. Len(q) # 0
    BY <1>1, <1>2
  <2> QED
    BY <2>1, EmptySeq
<1>4. Real(q) \in Seq(STRING)
  BY <1>2, RealPath DEF PathType
<1>5. Real(p) = Append(Real(q), e)
  <2>1. CASE p[1] \in DOMAIN Link
    <3> DEFINE a == Link[p[1]]
               b == Tail(q)
    <3>1. a \in Seq(STRING)
      BY <2>1, FileSystemAssumption DEF PathType
    <3>2. b \in Seq(STRING) /\ <<e>> \in Seq(STRING)
      <4>1. b \in Seq(STRING)
        BY <1>2, <1>3, HeadTailProperties
      <4>2. \A S : \A x \in S : <<x>> \in Seq(S)
        OBVIOUS
      <4> QED
        BY <1>2, <4>1, <4>2
    <3>3. Tail(p) = Append(b, e)
      BY <1>2, <1>3, HeadTailAppend
    <3>4. Real(q) = a \o b
      BY <1>2, <1>3, <2>1 DEF Real
    <3>5. Real(p) = a \o Append(b, e)
      BY <1>1, <2>1, <3>3 DEF Real
    <3> HIDE DEF a, b
    <3>6. a \o Append(b, e) = a \o (b \o <<e>>)
      BY <1>2, <3>2, AppendIsConcat
    <3>7. a \o (b \o <<e>>) = (a \o b) \o <<e>>
      BY <3>1, <3>2, ConcatAssociative
    <3>8. (a \o b) \o <<e>> = Append(a \o b, e)
      BY <1>2, <1>4, <3>4, AppendIsConcat
    <3> QED
      BY <3>4, <3>5, <3>6, <3>7, <3>8
  <2>2. CASE p[1] \notin DOMAIN Link
    <3>1. Real(q) = q /\ Real(p) = p
      BY <1>2, <2>2 DEF Real
    <3> QED
      BY <1>2, <3>1
  <2> QED
    BY <2>1, <2>2
<1>6. Front(Real(p)) = Real(q)
  <2>1. \A r \in Seq(STRING) : Front(Append(r, e)) = r
    BY <1>2, FrontOfAppend
  <2> QED
    BY <1>4, <1>5, <2>1
<1> QED
  BY <1>2, <1>5, <1>6 DEF q, e, PathType

\* canonicalize_prefix finds the real path of a directory that has no link on
\* its way, or of which at most the last name was missing at the start.
LEMMA CanonicalIsReal ==
    ASSUME Directories \subseteq dirs, NEW p \in PathType,
           Real(p) = p \/ {Real(p), Front(Real(p))} \cap Directories # {}
    PROVE  CanonicalizePrefix(p) = Real(p)
<1>1. CASE Exists(p)
  BY <1>1 DEF CanonicalizePrefix
<1>2. CASE ~Exists(p)
  <2>1. p # << >>
    BY <1>2, FileSystemAssumption DEF Exists, Real
  <2>2. Len(p) \in Nat \ {0}
    BY <2>1, EmptySeq DEF PathType
  <2>3. CASE Len(p) = 1
    <3>1. Tail(p) = << >> /\ Front(p) = << >>
      <4>1. Tail(p) \in Seq(STRING) /\ Len(Tail(p)) = Len(p) - 1
        BY <2>1, HeadTailProperties DEF PathType
      <4>2. Front(p) \in Seq(STRING) /\ Len(Front(p)) = Len(p) - 1
        BY <2>1, FrontProperties DEF PathType
      <4>3. \A s \in Seq(STRING) : Len(s) = 0 => s = << >>
        BY EmptySeq
      <4>4. Len(p) - 1 = 0
        BY <2>3
      <4> QED
        BY <4>1, <4>2, <4>3, <4>4
    <3>2. p[1] \notin DOMAIN Link
      <4>1. SUFFICES ASSUME p[1] \in DOMAIN Link PROVE FALSE
        OBVIOUS
      <4>2. Link[p[1]] \in Directories /\ Link[p[1]] \in Seq(STRING)
        BY <4>1, FileSystemAssumption DEF PathType
      <4>3. Real(p) = Link[p[1]] \o << >>
        BY <2>1, <3>1, <4>1 DEF Real
      <4>4. Real(p) = Link[p[1]]
        BY <4>2, <4>3, ConcatEmptySeq
      <4> QED
        BY <1>2, <4>2, <4>4 DEF Exists
    <3>3. Real(p) = p /\ Real(<< >>) = << >>
      BY <3>2 DEF Real
    <3>4. p = Append(<< >>, Last(p))
      BY <2>1, <3>1, FrontProperties DEF PathType
    <3> QED
      BY <1>2, <3>1, <3>3, <3>4 DEF CanonicalizePrefix
  <2>4. CASE Len(p) > 1
    <3>1. Real(p) = Append(Real(Front(p)), Last(p)) /\ Front(Real(p)) = Real(Front(p))
      BY <2>4, RealOfLonger
    <3>2. CASE Exists(Front(p))
      BY <1>2, <2>1, <3>1, <3>2 DEF CanonicalizePrefix
    <3>3. CASE ~Exists(Front(p))
      <4>1. Real(p) \notin Directories /\ Front(Real(p)) \notin Directories
        BY <1>2, <3>1, <3>3 DEF Exists
      <4>2. Real(p) = p
        BY <4>1
      <4> QED
        BY <1>2, <3>3, <4>2 DEF CanonicalizePrefix
    <3> QED
      BY <3>2, <3>3
  <2> QED
    BY <2>2, <2>3, <2>4
<1> QED
  BY <1>1, <1>2

LEMMA StoreDirectoryIsPath ==
    ASSUME NEW c \in Config, HasDirectory(c.path)
    PROVE  StoreDirectory(c.path) \in PathType
<1>1. c.path.parts \in Seq(STRING) /\ Cwd \in Seq(STRING) /\ << >> \in Seq(STRING)
  BY ConfigAssumption, FileSystemAssumption DEF PathType
<1>2. c.path.parts # << >>
  <2>1. Len(<< >>) = 0
    BY EmptySeq
  <2> QED
    BY <2>1 DEF HasDirectory
<1>3. Front(c.path.parts) \in Seq(STRING)
  BY <1>1, <1>2, FrontProperties
<1> QED
  BY <1>1, <1>3, ConcatProperties DEF StoreDirectory, PathType

-----------------------------------------------------------------------------
(* The steps. *)

LEMMA InitSetup == SetupInit => SetupInv
<1> SUFFICES ASSUME SetupInit PROVE SetupInv
  OBVIOUS
<1>1. SetupTypes
  BY FileSystemAssumption DEF SetupInit, SetupTypes
<1>2. NamesResolved
  BY DEF SetupInit, NamesResolved
<1>3. StoreToMute
  BY DEF SetupInit, StoreToMute
<1> QED
  BY <1>1, <1>2, <1>3 DEF SetupInv

\* The configured names of a valid configuration are in the table.
LEMMA ValidNames ==
    ASSUME NEW c \in Config, Valid(c)
    PROVE  Groups(c) \in Seq(AllNames)
<1>1. Groups(c) \in Seq(STRING)
  BY GroupsAreStrings
<1>2. Len(Groups(c)) \in Nat /\ DOMAIN Groups(c) = 1 .. Len(Groups(c))
  BY <1>1, LenProperties
<1>3. \A i \in 1 .. Len(Groups(c)) : Groups(c)[i] \in AllNames
  BY <1>2 DEF Valid, Unknown
<1> QED
  BY <1>1, <1>2, <1>3

LEMMA SetupTypesNext ==
    ASSUME SetupInv, [SetupNext]_setupVars
    PROVE  SetupTypes'
<1> USE DEF SetupInv, SetupTypes
<1>1. CASE LoadConfig
  <2>1. Groups(config) \in Seq(STRING) /\ << >> \in Seq(STRING)
    BY GroupsAreStrings
  <2> QED
    BY <1>1, <2>1 DEF LoadConfig
<1>2. CASE ResolveName
  <2>1. Valid(config) /\ Groups(config) \in Seq(AllNames)
    BY <1>2, ValidNames DEF ResolveName, NamesResolved
  <2>2. Head(raw) \in STRING /\ Tail(raw) \in Seq(STRING)
    BY <1>2, HeadTailProperties DEF ResolveName
  <2>3. Head(raw) \in AllNames
    <3>1. Taken \in 0 .. Len(Groups(config)) /\ Len(raw) \in Nat \ {0} /\ Len(Groups(config)) \in Nat
      BY <1>2, <2>1, EmptySeq, LenProperties DEF ResolveName, NamesResolved
    <3>2. Taken + 1 \in 1 .. Len(Groups(config))
      BY <3>1 DEF Taken
    <3>3. Head(raw) = Groups(config)[Taken + 1]
      BY <1>2, <3>1 DEF ResolveName, NamesResolved
    <3> QED
      BY <2>1, <3>2, <3>3, ElementOfSeq
  <2>4. Resolved(names, Head(raw)) \in Seq(DOMAIN EsType)
    BY <2>3, Tables, AppendProperties DEF Resolved
  <2> QED
    BY <1>2, <2>2, <2>4 DEF ResolveName
<1>3. CASE CreateClient
  BY <1>3 DEF CreateClient
<1>4. CASE ChooseMutes
  <2>1. HasDirectory(config.path) => StoreMutePrefix \in PathType
    <3>1. SUFFICES ASSUME HasDirectory(config.path) PROVE StoreMutePrefix \in PathType
      OBVIOUS
    <3> DEFINE p == StoreDirectory(config.path)
    <3>2. p \in PathType
      BY <3>1, StoreDirectoryIsPath
    <3> HIDE DEF p
    <3>3. p # << >> => Front(p) \in PathType /\ Last(p) \in STRING
      BY <3>2, FrontProperties DEF PathType
    <3>4. \A q \in PathType : Real(q) \in PathType
      BY RealPath
    <3>5. \A q \in PathType, e \in STRING : Append(q, e) \in PathType
      BY AppendProperties DEF PathType
    <3>6. CanonicalizePrefix(p) \in PathType
      BY <3>2, <3>3, <3>4, <3>5 DEF CanonicalizePrefix
    <3> QED
      BY <3>6 DEF StoreMutePrefix, p
  <2>2. config.mutes \in Seq(PathType)
    BY ConfigAssumption
  <2>3. toMute' \in Seq(PathType)
    BY <1>4, <2>1, <2>2, AppendProperties DEF ChooseMutes
  <2> QED
    BY <1>4, <2>3 DEF ChooseMutes
<1>5. CASE MutePath
  <2>1. toMute # << >>
    BY <1>5 DEF MutePath
  <2>2. Head(toMute) \in PathType /\ Tail(toMute) \in Seq(PathType)
    BY <2>1, HeadTailProperties
  <2>3. CASE SetupFails
    BY <2>3, <1>5 DEF MutePath, SetupFails
  <2>4. CASE ~SetupFails
    BY <2>2, <2>4, <1>5 DEF MutePath
  <2> QED
    BY <2>3, <2>4
<1>6. CASE Subscribe
  <2>1. ASSUME NEW i \in DOMAIN names
        PROVE  EsType[names[i]] \in DOMAIN EventNameOf
    <3>1. names[i] \in DOMAIN EsType
      BY ElementOfSeq, LenProperties
    <3> QED
      BY <3>1 DEF EsType, EventNameOf
  <2> QED
    BY <1>6, <2>1, EmptySeq DEF Subscribe, SetupFails
<1>7. CASE WriterOpensStore
  <2>1. dirs' \subseteq PathType
    <3>1. CASE HasDirectory(config.path)
      <4> DEFINE d == Real(StoreDirectory(config.path))
      <4>1. d \in PathType
        BY <3>1, StoreDirectoryIsPath, RealPath
      <4>2. dirs' = dirs \cup {SubSeq(d, 1, n) : n \in 0 .. Len(d)}
        BY <1>7, <3>1 DEF WriterOpensStore
      <4> HIDE DEF d
      <4>3. ASSUME NEW n \in 0 .. Len(d) PROVE SubSeq(d, 1, n) \in PathType
        <5>1. \A i \in 1 .. n : d[i] \in STRING
          BY <4>1, ElementOfSeq, LenProperties DEF PathType
        <5>2. n \in Int /\ 1 \in Int
          BY <4>1, LenProperties DEF PathType
        <5> QED
          BY <5>1, <5>2, SubSeqProperties DEF PathType
      <4> QED
        BY <4>2, <4>3
    <3>2. CASE ~HasDirectory(config.path)
      BY <1>7, <3>2 DEF WriterOpensStore
    <3> QED
      BY <3>1, <3>2
  <2> QED
    BY <1>7, <2>1 DEF WriterOpensStore
<1>8. CASE UNCHANGED setupVars
  BY <1>8 DEF setupVars
<1> QED
  BY <1>1, <1>2, <1>3, <1>4, <1>5, <1>6, <1>7, <1>8 DEF SetupNext

LEMMA NamesResolvedNext ==
    ASSUME SetupInv, [SetupNext]_setupVars
    PROVE  NamesResolved'
<1> USE DEF SetupInv
<1> DEFINE G == Groups(config)
<1>g. G \in Seq(STRING) /\ Len(G) \in Nat /\ DOMAIN G = 1 .. Len(G)
  BY GroupsAreStrings, LenProperties DEF SetupTypes
<1>r. Len(raw) \in Nat
  BY LenProperties DEF SetupTypes
<1>1. CASE LoadConfig
  <2>1. G' = G /\ Valid(config)' = Valid(config)
    BY <1>1 DEF LoadConfig, Groups, Valid, Unknown
  <2>2. CASE Valid(config)
    <3>1. phase' = "starting" /\ raw' = G /\ names' = << >>
      BY <1>1, <2>2 DEF LoadConfig, NamesResolved
    <3>2. Taken' = 0
      BY <1>g, <2>1, <3>1 DEF Taken
    <3>3. ResolvedUpTo(<< >>, G, 0)
      BY DEF ResolvedUpTo, ToSet
    <3> HIDE DEF G
    <3>4. NamesResolved' <=>
              /\ Valid(config)' /\ Taken' \in 0 .. Len(G)
              /\ \A i \in 1 .. Len(G) : G[i] = G[0 + i]
              /\ ResolvedUpTo(<< >>, G, 0)
      BY <2>1, <3>1, <3>2 DEF NamesResolved, G
    <3> QED
      BY <1>g, <2>1, <2>2, <3>2, <3>3, <3>4
  <2>3. CASE ~Valid(config)
    BY <1>1, <2>3 DEF LoadConfig, NamesResolved
  <2> QED
    BY <2>2, <2>3
<1>2. CASE ResolveName
  <2>1. /\ phase = "starting" /\ phase' = phase /\ config' = config /\ raw # << >>
        /\ raw' = Tail(raw) /\ names' = Resolved(names, Head(raw))
    BY <1>2 DEF ResolveName
  <2>2. /\ Valid(config) /\ Taken \in 0 .. Len(G)
        /\ \A i \in 1 .. Len(raw) : raw[i] = G[Taken + i]
        /\ ResolvedUpTo(names, G, Taken)
    BY <2>1 DEF NamesResolved
  <2>3. G' = G /\ Valid(config)' = Valid(config)
    BY <2>1 DEF Groups, Valid, Unknown
  <2>4. /\ Len(raw) # 0 /\ Head(raw) = raw[1]
        /\ Tail(raw) \in Seq(STRING) /\ Len(Tail(raw)) = Len(raw) - 1
        /\ \A i \in 1 .. Len(Tail(raw)) : Tail(raw)[i] = raw[i + 1]
    BY <2>1, EmptySeq, HeadTailProperties DEF SetupTypes
  <2>5. Taken = Len(G) - Len(raw) /\ Taken' = Len(G) - Len(Tail(raw))
    BY <2>1, <2>3 DEF Taken
  <2> HIDE DEF G
  <2>6. Taken' = Taken + 1 /\ Taken \in 0 .. Len(G) - 1 /\ Taken + 1 \in 0 .. Len(G)
    BY <1>g, <1>r, <2>2, <2>4, <2>5
  <2>7. Head(raw) = G[Taken + 1]
    BY <1>r, <2>2, <2>4
  <2>8. G \in Seq(AllNames)
    BY <2>2, ValidNames DEF SetupTypes, G
  <2>9. ResolvedUpTo(Resolved(names, G[Taken + 1]), G, Taken + 1)
    BY <2>2, <2>6, <2>8, OneMoreResolved DEF SetupTypes
  <2>10. ASSUME NEW i \in 1 .. Len(Tail(raw))
         PROVE  Tail(raw)[i] = G[Taken + 1 + i]
    <3>1. i + 1 \in 1 .. Len(raw) /\ i \in Nat
      BY <1>r, <2>4
    <3>2. Tail(raw)[i] = G[Taken + (i + 1)]
      BY <2>2, <2>4, <3>1
    <3>3. Taken + (i + 1) = Taken + 1 + i
      BY <1>g, <2>2, <3>1
    <3> QED
      BY <3>2, <3>3
  <2>11. ResolvedUpTo(names, G, Taken)'
    <3>1. ResolvedUpTo(names', G, Taken + 1)
      BY <2>1, <2>7, <2>9
    <3> QED
      BY <2>3, <2>6, <3>1
  <2>12. \A i \in 1 .. Len(raw') : raw'[i] = G'[Taken' + i]
    BY <2>1, <2>3, <2>6, <2>10
  <2>13. Taken' \in 0 .. Len(G') /\ Valid(config)'
    BY <2>2, <2>3, <2>6
  <2> QED
    BY <2>1, <2>11, <2>12, <2>13 DEF NamesResolved, G
<1>3. CASE UNCHANGED <<config, raw, names>> /\ UNCHANGED <<phase, types>>
  <2>1. G' = G /\ Valid(config)' = Valid(config) /\ Taken' = Taken
    BY <1>3 DEF Groups, Valid, Unknown, Taken
  <2>2. ResolvedUpTo(names, G, Taken)' = ResolvedUpTo(names, G, Taken)
    BY <1>3, <2>1 DEF ResolvedUpTo
  <2> QED
    BY <1>3, <2>1, <2>2 DEF NamesResolved
<1>4. CASE /\ UNCHANGED <<config, raw, names>>
           /\ phase \notin {"loading", "failed"} /\ phase' # "loading"
           /\ phase' \in {"client", "muting", "active"} => raw = << >>
           /\ phase' = "active" => types' = {EsType[names[i]] : i \in DOMAIN names}
  <2>1. G' = G /\ Valid(config)' = Valid(config) /\ Taken' = Taken
    BY <1>4 DEF Groups, Valid, Unknown, Taken
  <2>2. ResolvedUpTo(names, G, Taken)' = ResolvedUpTo(names, G, Taken)
    BY <1>4, <2>1 DEF ResolvedUpTo
  <2> QED
    BY <1>4, <2>1, <2>2 DEF NamesResolved
<1>5. CASE CreateClient
  BY <1>4, <1>5 DEF CreateClient
<1>6. CASE ChooseMutes
  BY <1>4, <1>6 DEF ChooseMutes, NamesResolved
<1>7. CASE MutePath
  BY <1>3, <1>4, <1>7 DEF MutePath, SetupFails, NamesResolved
<1>8. CASE Subscribe
  BY <1>4, <1>8 DEF Subscribe, SetupFails, NamesResolved
<1>9. CASE WriterOpensStore
  BY <1>3, <1>9 DEF WriterOpensStore
<1>10. CASE UNCHANGED setupVars
  BY <1>3, <1>10 DEF setupVars
<1> QED
  BY <1>1, <1>2, <1>5, <1>6, <1>7, <1>8, <1>9, <1>10 DEF SetupNext

LEMMA StoreToMuteNext ==
    ASSUME SetupInv, [SetupNext]_setupVars
    PROVE  StoreToMute'
<1> USE DEF SetupInv
<1> DEFINE Found == \/ StorePrefix = StoreDirectory(config.path)
                    \/ {StorePrefix, Front(StorePrefix)} \cap Directories # {}
<1>1. config' = config /\ Directories \subseteq dirs'
  BY DEF SetupNext, LoadConfig, ResolveName, CreateClient, ChooseMutes, MutePath,
         Subscribe, SetupFails, WriterOpensStore, setupVars, StoreToMute
<1>2. /\ StorePrefix' = StorePrefix /\ HasDirectory(config.path)' = HasDirectory(config.path)
      /\ StoreDirectory(config.path)' = StoreDirectory(config.path)
  BY <1>1 DEF StorePrefix, StoreDirectory, HasDirectory, Real
<1>3. Found' <=> Found
  BY <1>2
<1>4. \A s \in Seq(PathType) : DOMAIN s = 1 .. Len(s) /\ Len(s) \in Nat
  BY LenProperties
<1>5. CASE ChooseMutes
  <2>1. SUFFICES ASSUME HasDirectory(config.path), Found PROVE StorePrefix \in ToSet(toMute')
    BY <1>1, <1>2, <1>3, <1>5 DEF ChooseMutes, StoreToMute
  <2>2. StoreMutePrefix = StorePrefix
    BY <2>1, CanonicalIsReal, StoreDirectoryIsPath
       DEF StoreMutePrefix, StorePrefix, StoreToMute, SetupTypes
  <2>3. config.mutes \in Seq(PathType)
    BY ConfigAssumption DEF SetupTypes
  <2>4. CASE Contains(config.mutes, StoreMutePrefix)
    <3>1. toMute' = config.mutes
      BY <1>5, <2>4 DEF ChooseMutes
    <3> QED
      BY <1>4, <2>2, <2>3, <2>4, <3>1 DEF Contains, ToSet
  <2>5. CASE ~Contains(config.mutes, StoreMutePrefix)
    <3>1. toMute' = Append(config.mutes, StorePrefix)
      BY <1>5, <2>1, <2>2, <2>5 DEF ChooseMutes
    <3>2. StorePrefix \in PathType
      BY <2>1, StoreDirectoryIsPath, RealPath DEF StorePrefix, SetupTypes
    <3>3. toMute' \in Seq(PathType) /\ Len(toMute') = Len(config.mutes) + 1
          /\ toMute'[Len(config.mutes) + 1] = StorePrefix
      BY <2>3, <3>1, <3>2, AppendProperties
    <3>4. Len(config.mutes) + 1 \in DOMAIN toMute'
      BY <1>4, <2>3, <3>3
    <3> QED
      BY <3>3, <3>4 DEF ToSet
  <2> QED
    BY <2>4, <2>5
<1>6. CASE MutePath
  <2>1. CASE SetupFails
    BY <1>1, <2>1 DEF SetupFails, StoreToMute
  <2>2. CASE /\ muted' = muted \cup {Head(toMute)}
             /\ toMute' = Tail(toMute)
             /\ UNCHANGED <<config, phase, raw, names, types, dirs, writer>>
    <3>1. /\ Tail(toMute) \in Seq(PathType) /\ Len(Tail(toMute)) = Len(toMute) - 1
          /\ Head(toMute) = toMute[1] /\ Len(toMute) # 0
          /\ \A i \in 1 .. Len(Tail(toMute)) : Tail(toMute)[i] = toMute[i + 1]
      BY <1>6, HeadTailProperties, EmptySeq DEF MutePath, SetupTypes
    <3>2. ASSUME NEW i \in DOMAIN toMute
          PROVE  toMute[i] \in {Head(toMute)} \cup ToSet(Tail(toMute))
      <4>1. i \in 1 .. Len(toMute) /\ Len(toMute) \in Nat
        BY <1>4, <3>2 DEF SetupTypes
      <4>2. CASE i = 1
        BY <3>1, <4>2
      <4>3. CASE i # 1
        <5>1. i - 1 \in 1 .. Len(Tail(toMute)) /\ (i - 1) + 1 = i
          BY <3>1, <4>1, <4>3
        <5>2. Tail(toMute)[i - 1] = toMute[i] /\ i - 1 \in DOMAIN Tail(toMute)
          BY <1>4, <3>1, <5>1
        <5> QED
          BY <5>2 DEF ToSet
      <4> QED
        BY <4>2, <4>3
    <3>3. muted \cup ToSet(toMute) \subseteq muted' \cup ToSet(toMute')
      BY <2>2, <3>2 DEF ToSet
    <3>4. phase' = "muting"
      BY <1>6, <2>2 DEF MutePath
    <3>5. phase = "muting"
      BY <1>6 DEF MutePath
    <3> QED
      BY <1>1, <1>2, <1>3, <3>3, <3>4, <3>5 DEF StoreToMute
  <2> QED
    BY <1>6, <2>1, <2>2 DEF MutePath
<1>7. CASE Subscribe
  BY <1>1, <1>2, <1>3, <1>7 DEF Subscribe, SetupFails, StoreToMute
<1>8. CASE /\ UNCHANGED <<toMute, muted>>
           /\ phase' = phase \/ phase' \notin {"muting", "active"}
  BY <1>1, <1>2, <1>3, <1>8 DEF StoreToMute
<1>9. CASE LoadConfig \/ ResolveName \/ CreateClient
  BY <1>8, <1>9 DEF LoadConfig, ResolveName, CreateClient
<1>10. CASE WriterOpensStore \/ UNCHANGED setupVars
  BY <1>8, <1>10 DEF WriterOpensStore, setupVars
<1> QED
  BY <1>5, <1>6, <1>7, <1>9, <1>10 DEF SetupNext

-----------------------------------------------------------------------------
(* The theorems. *)

\* The invariant is inductive, for every configuration and file system.
THEOREM SetupInvariant == SetupSpec => []SetupInv
<1>1. SetupInit => SetupInv
  BY InitSetup
<1>2. SetupInv /\ [SetupNext]_setupVars => SetupInv'
  BY SetupTypesNext, NamesResolvedNext, StoreToMuteNext DEF SetupInv
<1> QED
  BY <1>1, <1>2, PTL DEF SetupSpec

LEMMA SubscriptionIsConfigured == SetupInv => SubscribedAsConfigured
<1> SUFFICES ASSUME SetupInv, Active PROVE SubscribedAsConfigured
  BY DEF SubscribedAsConfigured
<1> DEFINE G == Groups(config)
<1>1. /\ Valid(config) /\ raw = << >> /\ ResolvedUpTo(names, G, Taken)
      /\ types = {EsType[names[i]] : i \in DOMAIN names}
  BY DEF SetupInv, NamesResolved, Active
<1>2. G \in Seq(AllNames)
  BY <1>1, ValidNames DEF SetupInv, SetupTypes
<1>3. Len(G) \in Nat /\ DOMAIN G = 1 .. Len(G)
  BY <1>2, LenProperties
<1>4. Taken = Len(G)
  <2>1. Len(raw) = 0
    BY <1>1, EmptySeq
  <2> QED
    BY <1>3, <2>1 DEF Taken
<1> HIDE DEF G
<1>5. ResolvedAsDocumented(names, G)
  BY <1>1, <1>3, <1>4 DEF ResolvedUpTo, ResolvedAsDocumented
<1>6. {EventNameOf[t] : t \in types} = ToSet(G)
  <2>1. types = {EsType[n] : n \in ToSet(names)}
    BY <1>1 DEF ToSet
  <2>2. ToSet(names) = {FromStr[r] : r \in ToSet(G)}
    <3>1. ToSet(names) = {FromStr[G[i]] : i \in DOMAIN G}
      BY <1>5 DEF ResolvedAsDocumented
    <3>2. {FromStr[r] : r \in ToSet(G)} = {FromStr[G[i]] : i \in DOMAIN G}
      BY DEF ToSet
    <3> QED
      BY <3>1, <3>2
  <2>3. ToSet(G) \subseteq AllNames
    BY <1>2, <1>3, ElementOfSeq DEF ToSet
  <2>4. \A r \in ToSet(G) : EventNameOf[EsType[FromStr[r]]] = r
    BY <2>3, Tables
  <2> QED
    BY <2>1, <2>2, <2>4
<1> QED
  BY <1>1, <1>5, <1>6 DEF SubscribedAsConfigured, Valid, G

LEMMA MutedIsEnough == SetupInv => StoreIsMuted
<1> SUFFICES ASSUME SetupInv, Active, HasDirectory(config.path),
                    \/ StorePrefix = StoreDirectory(config.path)
                    \/ {StorePrefix, Front(StorePrefix)} \cap Directories # {}
             PROVE  IsMuted(StorePrefix)
  BY DEF StoreIsMuted
<1>1. StorePrefix \in muted
  BY DEF SetupInv, StoreToMute, Active, ToSet
<1>2. StorePrefix \in Seq(STRING)
  BY StoreDirectoryIsPath, RealPath DEF StorePrefix, SetupInv, SetupTypes, PathType
<1>3. IsPrefix(StorePrefix, StorePrefix)
  BY <1>2, LenProperties DEF IsPrefix
<1> QED
  BY <1>1, <1>3 DEF IsMuted

\* A client that receives events is subscribed to exactly the events the
\* configuration names, each once, in the order of their first mention.
THEOREM Subscribed == SetupSpec => []SubscribedAsConfigured
BY SubscriptionIsConfigured, SetupInvariant, PTL

\* The store's directory is muted before the first event, whether the writer
\* has created it before, during or after the choice of the prefix.
THEOREM StoreMuted == SetupSpec => []StoreIsMuted
BY MutedIsEnough, SetupInvariant, PTL
=============================================================================
