------------------------- MODULE CommandLineProofs -------------------------
(***************************************************************************)
(* What an invocation guarantees for any configuration file, however many  *)
(* entries it has, and any way the calls it makes end.                     *)
(***************************************************************************)
EXTENDS CommandLine, TLAPS

NumbersSound == \A n \in DOMAIN Casts : file.numbers[n] \in Accepted(Casts[n])

(* The first m entries are sound, and are what was parsed. *)
ParsedUpTo(m) ==
    /\ m <= Len(file.providers) /\ Len(providers) = m
    /\ \A i \in 1..m :
          /\ file.providers[i].id \in seen_ids
          /\ file.providers[i].id # None
          /\ file.providers[i].manifest_url
          /\ file.providers[i].enabled \in BOOLEAN
          /\ providers[i].provider_id = Strip[file.providers[i].id]
          /\ providers[i].enabled = file.providers[i].enabled
    /\ \A i, j \in 1..m : i # j => file.providers[i].id # file.providers[j].id

(* What each phase has found out about the file. *)
Checked ==
    /\ pc # "read" /\ pc # "exit" => file.form = "mapping" /\ file.database_path
    /\ pc \in {"read", "numbers"} => providers = <<>>
    /\ pc = "numbers" =>
          \A n \in 1..position : n \in DOMAIN Casts => file.numbers[n] \in Accepted(Casts[n])
    /\ pc = "providers" => NumbersSound /\ file.providers # <<>> /\ ParsedUpTo(position)
    /\ pc \in {"open", "run", "close"} => Sound /\ ParsedUpTo(Len(file.providers))
    /\ conn # "none" \/ results # <<>> => Sound

(* Each enabled one of the first m entries has a result. *)
VisitedUpTo(m) ==
    \A i \in 1..m : file.providers[i].enabled =>
        \E k \in DOMAIN results : results[k].provider_id = Strip[file.providers[i].id]

Crawled ==
    /\ pc \notin {"run", "close", "exit"} => results = <<>>
    /\ pc = "run" /\ command = "crawl" => VisitedUpTo(position)
    /\ code = 0 /\ command = "crawl" => Failed = {} /\ VisitedUpTo(Len(file.providers))
    /\ code = 2 => results = <<>>

Released ==
    /\ pc \notin {"close", "exit"} => code = None
    /\ pc = "close" => code \in {0, 1}
    /\ conn = "open" => pc \in {"run", "close", "exit"}
    /\ StoreIsClosed

Inv == TypeOK /\ Checked /\ Crawled /\ Released

LEMMA FileHas ==
    ASSUME TypeOK
    PROVE  /\ file \in File /\ file.providers \in Seq(Entry)
           /\ Len(file.providers) \in Nat
           /\ Strip \in [Texts -> Ids]
           /\ None \notin Texts /\ None \notin BOOLEAN /\ None \notin Nat
           /\ Len(Casts) = 4 /\ DOMAIN Casts = 1..4
           /\ Len(Opening) = 4
  <1>1. file \in File BY CommandLineAssumption DEF TypeOK
  <1>2. file.providers \in Seq(Entry) BY <1>1 DEF File
  <1>3. Len(Casts) = 4 /\ DOMAIN Casts = 1..4 /\ Len(Opening) = 4 BY DEF Casts, Opening
  <1> QED BY <1>1, <1>2, <1>3, CommandLineAssumption

LEMMA InitInv == Init => Inv
  <1> SUFFICES ASSUME Init PROVE Inv OBVIOUS
  <1>1. None \notin Nat BY CommandLineAssumption
  <1>2. TypeOK BY DEF Init, TypeOK, Phases
  <1>3. pc \in {"read", "exit"} /\ code # 0 /\ results = <<>> BY <1>1 DEF Init
  <1>4. Checked BY <1>3 DEF Init, Checked
  <1>5. Crawled BY <1>3 DEF Init, Crawled
  <1>6. Released BY <1>3 DEF Init, Released, StoreIsClosed
  <1> QED BY <1>2, <1>4, <1>5, <1>6 DEF Inv
---------------------------------------------------------------------------
(* Any way out that is not a success keeps everything. *)
LEMMA FailureKeeps ==
    ASSUME Inv,
           UNCHANGED <<command, file, position, seen_ids, providers, results>>,
           code' \in {1, 2, 130}, code' = 2 => results = <<>>,
           \/ pc' = "exit" /\ (conn' = "open" => code' = 130)
           \/ pc = "run" /\ pc' = "close" /\ code' = 1,
           conn' = conn \/ (pc = "close" /\ conn' = "closed")
    PROVE  Inv'
  <1>1. TypeOK /\ Checked /\ Crawled /\ Released BY DEF Inv
  <1>2. TypeOK' BY <1>1 DEF TypeOK, Phases
  <1>3. Sound' = Sound /\ (\A m : ParsedUpTo(m)' = ParsedUpTo(m))
    BY DEF Sound, ParsedUpTo
  <1>4. Checked' BY <1>1, <1>3 DEF Checked
  <1>5. Crawled' BY <1>1 DEF Crawled
  <1>6. Released' BY <1>1 DEF Released, StoreIsClosed
  <1> QED BY <1>2, <1>4, <1>5, <1>6 DEF Inv

(* The phases before the command runs have no result yet. *)
LEMMA ErrorKeeps ==
    ASSUME Inv, pc \in {"read", "numbers", "providers", "open"},
           UNCHANGED <<command, file, position, seen_ids, providers, results, conn>>,
           ConfigError \/ Uncaught
    PROVE  Inv'
  <1>1. results = <<>> /\ conn # "open" BY DEF Inv, Crawled, Released
  <1>2. pc' = "exit" /\ code' \in {1, 2, 130} BY DEF ConfigError, Uncaught, Exit
  <1> QED BY <1>1, <1>2, FailureKeeps
---------------------------------------------------------------------------
(* load_config *)
LEMMA ReadFileKeeps == ASSUME Inv, ReadFile PROVE Inv'
  <1>1. TypeOK /\ Checked /\ Crawled /\ Released BY DEF Inv
  <1>2. /\ pc = "read"
        /\ UNCHANGED <<command, file, seen_ids, providers, conn, results>>
    BY DEF ReadFile, input, config
  <1>3. CASE ConfigError \/ Uncaught
    <2>1. UNCHANGED position BY <1>3 DEF ConfigError, Uncaught, Exit
    <2> QED BY <1>2, <1>3, <2>1, ErrorKeeps
  <1>4. CASE file.form = "mapping" /\ file.database_path /\ Goto("numbers")
    <2>1. pc' = "numbers" /\ position' = 0 /\ code' = code BY <1>4 DEF Goto
    <2>2. results = <<>> /\ code = None /\ conn # "open"
      BY <1>1, <1>2 DEF Crawled, Released
    <2>3. TypeOK' BY <1>1, <1>2, <2>1 DEF TypeOK, Phases
    <2>4. Sound' = Sound BY <1>2 DEF Sound
    <2>5. Checked' BY <1>1, <1>2, <1>4, <2>1, <2>4 DEF Checked
    <2>6. None # 0 /\ None # 2 BY CommandLineAssumption
    <2>7. Crawled' /\ Released'
      BY <1>2, <2>1, <2>2, <2>6 DEF Crawled, Released, StoreIsClosed
    <2> QED BY <2>3, <2>5, <2>7 DEF Inv
  <1> QED BY <1>3, <1>4 DEF ReadFile

(* A check that passes, or the next phase, before the command runs. *)
LEMMA PassKeeps ==
    ASSUME Inv, pc \in {"numbers", "providers", "open"},
           pc' \in {"numbers", "providers", "open"},
           UNCHANGED <<command, file, results, code>>,
           TypeOK', Checked', conn' # "open"
    PROVE  Inv'
  <1>1. results = <<>> /\ code = None BY DEF Inv, Crawled, Released
  <1>2. None # 0 /\ None # 2 BY CommandLineAssumption
  <1>3. Crawled' /\ Released' BY <1>1, <1>2 DEF Crawled, Released, StoreIsClosed
  <1> QED BY <1>3 DEF Inv

LEMMA CheckNumberKeeps == ASSUME Inv, CheckNumber PROVE Inv'
  <1>1. TypeOK /\ Checked /\ Released BY DEF Inv
  <1>2. /\ pc = "numbers" /\ position < 4 /\ position \in Nat
        /\ UNCHANGED <<command, file, seen_ids, providers, conn, results>>
    BY <1>1, FileHas DEF CheckNumber, input, config, TypeOK
  <1>3. CASE ConfigError \/ Uncaught
    <2>1. UNCHANGED position BY <1>3 DEF ConfigError, Uncaught, Exit
    <2> QED BY <1>2, <1>3, <2>1, ErrorKeeps
  <1>4. CASE Advance /\ file.numbers[position + 1] \in Accepted(Casts[position + 1])
    <2>1. pc' = pc /\ position' = position + 1 /\ code' = code BY <1>4 DEF Advance
    <2>2. TypeOK' BY <1>1, <1>2, <2>1 DEF TypeOK
    <2>3. Sound' = Sound BY <1>2 DEF Sound
    <2>4. \A n \in 1..position' : n \in DOMAIN Casts => file.numbers[n] \in Accepted(Casts[n])
      <3>1. \A n \in 1..position' : n \in 1..position \/ n = position + 1 BY <1>2, <2>1
      <3> QED BY <1>1, <1>2, <1>4, <3>1 DEF Checked
    <2>5. \A n : Accepted(n)' = Accepted(n) BY DEF Accepted
    <2>6. Checked' BY <1>1, <1>2, <2>1, <2>3, <2>4, <2>5 DEF Checked
    <2>7. conn' # "open" BY <1>1, <1>2 DEF Released
    <2> QED BY <1>2, <2>1, <2>2, <2>6, <2>7, PassKeeps
  <1> QED BY <1>3, <1>4 DEF CheckNumber

LEMMA NumbersDoneKeeps == ASSUME Inv, NumbersDone PROVE Inv'
  <1>1. TypeOK /\ Checked /\ Released BY DEF Inv
  <1>2. /\ pc = "numbers" /\ position = 4
        /\ UNCHANGED <<command, file, seen_ids, providers, conn, results>>
    BY <1>1, FileHas DEF NumbersDone, input, config
  <1>3. CASE file.providers = <<>>
    <2>1. ConfigError /\ UNCHANGED position BY <1>3 DEF NumbersDone, ConfigError, Exit
    <2> QED BY <1>2, <2>1, ErrorKeeps
  <1>4. CASE file.providers # <<>>
    <2>1. pc' = "providers" /\ position' = 0 /\ code' = code BY <1>4 DEF NumbersDone, Goto
    <2>2. TypeOK' BY <1>1, <1>2, <2>1 DEF TypeOK, Phases
    <2>3. Sound' = Sound BY <1>2 DEF Sound
    <2>4. NumbersSound BY <1>1, <1>2, FileHas DEF Checked, NumbersSound
    <2>5. NumbersSound' BY <1>2, <2>4 DEF NumbersSound
    <2>6. ParsedUpTo(0)'
      <3>1. Len(providers) = 0 /\ 1..0 = {} BY <1>1, <1>2 DEF Checked
      <3>2. Len(file.providers) \in Nat BY <1>1, FileHas
      <3> QED BY <1>2, <3>1, <3>2 DEF ParsedUpTo
    <2>7. Checked' BY <1>1, <1>2, <1>4, <2>1, <2>3, <2>5, <2>6 DEF Checked
    <2>8. conn' # "open" BY <1>1, <1>2 DEF Released
    <2> QED BY <1>2, <2>1, <2>2, <2>7, <2>8, PassKeeps
  <1> QED BY <1>3, <1>4

LEMMA ParseProviderKeeps == ASSUME Inv, ParseProvider PROVE Inv'
  <1>1. TypeOK /\ Checked /\ Released BY DEF Inv
  <1> DEFINE entry == file.providers[position + 1]
  <1>2. /\ pc = "providers" /\ position < Len(file.providers)
        /\ UNCHANGED <<command, file, conn, results>>
    BY <1>1 DEF ParseProvider, input
  <1>3. CASE ConfigError /\ UNCHANGED config
    <2>1. UNCHANGED <<position, seen_ids, providers>>
      BY <1>3 DEF ConfigError, Exit, config
    <2> QED BY <1>2, <1>3, <2>1, ErrorKeeps
  <1>4. CASE /\ entry.id # None /\ ~IsDuplicate(entry.id)
             /\ entry.manifest_url /\ IsFlag(entry.enabled)
             /\ Advance
             /\ seen_ids' = seen_ids \union {entry.id}
             /\ providers' = Append(providers,
                   [provider_id |-> Strip[entry.id], enabled |-> entry.enabled])
    <2>1. pc' = pc /\ position' = position + 1 /\ code' = code BY <1>4 DEF Advance
    <2>2. /\ entry \in Entry /\ position \in Nat /\ position + 1 \in 1..Len(file.providers)
          /\ Len(file.providers) \in Nat
      BY <1>1, <1>2, FileHas DEF TypeOK
    <2>3. entry.id \in Texts /\ entry.id \notin seen_ids /\ entry.enabled \in BOOLEAN
      BY <1>4, <2>2 DEF Entry, IsDuplicate, IsFlag
    <2>4. [provider_id |-> Strip[entry.id], enabled |-> entry.enabled] \in ProviderConfig
      BY <1>1, <2>3, FileHas DEF ProviderConfig
    <2>5. providers \in Seq(ProviderConfig) BY <1>1 DEF TypeOK
    <2>6. TypeOK' BY <1>1, <1>2, <1>4, <2>1, <2>2, <2>3, <2>4, <2>5 DEF TypeOK
    <2>7. ParsedUpTo(position) BY <1>1, <1>2 DEF Checked
    <2>8. ParsedUpTo(position)'
      <3> DEFINE m == position + 1
      <3>1. \A i \in 1..m : i \in 1..position \/ i = m BY <2>2
      <3>2. Len(providers) = position BY <2>7 DEF ParsedUpTo
      <3>3. /\ Len(providers') = m
            /\ providers'[m] = [provider_id |-> Strip[entry.id], enabled |-> entry.enabled]
            /\ \A i \in 1..position : providers'[i] = providers[i]
        BY <1>4, <2>2, <2>4, <2>5, <3>2
      <3>4. \A i \in 1..position :
              /\ file.providers[i].id \in seen_ids
              /\ file.providers[i].id # None
              /\ file.providers[i].manifest_url
              /\ file.providers[i].enabled \in BOOLEAN
              /\ providers[i].provider_id = Strip[file.providers[i].id]
              /\ providers[i].enabled = file.providers[i].enabled
        BY <2>7 DEF ParsedUpTo
      <3>5. \A i, j \in 1..position :
              i # j => file.providers[i].id # file.providers[j].id
        BY <2>7 DEF ParsedUpTo
      <3>6. ASSUME NEW i \in 1..m
            PROVE  /\ file.providers[i].id \in seen_ids'
                   /\ file.providers[i].id # None
                   /\ file.providers[i].manifest_url
                   /\ file.providers[i].enabled \in BOOLEAN
                   /\ providers'[i].provider_id = Strip[file.providers[i].id]
                   /\ providers'[i].enabled = file.providers[i].enabled
        <4>1. CASE i \in 1..position BY <1>4, <3>3, <3>4, <4>1
        <4>2. CASE i = m BY <1>4, <2>3, <3>3, <4>2
        <4> QED BY <3>1, <4>1, <4>2
      <3>7. ASSUME NEW i \in 1..m, NEW j \in 1..m, i # j
            PROVE  file.providers[i].id # file.providers[j].id
        <4>1. CASE i \in 1..position /\ j \in 1..position BY <3>5, <3>7, <4>1
        <4>2. CASE i = m \/ j = m BY <2>3, <3>1, <3>4, <3>7, <4>2
        <4> QED BY <3>1, <4>1, <4>2
      <3>8. m <= Len(file.providers) BY <2>2
      <3>9. position' = m /\ file' = file BY <1>2, <2>1
      <3> HIDE DEF m
      <3> QED BY <3>3, <3>6, <3>7, <3>8, <3>9 DEF ParsedUpTo
    <2>9. Sound' = Sound /\ NumbersSound' = NumbersSound BY <1>2 DEF Sound, NumbersSound
    <2>10. Checked' BY <1>1, <1>2, <2>1, <2>8, <2>9 DEF Checked
    <2>11. conn' # "open" BY <1>1, <1>2 DEF Released
    <2> QED BY <1>2, <2>1, <2>6, <2>10, <2>11, PassKeeps
  <1> QED BY <1>3, <1>4 DEF ParseProvider

LEMMA ProvidersDoneKeeps == ASSUME Inv, ProvidersDone PROVE Inv'
  <1>1. TypeOK /\ Checked /\ Released BY DEF Inv
  <1>2. /\ pc = "providers" /\ position = Len(file.providers)
        /\ pc' = "open" /\ position' = 0 /\ code' = code
        /\ UNCHANGED <<command, file, seen_ids, providers, conn, results>>
    BY DEF ProvidersDone, Goto, input, config
  <1>3. TypeOK' BY <1>1, <1>2 DEF TypeOK, Phases
  <1>4. NumbersSound /\ file.providers # <<>> /\ ParsedUpTo(Len(file.providers))
        /\ file.form = "mapping" /\ file.database_path
    BY <1>1, <1>2 DEF Checked
  <1>5. DOMAIN file.providers = 1..Len(file.providers) BY <1>1, FileHas
  <1>6. Sound BY <1>4, <1>5 DEF Sound, NumbersSound, ParsedUpTo
  <1>7. Sound' /\ ParsedUpTo(Len(file.providers))'
    BY <1>2, <1>4, <1>6 DEF Sound, ParsedUpTo
  <1>8. Checked' BY <1>2, <1>4, <1>7 DEF Checked
  <1>9. conn' # "open" BY <1>1, <1>2 DEF Released
  <1> QED BY <1>2, <1>3, <1>8, <1>9, PassKeeps
---------------------------------------------------------------------------
(* CatalogStore(...) *)
LEMMA OpenKeeps == ASSUME Inv, Open PROVE Inv'
  <1>1. TypeOK /\ Checked /\ Released BY DEF Inv
  <1>2. /\ pc = "open" /\ pc' = pc /\ position' = position + 1 /\ code' = code
        /\ conn' \in {"setup", conn}
        /\ UNCHANGED <<command, file, seen_ids, providers, results>>
    BY DEF Open, Advance, input, config
  <1>3. TypeOK' BY <1>1, <1>2 DEF TypeOK
  <1>4. Sound' = Sound /\ ParsedUpTo(Len(file.providers))' = ParsedUpTo(Len(file.providers))
    BY <1>2 DEF Sound, ParsedUpTo
  <1>5. Checked' BY <1>1, <1>2, <1>4 DEF Checked
  <1>6. conn' # "open" BY <1>1, <1>2 DEF Released
  <1> QED BY <1>2, <1>3, <1>5, <1>6, PassKeeps

LEMMA OpenFailsKeeps == ASSUME Inv, OpenFails PROVE Inv'
  <1>1. /\ ConfigError \/ Uncaught
        /\ UNCHANGED <<command, file, seen_ids, providers, conn, results>>
    BY DEF OpenFails, StorageError, ConfigError, input, config
  <1>2. pc = "open" BY DEF OpenFails
  <1>3. UNCHANGED position BY DEF OpenFails, StorageError, Uncaught, Exit
  <1> QED BY <1>1, <1>2, <1>3, ErrorKeeps

LEMMA OpenedKeeps == ASSUME Inv, Opened PROVE Inv'
  <1>1. TypeOK /\ Checked /\ Crawled /\ Released BY DEF Inv
  <1>2. /\ pc = "open" /\ pc' = "run" /\ position' = 0 /\ code' = code /\ conn' = "open"
        /\ UNCHANGED <<command, file, seen_ids, providers, results>>
    BY DEF Opened, Goto, input, config
  <1>3. results = <<>> /\ code = None /\ None # 0 /\ None # 2
    BY <1>1, <1>2, CommandLineAssumption DEF Crawled, Released
  <1>4. TypeOK' BY <1>1, <1>2 DEF TypeOK, Phases
  <1>5. Sound' = Sound /\ ParsedUpTo(Len(file.providers))' = ParsedUpTo(Len(file.providers))
    BY <1>2 DEF Sound, ParsedUpTo
  <1>6. Checked' BY <1>1, <1>2, <1>5 DEF Checked
  <1>7. Crawled' /\ Released'
    BY <1>2, <1>3 DEF Crawled, Released, StoreIsClosed, VisitedUpTo
  <1> QED BY <1>4, <1>6, <1>7 DEF Inv
---------------------------------------------------------------------------
(* The command *)
LEMMA QueryKeeps == ASSUME Inv, Query PROVE Inv'
  <1>1. TypeOK /\ Checked /\ Crawled /\ Released BY DEF Inv
  <1>2. /\ pc = "run" /\ command # "crawl" /\ pc' = "close" /\ code' \in {0, 1}
        /\ UNCHANGED <<command, file, position, seen_ids, providers, conn, results>>
    BY DEF Query, Leave, input, config
  <1>3. TypeOK' BY <1>1, <1>2 DEF TypeOK, Phases
  <1>4. Sound' = Sound /\ ParsedUpTo(Len(file.providers))' = ParsedUpTo(Len(file.providers))
    BY <1>2 DEF Sound, ParsedUpTo
  <1>5. Checked' BY <1>1, <1>2, <1>4 DEF Checked
  <1>6. Crawled' /\ Released' BY <1>1, <1>2 DEF Crawled, Released, StoreIsClosed
  <1> QED BY <1>3, <1>5, <1>6 DEF Inv

LEMMA CrawlingHas ==
    ASSUME Inv, Crawling
    PROVE  /\ pc = "run" /\ command = "crawl" /\ code = None /\ None # 0 /\ None # 2
           /\ position \in Nat /\ position + 1 \in 1..Len(file.providers)
           /\ Sound /\ ParsedUpTo(Len(file.providers)) /\ VisitedUpTo(position)
           /\ Current \in ProviderConfig
           /\ Current.provider_id = Strip[file.providers[position + 1].id]
           /\ Current.enabled = file.providers[position + 1].enabled
  <1>1. TypeOK /\ Checked /\ Crawled /\ Released BY DEF Inv
  <1>2. pc = "run" /\ command = "crawl" /\ position < Len(providers) BY DEF Crawling
  <1>3. Sound /\ ParsedUpTo(Len(file.providers)) /\ VisitedUpTo(position)
    BY <1>1, <1>2 DEF Checked, Crawled
  <1>4. Len(providers) = Len(file.providers) BY <1>3 DEF ParsedUpTo
  <1>5. position \in Nat /\ position + 1 \in 1..Len(file.providers)
    BY <1>1, <1>2, <1>4, FileHas DEF TypeOK
  <1>6. Current \in ProviderConfig BY <1>1, <1>4, <1>5 DEF Current, TypeOK
  <1>7. /\ Current.provider_id = Strip[file.providers[position + 1].id]
        /\ Current.enabled = file.providers[position + 1].enabled
    BY <1>3, <1>5 DEF ParsedUpTo, Current
  <1> QED BY <1>1, <1>2, <1>3, <1>5, <1>6, <1>7, CommandLineAssumption DEF Released

(* On to the next provider; a result is appended, or the entry is disabled. *)
LEMMA MovesOnKeeps ==
    ASSUME Inv, Crawling, Advance,
           UNCHANGED <<command, file, seen_ids, providers, conn>>,
           results' \in Seq([provider_id : Ids, status : Outcomes]),
           VisitedUpTo(position)'
    PROVE  Inv'
  <1>1. TypeOK /\ Checked /\ Crawled /\ Released BY DEF Inv
  <1>2. pc = "run" /\ command = "crawl" /\ code = None /\ None # 0 /\ None # 2
        /\ position \in Nat /\ Sound
    BY CrawlingHas
  <1>3. pc' = pc /\ position' = position + 1 /\ code' = code BY DEF Advance
  <1>4. TypeOK' BY <1>1, <1>2, <1>3 DEF TypeOK
  <1>5. Sound' = Sound /\ ParsedUpTo(Len(file.providers))' = ParsedUpTo(Len(file.providers))
    BY DEF Sound, ParsedUpTo
  <1>6. Checked' BY <1>1, <1>2, <1>3, <1>5 DEF Checked
  <1>7. Crawled' /\ Released'
    BY <1>1, <1>2, <1>3 DEF Crawled, Released, StoreIsClosed
  <1> QED BY <1>4, <1>6, <1>7 DEF Inv

LEMMA SkipDisabledKeeps == ASSUME Inv, SkipDisabled PROVE Inv'
  <1>1. /\ Crawling /\ Advance /\ Current.enabled = FALSE
        /\ UNCHANGED <<command, file, seen_ids, providers, conn, results>>
    <2>1. Crawling BY DEF SkipDisabled
    <2>2. Current.enabled \in BOOLEAN BY <2>1, CrawlingHas DEF ProviderConfig
    <2> QED BY <2>2 DEF SkipDisabled, input, config
  <1>2. /\ VisitedUpTo(position) /\ position \in Nat
        /\ file.providers[position + 1].enabled = FALSE
    BY <1>1, CrawlingHas
  <1>3. \A i \in 1..(position + 1) : i \in 1..position \/ i = position + 1 BY <1>2
  <1>4. position' = position + 1 BY <1>1 DEF Advance
  <1>5. VisitedUpTo(position)' BY <1>1, <1>2, <1>3, <1>4 DEF VisitedUpTo
  <1>6. results' \in Seq([provider_id : Ids, status : Outcomes])
    BY <1>1 DEF Inv, TypeOK
  <1> QED BY <1>1, <1>5, <1>6, MovesOnKeeps

LEMMA VisitKeeps == ASSUME Inv, NEW status \in Outcomes, Visit(status) PROVE Inv'
  <1> DEFINE new == [provider_id |-> Current.provider_id, status |-> status]
  <1>1. /\ Crawling /\ Advance /\ results' = Append(results, new)
        /\ UNCHANGED <<command, file, seen_ids, providers, conn>>
    BY DEF Visit, input, config
  <1>2. /\ VisitedUpTo(position) /\ position \in Nat
        /\ Current \in ProviderConfig
        /\ Current.provider_id = Strip[file.providers[position + 1].id]
    BY <1>1, CrawlingHas
  <1>3. /\ results \in Seq([provider_id : Ids, status : Outcomes])
        /\ new \in [provider_id : Ids, status : Outcomes]
    BY <1>2 DEF Inv, TypeOK, ProviderConfig
  <1> HIDE DEF new
  <1>4. /\ results' \in Seq([provider_id : Ids, status : Outcomes])
        /\ Len(results) \in Nat /\ DOMAIN results = 1..Len(results)
        /\ DOMAIN results' = 1..(Len(results) + 1)
        /\ results'[Len(results) + 1] = new
        /\ \A k \in DOMAIN results : results'[k] = results[k]
    BY <1>1, <1>3
  <1>5. DOMAIN results \subseteq DOMAIN results' /\ Len(results) + 1 \in DOMAIN results'
    BY <1>4
  <1>6. position' = position + 1 BY <1>1 DEF Advance
  <1>7. ASSUME NEW i \in 1..position', file.providers[i].enabled
        PROVE  \E k \in DOMAIN results' :
                  results'[k].provider_id = Strip[file.providers[i].id]
    <2>1. CASE i \in 1..position BY <1>2, <1>4, <1>5, <1>7, <2>1 DEF VisitedUpTo
    <2>2. CASE i = position + 1 BY <1>2, <1>4, <1>5, <2>2 DEF new
    <2> QED BY <1>2, <1>6, <2>1, <2>2
  <1>8. VisitedUpTo(position)' BY <1>1, <1>7 DEF VisitedUpTo
  <1> QED BY <1>1, <1>4, <1>8, MovesOnKeeps

LEMMA VisitRaisesKeeps == ASSUME Inv, VisitRaises PROVE Inv'
  <1>1. /\ pc = "run" /\ pc' = "close" /\ code' = 1
        /\ UNCHANGED <<command, file, position, seen_ids, providers, conn, results>>
    BY DEF VisitRaises, Crawling, Leave, input, config
  <1> QED BY <1>1, FailureKeeps

LEMMA ReportKeeps == ASSUME Inv, Report PROVE Inv'
  <1>1. TypeOK /\ Checked /\ Crawled /\ Released BY DEF Inv
  <1>2. /\ pc = "run" /\ command = "crawl" /\ position = Len(providers) /\ pc' = "close"
        /\ code' = 1 \/ (Failed = {} /\ code' = 0)
        /\ UNCHANGED <<command, file, position, seen_ids, providers, conn, results>>
    BY DEF Report, Leave, input, config
  <1>3. ParsedUpTo(Len(file.providers)) /\ VisitedUpTo(position)
    BY <1>1, <1>2 DEF Checked, Crawled
  <1>4. VisitedUpTo(Len(file.providers))' BY <1>2, <1>3 DEF ParsedUpTo, VisitedUpTo
  <1>5. Failed' = Failed BY <1>2 DEF Failed
  <1>6. TypeOK' BY <1>1, <1>2 DEF TypeOK, Phases
  <1>7. Sound' = Sound /\ ParsedUpTo(Len(file.providers))' = ParsedUpTo(Len(file.providers))
    BY <1>2 DEF Sound, ParsedUpTo
  <1>8. Checked' BY <1>1, <1>2, <1>7 DEF Checked
  <1>9. Crawled' /\ Released'
    BY <1>1, <1>2, <1>4, <1>5 DEF Crawled, Released, StoreIsClosed
  <1> QED BY <1>6, <1>8, <1>9 DEF Inv

LEMMA CloseKeeps == ASSUME Inv, Close PROVE Inv'
  <1>1. TypeOK /\ Checked /\ Crawled /\ Released BY DEF Inv
  <1>2. /\ pc = "close" /\ pc' = "exit" /\ conn' = "closed"
        /\ UNCHANGED <<command, file, position, seen_ids, providers, results, code>>
    BY DEF Close, input, config
  <1>3. TypeOK' BY <1>1, <1>2 DEF TypeOK, Phases
  <1>4. Sound' = Sound /\ Failed' = Failed
        /\ VisitedUpTo(Len(file.providers))' = VisitedUpTo(Len(file.providers))
    BY <1>2 DEF Sound, Failed, VisitedUpTo
  <1>5. Checked' BY <1>1, <1>2, <1>4 DEF Checked
  <1>6. Crawled' /\ Released' BY <1>1, <1>2, <1>4 DEF Crawled, Released, StoreIsClosed
  <1> QED BY <1>3, <1>5, <1>6 DEF Inv

LEMMA InterruptKeeps == ASSUME Inv, Interrupt PROVE Inv'
  <1>1. /\ UNCHANGED <<command, file, position, seen_ids, providers, results>>
        /\ conn' = conn \/ (pc = "close" /\ conn' = "closed")
        /\ \/ pc = "run" /\ pc' = "close" /\ code' = 1
           \/ pc' = "exit" /\ code' = 130
    BY DEF Interrupt, Leave, Exit, input, config
  <1> QED BY <1>1, FailureKeeps
---------------------------------------------------------------------------
LEMMA NextInv == Inv /\ [Next]_vars => Inv'
  <1> SUFFICES ASSUME Inv, [Next]_vars PROVE Inv' OBVIOUS
  <1>1. CASE ReadFile \/ CheckNumber \/ NumbersDone \/ ParseProvider \/ ProvidersDone
    BY <1>1, ReadFileKeeps, CheckNumberKeeps, NumbersDoneKeeps, ParseProviderKeeps,
       ProvidersDoneKeeps
  <1>2. CASE Open \/ Opened \/ OpenFails
    BY <1>2, OpenKeeps, OpenedKeeps, OpenFailsKeeps
  <1>3. CASE Query \/ SkipDisabled \/ VisitRaises \/ Report
    BY <1>3, QueryKeeps, SkipDisabledKeeps, VisitRaisesKeeps, ReportKeeps
  <1>4. CASE \E status \in Outcomes : Visit(status) BY <1>4, VisitKeeps
  <1>5. CASE Close \/ Interrupt BY <1>5, CloseKeeps, InterruptKeeps
  <1>6. CASE UNCHANGED vars
    BY <1>6 DEF vars, Inv, TypeOK, Checked, Crawled, Released, Sound, NumbersSound,
                ParsedUpTo, VisitedUpTo, Failed, StoreIsClosed
  <1> QED BY <1>1, <1>2, <1>3, <1>4, <1>5, <1>6 DEF Next

(* The inductive invariant of an invocation.                               *)
THEOREM CommandInvariant == Spec => []Inv
  <1> QED BY InitInv, NextInv, PTL DEF Spec

(* Type correctness, for configurations of any length. *)
THEOREM CommandTypeOK == Spec => []TypeOK
  <1>1. Inv => TypeOK BY DEF Inv
  <1> QED BY <1>1, CommandInvariant, PTL

(* A fault anywhere in the file, however long its list of providers, is    *)
(* found before the database is touched or a provider asked.               *)
THEOREM CommandConfigIsSettledFirst == Spec => []ConfigIsSettledFirst
  <1>1. Inv => ConfigIsSettledFirst BY DEF Inv, Checked, ConfigIsSettledFirst
  <1> QED BY <1>1, CommandInvariant, PTL

(* Exit code 0 of a crawl vouches for each enabled entry of the file.      *)
THEOREM CommandExitTellsTheOutcome == Spec => []ExitTellsTheOutcome
  <1>1. ASSUME Inv PROVE ExitTellsTheOutcome
    <2>1. Crawled BY <1>1 DEF Inv
    <2>2. ASSUME Failed = {} PROVE \A k \in DOMAIN results : results[k].status # "failed"
      BY <2>2 DEF Failed
    <2>3. DOMAIN file.providers = 1..Len(file.providers) BY <1>1, FileHas DEF Inv
    <2> QED BY <2>1, <2>2, <2>3 DEF Crawled, VisitedUpTo, ExitTellsTheOutcome
  <1> QED BY <1>1, CommandInvariant, PTL

(* Whichever way the command ends, the database is closed behind it.       *)
THEOREM CommandStoreIsClosed == Spec => []StoreIsClosed
  <1>1. Inv => StoreIsClosed BY DEF Inv, Released
  <1> QED BY <1>1, CommandInvariant, PTL
---------------------------------------------------------------------------
(* Where the results come from: while the crawl runs, each from one of the *)
(* entries it has been through.                                            *)
Sourced ==
    pc = "run" =>
        \A k \in DOMAIN results : \E i \in 1..position :
            results[k].provider_id = Strip[file.providers[i].id]

(* What is left of NoProviderTwice: a crawl visits a provider twice only   *)
(* if the file spells its id in two ways, alike once they are stripped.    *)
OnlyRespelledIdsRepeat ==
    \A j, k \in DOMAIN results :
        j # k /\ results[j].provider_id = results[k].provider_id =>
            \E m, n \in DOMAIN file.providers :
                /\ file.providers[m].id # file.providers[n].id
                /\ Strip[file.providers[m].id] = results[j].provider_id
                /\ Strip[file.providers[n].id] = results[j].provider_id

(* Only Visit adds a result, and only a crawl under way moves on.          *)
LEMMA ResultsFrom ==
    ASSUME Inv, [Next]_vars, ~ \E status \in Outcomes : Visit(status)
    PROVE  /\ UNCHANGED <<file, results>>
           /\ pc' = "run" => \/ pc = "run" /\ position' \in {position, position + 1}
                             \/ results = <<>>
  <1>1. CASE ReadFile \/ CheckNumber \/ NumbersDone \/ ParseProvider \/ ProvidersDone
    BY <1>1 DEF ReadFile, CheckNumber, NumbersDone, ParseProvider, ProvidersDone, Goto,
                Advance, Exit, ConfigError, Uncaught, input, config
  <1>2. CASE Open \/ OpenFails
    BY <1>2 DEF Open, OpenFails, Advance, Exit, StorageError, Uncaught, input, config
  <1>3. CASE Opened
    BY <1>3 DEF Opened, Goto, input, config, Inv, Crawled
  <1>4. CASE Query \/ SkipDisabled \/ VisitRaises \/ Report
    BY <1>4 DEF Query, SkipDisabled, VisitRaises, Report, Leave, Advance, Crawling,
                input, config
  <1>5. CASE Close \/ Interrupt
    BY <1>5 DEF Close, Interrupt, Leave, Exit, input, config
  <1>6. CASE UNCHANGED vars BY <1>6 DEF vars
  <1> QED BY <1>1, <1>2, <1>3, <1>4, <1>5, <1>6 DEF Next

(* A new result is that of the next entry, whose id no earlier entry has   *)
(* as written: if a result has it already, the spellings differ.           *)
LEMMA VisitSourced ==
    ASSUME Inv, Sourced, OnlyRespelledIdsRepeat, NEW status \in Outcomes, Visit(status)
    PROVE  Sourced' /\ OnlyRespelledIdsRepeat'
  <1> DEFINE new == [provider_id |-> Current.provider_id, status |-> status]
             here == position + 1
  <1>1. /\ Crawling /\ pc' = pc /\ position' = here /\ results' = Append(results, new)
        /\ file' = file
    BY DEF Visit, Advance, input, config
  <1>2. /\ pc = "run" /\ position \in Nat /\ here \in 1..Len(file.providers) /\ Sound
        /\ Current.provider_id = Strip[file.providers[here].id]
    BY <1>1, CrawlingHas
  <1>3. new.provider_id = Strip[file.providers[here].id] BY <1>2
  <1> HIDE DEF new
  <1>4. /\ DOMAIN results = 1..Len(results) /\ Len(results) \in Nat
        /\ DOMAIN results' = 1..(Len(results) + 1)
        /\ results'[Len(results) + 1] = new
        /\ \A k \in DOMAIN results : results'[k] = results[k]
    BY <1>1 DEF Inv, TypeOK
  <1>5. DOMAIN file.providers = 1..Len(file.providers) BY FileHas DEF Inv
  <1>6. \A i \in 1..position : i \in 1..here /\ i \in DOMAIN file.providers /\ i # here
    BY <1>2, <1>5
  <1>7. \A k \in DOMAIN results : \E i \in 1..position :
           results[k].provider_id = Strip[file.providers[i].id]
    BY <1>2 DEF Sourced
  <1>8. Sourced'
    <2> SUFFICES ASSUME NEW k \in DOMAIN results'
                 PROVE  \E i \in 1..here :
                           results'[k].provider_id = Strip[file.providers[i].id]
      BY <1>1 DEF Sourced
    <2>1. CASE k \in DOMAIN results BY <1>4, <1>6, <1>7, <2>1
    <2>2. CASE k = Len(results) + 1 BY <1>2, <1>3, <1>4, <2>2
    <2> QED BY <1>4, <2>1, <2>2
  <1>9. ASSUME NEW k \in DOMAIN results, results[k].provider_id = new.provider_id
        PROVE  \E m \in DOMAIN file.providers :
                  /\ file.providers[m].id # file.providers[here].id
                  /\ Strip[file.providers[m].id] = new.provider_id
    <2>1. PICK i \in 1..position : results[k].provider_id = Strip[file.providers[i].id]
      BY <1>7
    <2>2. file.providers[i].id # file.providers[here].id
      BY <1>2, <1>5, <1>6 DEF Sound
    <2> QED BY <1>6, <1>9, <2>1, <2>2
  <1>10. here \in DOMAIN file.providers BY <1>2, <1>5
  <1>11. OnlyRespelledIdsRepeat'
    <2> SUFFICES ASSUME NEW j \in DOMAIN results', NEW k \in DOMAIN results', j # k,
                        results'[j].provider_id = results'[k].provider_id
                 PROVE  \E m, n \in DOMAIN file.providers :
                           /\ file.providers[m].id # file.providers[n].id
                           /\ Strip[file.providers[m].id] = results'[j].provider_id
                           /\ Strip[file.providers[n].id] = results'[j].provider_id
      BY <1>1 DEF OnlyRespelledIdsRepeat
    <2>1. CASE j \in DOMAIN results /\ k \in DOMAIN results
      BY <1>4, <2>1 DEF OnlyRespelledIdsRepeat
    <2>2. CASE j = Len(results) + 1 BY <1>3, <1>4, <1>9, <1>10, <2>2
    <2>3. CASE k = Len(results) + 1 BY <1>3, <1>4, <1>9, <1>10, <2>3
    <2> QED BY <1>4, <2>1, <2>2, <2>3
  <1> QED BY <1>8, <1>11

(* Blanks are the one way past the check for duplicate ids: a provider is  *)
(* visited twice only if the file spells its id in two ways.               *)
THEOREM CommandOnlyRespelledIdsRepeat == Spec => []OnlyRespelledIdsRepeat
  <1>1. Init => Sourced /\ OnlyRespelledIdsRepeat
    BY DEF Init, Sourced, OnlyRespelledIdsRepeat
  <1>2. ASSUME Inv, Sourced, OnlyRespelledIdsRepeat, [Next]_vars
        PROVE  Sourced' /\ OnlyRespelledIdsRepeat'
    <2>1. CASE \E status \in Outcomes : Visit(status) BY <1>2, <2>1, VisitSourced
    <2>2. CASE ~ \E status \in Outcomes : Visit(status)
      <3>1. /\ UNCHANGED <<file, results>>
            /\ pc' = "run" => \/ pc = "run" /\ position' \in {position, position + 1}
                              \/ results = <<>>
        BY <1>2, <2>2, ResultsFrom
      <3>2. OnlyRespelledIdsRepeat' BY <1>2, <3>1 DEF OnlyRespelledIdsRepeat
      <3>3. position \in Nat BY <1>2 DEF Inv, TypeOK
      <3>4. \A i \in 1..position : i \in 1..(position + 1) BY <3>3
      <3>5. Sourced' BY <1>2, <3>1, <3>4 DEF Sourced
      <3> QED BY <3>2, <3>5
    <2> QED BY <2>1, <2>2
  <1> QED BY <1>1, <1>2, CommandInvariant, PTL DEF Spec
=============================================================================
