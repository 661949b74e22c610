-------------------------- MODULE PublishingProofs --------------------------
(***************************************************************************)
(* Theorems about Publishing, for any number of segments, builds, deaths.  *)
(*                                                                         *)
(* What a build has written so far is its own (Written): when it comes to  *)
(* the manifest, the index is signed by the key the manifest advertises,   *)
(* and when it is through, the whole directory is one build (Consistent).  *)
(* A new key differs from every key in the directory (Keys), so a          *)
(* directory of an earlier key does not pass for one of the key on disk.   *)
(***************************************************************************)
EXTENDS Publishing, TLAPS

Keys ==
    /\ private_key \in Nat => private_key <= keys
    /\ key <= keys
    /\ IsWhole(Manifest) => public[Manifest].key <= keys
    /\ IsWhole(Index) => public[Index].key <= keys
    /\ bpc = "create" =>
          /\ private_key = Torn
          /\ IsWhole(Manifest) => public[Manifest].key < key
          /\ IsWhole(Index) => public[Index].key < key

Written ==
    /\ bpc # "idle" => builds < MaxBuilds
    /\ open => bpc = "write" /\ public[Order[turn]] = Torn /\ ~complete
    /\ bpc = "write" =>
          /\ private_key = key
          /\ \A n \in 1..(Latest + 2) :
                n < turn => public[Order[n]] = Document(Order[n])

Consistent ==
    complete =>
        /\ IsWhole(Index) /\ IsWhole(Manifest)
        /\ public[Index].key = public[Manifest].key
        /\ \A v \in Segments : IsWhole(v) /\ public[v].stamp = public[Index].digest[v]

(* A crawl that is left alone holds what the directory holds.              *)
Undisturbed ==
    quiet =>
        /\ complete
        /\ cpc = "index" => trusted = public[Manifest].key
        /\ cpc = "segment" => listed = public[Index].digest

(* An index lists one build, and a crawl takes what its index lists.       *)
Crawling ==
    /\ IsWhole(Index) => \E n \in Nat : public[Index].digest = Uniform(n)
    /\ \E n \in Nat : listed = Uniform(n) /\ (cpc = "segment" => taken \subseteq {n})
    /\ cpc \in {"manifest", "index"} => taken = {}
    /\ cpc = "segment" => marker < Latest

Inv ==
    /\ TypeOK /\ Keys /\ Written /\ Consistent /\ Undisturbed /\ Crawling
    /\ ManifestIsPublishedLast /\ OneBuildPerCrawl /\ QuietCrawlSucceeds

---------------------------------------------------------------------------
(* The files and their order. *)

LEMMA OrderOfFiles ==
    /\ \A n \in Segments : Order[n] = n
    /\ Order[Latest + 1] = Index /\ Order[Latest + 2] = Manifest
    /\ \A n \in 1..(Latest + 2) : Order[n] \in Files
    /\ \A m, n \in 1..(Latest + 2) : m # n => Order[m] # Order[n]
    /\ \A v \in Segments : v \in 1..(Latest + 2) /\ v \in Nat
  <1>1. /\ Latest \in Nat /\ Latest + 1 \notin Segments /\ Latest + 2 \notin Segments
        /\ Latest + 1 # Latest + 2
        /\ Latest + 1 \in 1..(Latest + 2) /\ Latest + 2 \in 1..(Latest + 2)
        /\ \A v \in Segments : v \in 1..(Latest + 2) /\ v \in Nat
    BY NamesAssumption DEF Segments
  <1>2. \A n \in 1..(Latest + 2) : n \in Segments \/ n = Latest + 1 \/ n = Latest + 2
    BY NamesAssumption DEF Segments
  <1>3. /\ \A n \in Segments : Order[n] = n
        /\ Order[Latest + 1] = Index /\ Order[Latest + 2] = Manifest
    BY <1>1 DEF Order
  <1>4. Index \notin Segments /\ Manifest \notin Segments /\ Index # Manifest
    BY NamesAssumption
  <1> QED BY <1>1, <1>2, <1>3, <1>4 DEF Files

(* What is in the directory has the fields its name says. *)
LEMMA WholeFiles ==
    ASSUME TypeOK
    PROVE  /\ IsWhole(Index) => public[Index] \in IndexDocument
           /\ IsWhole(Manifest) => public[Manifest] \in ManifestDocument
           /\ \A v \in Segments : IsWhole(v) => public[v] \in Segment
  <1>1. /\ Index \in Files /\ Manifest \in Files /\ Segments \subseteq Files
        /\ Index # Manifest /\ Index \notin Segments /\ Manifest \notin Segments
    BY NamesAssumption DEF Files
  <1>2. \A f \in Files : public[f] \in Documents(f) \union {None, Torn} BY DEF TypeOK
  <1> QED BY <1>1, <1>2 DEF IsWhole, Documents

LEMMA UniformIsTyped == \A n \in Nat : Uniform(n) \in [Segments -> Nat]
  BY DEF Uniform

LEMMA DocumentIsTyped ==
    ASSUME TypeOK, NEW f \in Files
    PROVE  Document(f) \in Documents(f) /\ Document(f) \notin {None, Torn}
  <1>1. key \in Nat /\ stamp \in Nat BY DEF TypeOK
  <1>2. Listed \in [Segments -> Nat] BY <1>1, UniformIsTyped DEF Listed
  <1>3. Document(f) \in Documents(f)
    BY <1>1, <1>2 DEF Document, Documents, IndexDocument, ManifestDocument, Segment
  <1>4. Documents(f) \intersect {None, Torn} = {}
    BY DocumentsAssumption DEF Documents
  <1> QED BY <1>3, <1>4
---------------------------------------------------------------------------
LEMMA InitInv == Init => Inv
  <1> SUFFICES ASSUME Init PROVE Inv OBVIOUS
  <1>1. /\ private_key = None /\ bpc = "idle" /\ turn = 1 /\ open = FALSE
        /\ key = 0 /\ stamp = 0 /\ keys = 0 /\ cpc = "idle" /\ trusted = 0
        /\ listed = Uniform(0) /\ marker = 0 /\ taken = {} /\ result = None
        /\ quiet = FALSE /\ builds = 0 /\ deaths = 0
        /\ complete = (public = Shipped)
    BY DEF Init
  <1>2. /\ Index \in Files /\ Manifest \in Files /\ Segments \subseteq Files
        /\ Index # Manifest /\ Index \notin Segments /\ Manifest \notin Segments
    BY NamesAssumption DEF Files
  <1>3. /\ DOMAIN public = Files
        /\ \A f \in Files : public[f] \in Documents(f) \union {None, Torn}
    BY <1>2, UniformIsTyped
    DEF Init, Shipped, Nothing, Documents, Segment, IndexDocument, ManifestDocument
  <1>4. TypeOK
    <2>1. 1 \in 1..(Latest + 2) /\ 0 \in 0..Latest /\ 0 \in 0..MaxBuilds /\ 0 \in 0..MaxDeaths
      BY NamesAssumption, DeathsAssumption
    <2>2. complete \in BOOLEAN BY <1>1
    <2> QED BY <1>1, <1>3, <2>1, <2>2, UniformIsTyped DEF TypeOK
  <1>5. CASE public = Nothing
    <2>1. ~IsWhole(Index) /\ ~IsWhole(Manifest) BY <1>2, <1>5 DEF Nothing, IsWhole
    <2>2. complete = FALSE
      <3>1. public[Index] = None BY <1>2, <1>5 DEF Nothing
      <3>2. Shipped[Index] \in IndexDocument
        BY <1>2, UniformIsTyped DEF Shipped, IndexDocument
      <3> QED BY <1>1, <3>1, <3>2, DocumentsAssumption
    <2> QED BY <1>1, <1>4, <2>1, <2>2, NamesAssumption
        DEF Inv, Keys, Written, Consistent, Undisturbed, Crawling,
            ManifestIsPublishedLast, OneBuildPerCrawl, QuietCrawlSucceeds
  <1>6. CASE public = Shipped
    <2>1. /\ public[Index] = [key |-> 0, digest |-> Uniform(0)]
          /\ public[Manifest] = [key |-> 0]
          /\ \A v \in Segments : public[v] = [stamp |-> 0]
      BY <1>2, <1>6 DEF Shipped
    <2>2. /\ IsWhole(Index) /\ IsWhole(Manifest) /\ \A v \in Segments : IsWhole(v)
      BY <2>1, DocumentsAssumption, UniformIsTyped
      DEF IsWhole, IndexDocument, ManifestDocument, Segment
    <2>3. Keys BY <1>1, <2>1, NamesAssumption DEF Keys
    <2>4. Consistent BY <2>1, <2>2 DEF Consistent, Uniform
    <2>5. Crawling BY <1>1, <2>1 DEF Crawling
    <2>6. ManifestIsPublishedLast
      BY <1>1, <2>1, NamesAssumption DEF ManifestIsPublishedLast
    <2> QED BY <1>1, <1>4, <2>3, <2>4, <2>5, <2>6
        DEF Inv, Written, Undisturbed, OneBuildPerCrawl, QuietCrawlSucceeds
  <1> QED BY <1>5, <1>6 DEF Init

---------------------------------------------------------------------------
(* build() up to the first file: only its own state and the key file move. *)

(* The key file changes when no index is signed by what it held. *)
LEMMA PrepareKeeps ==
    ASSUME Inv, Build \/ LoadKey \/ LoadKeyFails \/ CreateKey \/ SaveKey
                \/ BuildDies \/ TornKeyDeleted
    PROVE  Inv'
  <1>1. /\ TypeOK /\ Keys /\ Written /\ Consistent /\ Undisturbed /\ Crawling
        /\ ManifestIsPublishedLast /\ OneBuildPerCrawl /\ QuietCrawlSucceeds
    BY DEF Inv
  <1>2. UNCHANGED <<public, complete, builds, cpc, trusted, listed, marker, taken, result, quiet>>
    BY DEF Build, LoadKey, LoadKeyFails, CreateKey, SaveKey, BuildDies, TornKeyDeleted,
           disk, builder, crawler
  <1>3. \A f : IsWhole(f)' <=> IsWhole(f) BY <1>2 DEF IsWhole
  <1>4. Consistent' /\ Undisturbed' /\ Crawling' /\ OneBuildPerCrawl' /\ QuietCrawlSucceeds'
    BY <1>1, <1>2, <1>3
    DEF Consistent, Undisturbed, Crawling, OneBuildPerCrawl, QuietCrawlSucceeds
  <1>5. /\ keys \in Nat /\ key \in Nat /\ stamp \in Nat
        /\ IsWhole(Index) => public[Index].key \in Nat
        /\ IsWhole(Manifest) => public[Manifest].key \in Nat
    BY <1>1, WholeFiles DEF TypeOK, IndexDocument, ManifestDocument
  <1>6. 1 \in 1..(Latest + 2) BY NamesAssumption
  <1>7. CASE Build
    <2>1. UNCHANGED <<private_key, keys, key, stamp, turn, open, deaths>>
          /\ bpc = "idle" /\ bpc' = "load" /\ builds < MaxBuilds
      BY <1>7 DEF Build, disk
    <2>2. TypeOK' BY <1>1, <1>2, <2>1 DEF TypeOK
    <2>3. Keys' BY <1>1, <1>2, <1>3, <2>1 DEF Keys
    <2>4. Written' BY <1>1, <1>2, <2>1 DEF Written
    <2>5. ManifestIsPublishedLast'
      BY <1>1, <1>2, <1>3, <2>1 DEF ManifestIsPublishedLast, SignedByKeyOnDisk
    <2> QED BY <1>4, <2>2, <2>3, <2>4, <2>5 DEF Inv
  <1>8. CASE LoadKey
    <2>1. /\ UNCHANGED <<private_key, keys, deaths>> /\ private_key \in Nat
          /\ key' = private_key /\ bpc = "load"
          /\ bpc' = "write" /\ turn' = 1 /\ open' = FALSE /\ stamp' \in Nat
      BY <1>5, <1>8 DEF LoadKey, Compose, disk
    <2>2. TypeOK' BY <1>1, <1>2, <1>6, <2>1 DEF TypeOK
    <2>3. Keys' BY <1>1, <1>2, <1>3, <2>1 DEF Keys
    <2>4. Written' BY <1>1, <1>2, <2>1 DEF Written
    <2>5. ManifestIsPublishedLast'
      BY <1>1, <1>2, <1>3, <2>1 DEF ManifestIsPublishedLast, SignedByKeyOnDisk
    <2> QED BY <1>4, <2>2, <2>3, <2>4, <2>5 DEF Inv
  <1>9. CASE LoadKeyFails \/ BuildDies
    <2>1. /\ UNCHANGED <<private_key, keys, key, stamp>>
          /\ bpc' = "idle" /\ turn' \in 1..(Latest + 2) /\ deaths' \in 0..MaxDeaths
          /\ open' = FALSE
      BY <1>1, <1>6, <1>9, DeathsAssumption
      DEF LoadKeyFails, BuildDies, disk, TypeOK, Written
    <2>2. TypeOK' BY <1>1, <1>2, <2>1 DEF TypeOK
    <2>3. Keys' BY <1>1, <1>2, <1>3, <2>1 DEF Keys
    <2>4. Written' BY <1>1, <1>2, <2>1 DEF Written
    <2>5. ManifestIsPublishedLast'
      BY <1>1, <1>2, <1>3, <2>1 DEF ManifestIsPublishedLast, SignedByKeyOnDisk
    <2> QED BY <1>4, <2>2, <2>3, <2>4, <2>5 DEF Inv
  <1>10. CASE CreateKey
    <2>1. /\ private_key' = Torn /\ keys' = keys + 1 /\ key' = keys + 1 /\ bpc' = "create"
          /\ bpc = "load" /\ UNCHANGED <<stamp, turn, open, deaths>>
      BY <1>10 DEF CreateKey
    <2>2. TypeOK' BY <1>1, <1>2, <1>5, <2>1 DEF TypeOK
    <2>3. Keys' BY <1>1, <1>2, <1>3, <1>5, <2>1, NamesAssumption DEF Keys
    <2>4. Written' BY <1>1, <1>2, <2>1 DEF Written
    <2>5. ManifestIsPublishedLast'
      BY <1>2, <1>3, <1>5, <2>1, NamesAssumption DEF ManifestIsPublishedLast
    <2> QED BY <1>4, <2>2, <2>3, <2>4, <2>5 DEF Inv
  <1>11. CASE SaveKey
    <2>1. /\ bpc = "create" /\ private_key' = key /\ UNCHANGED <<keys, key, deaths>>
          /\ bpc' = "write" /\ turn' = 1 /\ open' = FALSE /\ stamp' \in Nat
      BY <1>5, <1>11 DEF SaveKey, Compose
    <2>2. TypeOK' BY <1>1, <1>2, <1>5, <1>6, <2>1 DEF TypeOK
    <2>3. Keys' BY <1>1, <1>2, <1>3, <1>5, <2>1 DEF Keys
    <2>4. Written' BY <1>1, <1>2, <2>1 DEF Written
    <2>5. IsWhole(Manifest) => public[Manifest].key < key BY <1>1, <2>1 DEF Keys
    <2>6. ManifestIsPublishedLast'
      BY <1>2, <1>3, <1>5, <2>1, <2>5 DEF ManifestIsPublishedLast
    <2> QED BY <1>4, <2>2, <2>3, <2>4, <2>6 DEF Inv
  <1>12. CASE TornKeyDeleted
    <2>1. /\ private_key' = None /\ UNCHANGED <<keys, bpc, key, stamp, turn, open, deaths>>
          /\ bpc = "idle"
      BY <1>12 DEF TornKeyDeleted, builder
    <2>2. TypeOK' BY <1>1, <1>2, <2>1 DEF TypeOK
    <2>3. Keys' BY <1>1, <1>2, <1>3, <2>1, NamesAssumption DEF Keys
    <2>4. Written' BY <1>1, <1>2, <2>1 DEF Written
    <2>5. ManifestIsPublishedLast'
      BY <1>2, <1>3, <1>5, <2>1, NamesAssumption DEF ManifestIsPublishedLast
    <2> QED BY <1>4, <2>2, <2>3, <2>4, <2>5 DEF Inv
  <1> QED BY <1>7, <1>8, <1>9, <1>10, <1>11, <1>12

---------------------------------------------------------------------------
(* A file is truncated: for readers it is gone. *)
LEMMA OpenFileKeeps ==
    ASSUME Inv, OpenFile
    PROVE  Inv'
  <1>1. /\ TypeOK /\ Keys /\ Written /\ Crawling
        /\ ManifestIsPublishedLast /\ OneBuildPerCrawl
    BY DEF Inv
  <1>2. /\ bpc = "write" /\ open = FALSE /\ open' = TRUE
        /\ complete' = FALSE /\ quiet' = FALSE
        /\ UNCHANGED <<private_key, keys, bpc, key, stamp, turn, builds, deaths,
                      cpc, trusted, listed, marker, taken, result>>
    BY <1>1 DEF OpenFile, crawler, TypeOK
  <1> DEFINE f == Order[turn]
  <1>3. public' = [public EXCEPT ![f] = Torn] BY DEF OpenFile
  <1>4. turn \in 1..(Latest + 2) /\ f \in Files /\ DOMAIN public = Files
    BY <1>1, OrderOfFiles DEF TypeOK
  <1>5. Index \in Files /\ Manifest \in Files BY DEF Files
  <1>6. \A g \in Files : public'[g] = IF g = f THEN Torn ELSE public[g]
    BY <1>3, <1>4
  <1>7. \A g \in Files : IsWhole(g)' => IsWhole(g) /\ public'[g] = public[g]
    BY <1>6 DEF IsWhole
  <1>8. TypeOK'
    <2>1. DOMAIN public' = Files BY <1>3, <1>4
    <2>2. \A g \in Files : public'[g] \in Documents(g) \union {None, Torn}
      BY <1>1, <1>6 DEF TypeOK
    <2> QED BY <1>1, <1>2, <2>1, <2>2 DEF TypeOK
  <1>9. Keys' BY <1>1, <1>2, <1>5, <1>7 DEF Keys
  <1>10. Written'
    <2>1. public'[Order[turn]] = Torn BY <1>4, <1>6
    <2>2. ASSUME NEW n \in 1..(Latest + 2), n < turn
          PROVE  public'[Order[n]] = Document(Order[n])
      <3>1. Order[n] \in Files /\ Order[n] # f
        <4>1. n # turn BY <1>4, <2>2, NamesAssumption
        <4> QED BY <1>4, <4>1, OrderOfFiles
      <3>2. public[Order[n]] = Document(Order[n]) BY <1>1, <1>2, <2>2 DEF Written
      <3> QED BY <1>6, <3>1, <3>2
    <2>3. \A g : Document(g)' = Document(g) BY <1>2 DEF Document, Listed
    <2> QED BY <1>1, <1>2, <2>1, <2>2, <2>3 DEF Written
  <1>11. Crawling' BY <1>1, <1>2, <1>5, <1>7 DEF Crawling
  <1>12. ManifestIsPublishedLast'
    <2>1. CASE IsWhole(Index)'
      BY <1>1, <1>2, <1>5, <1>7, <2>1
      DEF ManifestIsPublishedLast, SignedByKeyOnDisk, IsWhole
    <2>2. CASE ~IsWhole(Index)' BY <2>2 DEF ManifestIsPublishedLast, IsWhole
    <2> QED BY <2>1, <2>2
  <1> QED BY <1>1, <1>2, <1>8, <1>9, <1>10, <1>11, <1>12
      DEF Inv, Consistent, Undisturbed, OneBuildPerCrawl, QuietCrawlSucceeds

(* A file is filled.  With the last one the directory is one build. *)
LEMMA WriteFileKeeps ==
    ASSUME Inv, WriteFile
    PROVE  Inv'
  <1>1. /\ TypeOK /\ Keys /\ Written /\ Consistent /\ Undisturbed /\ Crawling
        /\ ManifestIsPublishedLast /\ OneBuildPerCrawl /\ QuietCrawlSucceeds
    BY DEF Inv
  <1>2. /\ bpc = "write" /\ open = TRUE /\ open' = FALSE
        /\ UNCHANGED <<private_key, keys, key, stamp, deaths, quiet,
                      cpc, trusted, listed, marker, taken, result>>
    BY <1>1 DEF WriteFile, crawler, TypeOK
  <1> DEFINE f == Order[turn]
  <1>3. public' = [public EXCEPT ![f] = Document(f)] BY DEF WriteFile
  <1>4. /\ turn \in 1..(Latest + 2) /\ f \in Files /\ DOMAIN public = Files
        /\ key \in Nat /\ stamp \in Nat
    BY <1>1, OrderOfFiles DEF TypeOK
  <1>5. Index \in Files /\ Manifest \in Files /\ Segments \subseteq Files
        /\ Index # Manifest /\ Index \notin Segments /\ Manifest \notin Segments
    BY NamesAssumption DEF Files
  <1>6. \A g \in Files : public'[g] = IF g = f THEN Document(f) ELSE public[g]
    BY <1>3, <1>4
  <1>7. private_key = key /\ key <= keys BY <1>1, <1>2 DEF Written, Keys
  <1>8. \A n \in 1..(Latest + 2) : n <= turn => public'[Order[n]] = Document(Order[n])
    <2> SUFFICES ASSUME NEW n \in 1..(Latest + 2), n <= turn
                 PROVE  public'[Order[n]] = Document(Order[n])
      OBVIOUS
    <2>1. CASE n = turn BY <1>4, <1>6, <2>1
    <2>2. CASE n # turn
      <3>1. n < turn BY <1>4, <2>2, NamesAssumption
      <3>2. Order[n] \in Files /\ Order[n] # f BY <1>4, <2>2, OrderOfFiles
      <3>3. public[Order[n]] = Document(Order[n]) BY <1>1, <1>2, <3>1 DEF Written
      <3> QED BY <1>6, <3>2, <3>3
    <2> QED BY <2>1, <2>2
  <1>9. \A g : Document(g)' = Document(g) BY <1>2 DEF Document, Listed
  <1>10. /\ Document(Index) = [key |-> key, digest |-> Uniform(stamp)]
         /\ Document(Manifest) = [key |-> key]
         /\ \A v \in Segments : Document(v) = [stamp |-> stamp]
    BY <1>5 DEF Document, Listed
  <1>11. \A g \in Files : IsWhole(g)' =>
             \/ public'[g] = Document(g)
             \/ IsWhole(g) /\ public'[g] = public[g]
    BY <1>6 DEF IsWhole
  <1>12. /\ bpc' \in {"idle", "write"} /\ turn' \in 1..(Latest + 2)
         /\ builds' \in 0..MaxBuilds /\ complete' \in BOOLEAN
         /\ bpc' = "write" => turn' = turn + 1
         /\ turn = Latest + 2 => complete' = TRUE
         /\ turn # Latest + 2 => complete' = complete
    <2>1. CASE turn = Latest + 2
      <3>1. bpc' = "idle" /\ turn' = 1 /\ complete' = TRUE /\ builds' = builds + 1
        BY <2>1 DEF WriteFile, IsLast
      <3>2. builds < MaxBuilds BY <1>1, <1>2 DEF Written
      <3> QED BY <1>1, <2>1, <3>1, <3>2, NamesAssumption, DeathsAssumption DEF TypeOK
    <2>2. CASE turn # Latest + 2
      <3>1. turn' = turn + 1 /\ UNCHANGED <<bpc, complete, builds>>
        BY <2>2 DEF WriteFile, IsLast
      <3> QED BY <1>1, <1>2, <1>4, <2>2, <3>1, NamesAssumption DEF TypeOK
    <2> QED BY <2>1, <2>2
  <1>13. TypeOK'
    <2>1. DOMAIN public' = Files BY <1>3, <1>4
    <2>2. \A g \in Files : public'[g] \in Documents(g) \union {None, Torn}
      BY <1>1, <1>4, <1>6, DocumentIsTyped DEF TypeOK
    <2> QED BY <1>1, <1>2, <1>12, <2>1, <2>2 DEF TypeOK
  <1>14. Keys'
    <2>1. IsWhole(Manifest)' => public'[Manifest].key <= keys
      BY <1>1, <1>5, <1>7, <1>10, <1>11 DEF Keys
    <2>2. IsWhole(Index)' => public'[Index].key <= keys
      BY <1>1, <1>5, <1>7, <1>10, <1>11 DEF Keys
    <2> QED BY <1>1, <1>2, <1>7, <1>12, <2>1, <2>2 DEF Keys
  <1>15. Written'
    <2>1. ASSUME bpc' = "write", NEW n \in 1..(Latest + 2), n < turn'
          PROVE  public'[Order[n]] = Document(Order[n])'
      <3>1. n <= turn BY <1>4, <1>12, <2>1, NamesAssumption
      <3> QED BY <1>8, <1>9, <3>1
    <2>2. bpc' # "idle" => builds' < MaxBuilds
      <3>1. bpc' # "idle" => builds' = builds BY DEF WriteFile
      <3> QED BY <1>1, <1>2, <3>1 DEF Written
    <2> QED BY <1>2, <1>7, <2>1, <2>2 DEF Written
  <1>16. Consistent'
    <2>1. CASE turn = Latest + 2
      <3>1. \A n \in 1..(Latest + 2) : public'[Order[n]] = Document(Order[n])
        BY <1>8, <2>1, NamesAssumption
      <3>2. /\ public'[Index] = Document(Index) /\ public'[Manifest] = Document(Manifest)
            /\ \A v \in Segments : public'[v] = Document(v)
        <4>1. Latest + 1 \in 1..(Latest + 2) /\ Latest + 2 \in 1..(Latest + 2)
          BY NamesAssumption
        <4> QED BY <3>1, <4>1, OrderOfFiles
      <3>3. IsWhole(Index)' /\ IsWhole(Manifest)' /\ \A v \in Segments : IsWhole(v)'
        BY <1>1, <1>5, <3>2, DocumentIsTyped DEF IsWhole
      <3> QED BY <1>10, <3>2, <3>3 DEF Consistent, Uniform
    <2>2. CASE turn # Latest + 2
      BY <1>1, <1>2, <1>12, <2>2 DEF Consistent, Written
    <2> QED BY <2>1, <2>2
  <1>17. quiet = FALSE BY <1>1, <1>2 DEF Written, Undisturbed, TypeOK
  <1>18. Undisturbed' /\ QuietCrawlSucceeds' BY <1>2, <1>17 DEF Undisturbed, QuietCrawlSucceeds
  <1>19. Crawling'
    <2>1. IsWhole(Index)' => \E n \in Nat : public'[Index].digest = Uniform(n)
      BY <1>1, <1>4, <1>5, <1>10, <1>11 DEF Crawling
    <2> QED BY <1>1, <1>2, <2>1 DEF Crawling
  <1>20. ManifestIsPublishedLast'
    <2> SUFFICES ASSUME IsWhole(Manifest)', public'[Manifest].key = private_key,
                        IsWhole(Index)'
                 PROVE  public'[Index].key = private_key
      BY <1>2 DEF ManifestIsPublishedLast, SignedByKeyOnDisk, IsWhole
    <2>1. CASE f = Index
      BY <1>5, <1>6, <1>7, <1>10, <2>1
    <2>2. CASE f = Manifest
      <3>1. turn = Latest + 2
        <4>1. Latest + 2 \in 1..(Latest + 2) BY NamesAssumption
        <4> QED BY <1>4, <2>2, <4>1, OrderOfFiles
      <3>2. Latest + 1 \in 1..(Latest + 2) /\ Latest + 1 <= turn BY <3>1, NamesAssumption
      <3>3. public'[Index] = Document(Index) BY <1>8, <3>2, OrderOfFiles
      <3> QED BY <1>7, <1>10, <3>3
    <2>3. CASE f # Index /\ f # Manifest
      <3>1. /\ public'[Index] = public[Index] /\ public'[Manifest] = public[Manifest]
        BY <1>5, <1>6, <2>3
      <3> QED BY <1>1, <3>1 DEF ManifestIsPublishedLast, SignedByKeyOnDisk, IsWhole
    <2> QED BY <2>1, <2>2, <2>3
  <1> QED BY <1>1, <1>2, <1>13, <1>14, <1>15, <1>16, <1>18, <1>19, <1>20
      DEF Inv, OneBuildPerCrawl

---------------------------------------------------------------------------
(* The crawl: what it read before it acts on still is what the directory   *)
(* holds, if no build has touched it since.                                *)
LEMMA CrawlKeeps ==
    ASSUME Inv, CrawlStep \/ CrawlDies
    PROVE  Inv'
  <1>1. /\ TypeOK /\ Keys /\ Written /\ Consistent /\ Undisturbed /\ Crawling
        /\ ManifestIsPublishedLast /\ OneBuildPerCrawl /\ QuietCrawlSucceeds
    BY DEF Inv
  <1>2. UNCHANGED <<private_key, public, keys, complete, bpc, key, stamp, turn, open, builds>>
    BY DEF CrawlStep, CrawlDies, Start, ReadManifest, ReadIndex, ReadSegment,
           CrawlerRests, disk, builder
  <1>3. /\ \A f : IsWhole(f)' <=> IsWhole(f)
        /\ \A f : Document(f)' = Document(f)
    BY <1>2 DEF IsWhole, Document, Listed
  <1>4. Keys' /\ Written' /\ Consistent' /\ ManifestIsPublishedLast'
    BY <1>1, <1>2, <1>3
    DEF Keys, Written, Consistent, ManifestIsPublishedLast, SignedByKeyOnDisk
  <1>5. /\ IsWhole(Index) => public[Index] \in IndexDocument
        /\ IsWhole(Manifest) => public[Manifest] \in ManifestDocument
        /\ \A v \in Segments : IsWhole(v) => public[v] \in Segment
    BY <1>1, WholeFiles
  <1>6. CASE Start
    <2>1. /\ cpc' = "manifest" /\ result' = None /\ taken' = {} /\ quiet' = complete
          /\ UNCHANGED <<trusted, listed, marker, deaths>>
      BY <1>6 DEF Start
    <2>2. TypeOK' BY <1>1, <1>2, <2>1 DEF TypeOK
    <2>3. Undisturbed' BY <1>2, <2>1 DEF Undisturbed
    <2>4. Crawling' BY <1>1, <1>2, <1>3, <2>1 DEF Crawling
    <2>5. QuietCrawlSucceeds' BY <2>1, NamesAssumption DEF QuietCrawlSucceeds
    <2> QED BY <1>4, <2>1, <2>2, <2>3, <2>4, <2>5 DEF Inv, OneBuildPerCrawl
  <1>7. CASE CrawlDies
    <2>1. /\ cpc' = "idle" /\ deaths' \in 0..MaxDeaths
          /\ UNCHANGED <<trusted, listed, marker, taken, result, quiet>>
      BY <1>1, <1>7, DeathsAssumption DEF CrawlDies, TypeOK
    <2>2. TypeOK' BY <1>1, <1>2, <2>1 DEF TypeOK
    <2>3. Undisturbed' /\ QuietCrawlSucceeds'
      BY <1>1, <1>2, <2>1 DEF Undisturbed, QuietCrawlSucceeds
    <2>4. Crawling' BY <1>1, <1>2, <1>3, <2>1 DEF Crawling
    <2> QED BY <1>1, <1>4, <2>1, <2>2, <2>3, <2>4 DEF Inv, OneBuildPerCrawl
  <1>8. ASSUME cpc # "idle", ~quiet, Refuse, UNCHANGED <<quiet, deaths>> PROVE Inv'
    <2>1. /\ cpc' = "idle" /\ result' = "failed"
          /\ UNCHANGED <<trusted, listed, marker, taken, quiet, deaths>>
      BY <1>8 DEF Refuse, End
    <2>2. TypeOK' BY <1>1, <1>2, <2>1 DEF TypeOK
    <2>3. Undisturbed' /\ QuietCrawlSucceeds'
      BY <1>8, <2>1 DEF Undisturbed, QuietCrawlSucceeds
    <2>4. Crawling' BY <1>1, <1>2, <1>3, <2>1 DEF Crawling
    <2> QED BY <1>1, <1>4, <2>1, <2>2, <2>3, <2>4 DEF Inv, OneBuildPerCrawl
  <1>9. CASE ReadManifest
    <2>1. cpc = "manifest" /\ UNCHANGED <<quiet, deaths>>
      BY <1>9 DEF ReadManifest, CrawlerRests
    <2>2. CASE IsWhole(Manifest)
      <3>1. /\ trusted' = public[Manifest].key /\ cpc' = "index"
            /\ UNCHANGED <<listed, marker, taken, result>>
        BY <1>9, <2>2 DEF ReadManifest
      <3>2. TypeOK' BY <1>1, <1>2, <1>5, <2>1, <2>2, <3>1 DEF TypeOK, ManifestDocument
      <3>3. Undisturbed' /\ QuietCrawlSucceeds'
        BY <1>1, <1>2, <2>1, <3>1 DEF Undisturbed, QuietCrawlSucceeds
      <3>4. Crawling' BY <1>1, <1>2, <1>3, <2>1, <3>1 DEF Crawling
      <3> QED BY <1>1, <1>4, <3>1, <3>2, <3>3, <3>4 DEF Inv, OneBuildPerCrawl
    <2>3. CASE ~IsWhole(Manifest)
      <3>1. ~quiet BY <1>1, <2>3 DEF Undisturbed, Consistent
      <3>2. Refuse BY <1>9, <2>3 DEF ReadManifest
      <3> QED BY <1>8, <2>1, <3>1, <3>2
    <2> QED BY <2>2, <2>3
  <1>10. CASE ReadIndex
    <2>1. cpc = "index" /\ taken = {} /\ UNCHANGED <<quiet, deaths>>
      BY <1>1, <1>10 DEF ReadIndex, CrawlerRests, Crawling
    <2>2. CASE IndexVerifies
      <3>1. /\ listed' = public[Index].digest
            /\ \/ cpc' = "idle" /\ result' = "up-to-date"
               \/ cpc' = "segment" /\ result' = result /\ marker # Latest
            /\ UNCHANGED <<trusted, marker, taken>>
        BY <1>10, <2>2 DEF ReadIndex, End
      <3>2. IsWhole(Index) BY <2>2 DEF IndexVerifies
      <3>3. PICK n \in Nat : public[Index].digest = Uniform(n)
        BY <1>1, <3>2 DEF Crawling
      <3>4. TypeOK'
        BY <1>1, <1>2, <2>1, <3>1, <3>3, UniformIsTyped DEF TypeOK
      <3>5. Undisturbed' /\ QuietCrawlSucceeds'
        BY <1>1, <1>2, <2>1, <3>1 DEF Undisturbed, QuietCrawlSucceeds
      <3>6. Crawling'
        <4>1. marker # Latest => marker < Latest BY <1>1, NamesAssumption DEF TypeOK
        <4>2. listed' = Uniform(n) /\ taken' \subseteq {n} BY <2>1, <3>1, <3>3
        <4> QED BY <1>2, <1>3, <3>1, <3>3, <4>1, <4>2 DEF Crawling
      <3> QED BY <1>1, <1>4, <3>1, <3>4, <3>5, <3>6 DEF Inv, OneBuildPerCrawl
    <2>3. CASE ~IndexVerifies
      <3>1. ~quiet
        BY <1>1, <2>1, <2>3 DEF Undisturbed, Consistent, IndexVerifies
      <3>2. Refuse BY <1>10, <2>3 DEF ReadIndex
      <3> QED BY <1>8, <2>1, <3>1, <3>2
    <2> QED BY <2>2, <2>3
  <1>11. CASE ReadSegment
    <2>1. cpc = "segment" /\ marker < Latest /\ UNCHANGED <<quiet, deaths>>
      BY <1>1, <1>11 DEF ReadSegment, CrawlerRests, Crawling
    <2> DEFINE v == marker + 1
    <2>2. v \in Segments /\ v \in 0..Latest /\ marker \in Nat
      BY <1>1, <2>1, NamesAssumption DEF TypeOK, Segments
    <2>3. CASE DigestMatches(v)
      <3>1. /\ marker' = v /\ taken' = taken \union {public[v].stamp}
            /\ \/ v = Latest /\ cpc' = "idle" /\ result' = "ok"
               \/ v # Latest /\ UNCHANGED <<cpc, result>>
            /\ UNCHANGED <<trusted, listed>>
        BY <1>11, <2>3 DEF ReadSegment, End
      <3>2. IsWhole(v) /\ public[v].stamp = listed[v] BY <2>3 DEF DigestMatches
      <3>3. PICK n \in Nat : listed = Uniform(n) /\ taken \subseteq {n}
        BY <1>1, <2>1 DEF Crawling
      <3>4. taken' \subseteq {n} BY <2>2, <3>1, <3>2, <3>3 DEF Uniform
      <3>5. TypeOK' BY <1>1, <1>2, <2>1, <2>2, <3>1, <3>4 DEF TypeOK
      <3>6. Undisturbed' /\ QuietCrawlSucceeds'
        BY <1>1, <1>2, <2>1, <3>1 DEF Undisturbed, QuietCrawlSucceeds
      <3>7. Crawling'
        <4>1. v # Latest => v < Latest BY <2>1, <2>2, NamesAssumption
        <4> QED BY <1>1, <1>2, <1>3, <2>1, <3>1, <3>3, <3>4, <4>1 DEF Crawling
      <3>8. OneBuildPerCrawl' BY <3>4 DEF OneBuildPerCrawl
      <3> QED BY <1>4, <3>5, <3>6, <3>7, <3>8 DEF Inv
    <2>4. CASE ~DigestMatches(v)
      <3>1. ~quiet
        BY <1>1, <2>1, <2>2, <2>4 DEF Undisturbed, Consistent, DigestMatches
      <3>2. Refuse BY <1>11, <2>4 DEF ReadSegment
      <3> QED BY <1>8, <2>1, <3>1, <3>2
    <2> QED BY <2>3, <2>4
  <1> QED BY <1>6, <1>7, <1>9, <1>10, <1>11 DEF CrawlStep

LEMMA NextInv == Inv /\ [Next]_vars => Inv'
  <1> SUFFICES ASSUME Inv, [Next]_vars PROVE Inv' OBVIOUS
  <1>1. CASE CrawlStep \/ CrawlDies BY <1>1, CrawlKeeps
  <1>2. CASE OpenFile BY <1>2, OpenFileKeeps
  <1>3. CASE WriteFile BY <1>3, WriteFileKeeps
  <1>4. CASE Build \/ LoadKey \/ LoadKeyFails \/ CreateKey \/ SaveKey
             \/ BuildDies \/ TornKeyDeleted
    BY <1>4, PrepareKeeps
  <1>5. CASE UNCHANGED vars
    BY <1>5 DEF vars, disk, builder, crawler, Inv, TypeOK, Keys, Written, Consistent,
                Undisturbed, Crawling, ManifestIsPublishedLast, SignedByKeyOnDisk,
                OneBuildPerCrawl, QuietCrawlSucceeds, IsWhole, Document, Listed
  <1> QED BY <1>1, <1>2, <1>3, <1>4, <1>5 DEF Next, BuildStep

---------------------------------------------------------------------------
(* The inductive invariant of publishing and crawling. *)
THEOREM PublishingInvariant == Spec => []Inv
  <1> QED BY InitInv, NextInv, PTL DEF Spec

(* Type correctness: among others no file holds another's document. *)
THEOREM PublishingTypeOK == Spec => []TypeOK
  <1>1. Inv => TypeOK BY DEF Inv
  <1> QED BY <1>1, PublishingInvariant, PTL

(* The order build() writes in keeps an advertised key and the signature   *)
(* of the index together, through kills and a first build over files that  *)
(* were signed by a key nobody has.                                        *)
THEOREM PublishingManifestIsLast == Spec => []ManifestIsPublishedLast
  <1>1. Inv => ManifestIsPublishedLast BY DEF Inv
  <1> QED BY <1>1, PublishingInvariant, PTL

(* However builds and a crawl interleave, the crawl takes one build.       *)
THEOREM PublishingOneBuildPerCrawl == Spec => []OneBuildPerCrawl
  <1>1. Inv => OneBuildPerCrawl BY DEF Inv
  <1> QED BY <1>1, PublishingInvariant, PTL

(* A crawl of a whole build that is left alone does not fail.              *)
THEOREM PublishingQuietCrawlSucceeds == Spec => []QuietCrawlSucceeds
  <1>1. Inv => QuietCrawlSucceeds BY DEF Inv
  <1> QED BY <1>1, PublishingInvariant, PTL

(* Regenerating keeps the key, whenever a build was killed.                *)
THEOREM PublishingKeepsTheKey == Spec => RegeneratingKeepsTheKey
  <1>1. ASSUME Inv, [Next]_vars
        PROVE  [SignedByKeyOnDisk =>
                  private_key' = private_key
                  /\ (public'[Index] = Torn \/ SignedByKeyOnDisk')]_vars
    <2> SUFFICES ASSUME SignedByKeyOnDisk, Next
                 PROVE  private_key' = private_key
                        /\ (public'[Index] = Torn \/ SignedByKeyOnDisk')
      BY <1>1
    <2>1. /\ TypeOK /\ Keys /\ Written BY <1>1 DEF Inv
    <2>2. private_key \in Nat /\ IsWhole(Index) /\ public[Index].key = private_key
      BY <2>1, WholeFiles DEF SignedByKeyOnDisk, IndexDocument
    <2>3. private_key # None /\ private_key # Torn BY <2>2, NamesAssumption
    <2>4. private_key' = private_key
      <3>1. bpc # "create" BY <2>1, <2>3 DEF Keys
      <3> QED BY <2>3, <3>1
          DEF Next, BuildStep, Build, LoadKey, LoadKeyFails, CreateKey, KeyIsMissing, SaveKey,
              OpenFile, WriteFile, BuildDies, TornKeyDeleted, CrawlStep, CrawlDies, Start,
              ReadManifest, ReadIndex, ReadSegment, CrawlerRests, disk
    <2>5. CASE UNCHANGED public
      BY <2>2, <2>4, <2>5 DEF SignedByKeyOnDisk, IsWhole
    <2>6. turn \in 1..(Latest + 2) /\ Order[turn] \in Files /\ DOMAIN public = Files
          /\ Index \in Files /\ key \in Nat
      BY <2>1, OrderOfFiles DEF TypeOK, Files
    <2>7. CASE OpenFile
      <3>1. public'[Index] = IF Index = Order[turn] THEN Torn ELSE public[Index]
        BY <2>6, <2>7 DEF OpenFile
      <3> QED BY <2>2, <2>4, <3>1 DEF SignedByKeyOnDisk, IsWhole
    <2>8. CASE WriteFile
      <3>1. public'[Index] = IF Index = Order[turn] THEN Document(Index) ELSE public[Index]
        BY <2>6, <2>8 DEF WriteFile
      <3>2. private_key = key BY <2>1, <2>8 DEF WriteFile, Written
      <3>3. Document(Index).key = key /\ Document(Index) \notin {None, Torn}
        BY <2>1, <2>6, DocumentIsTyped DEF Document
      <3> QED BY <2>2, <2>4, <3>1, <3>2, <3>3 DEF SignedByKeyOnDisk, IsWhole
    <2> QED BY <2>5, <2>7, <2>8
        DEF Next, BuildStep, Build, LoadKey, LoadKeyFails, CreateKey, SaveKey,
            BuildDies, TornKeyDeleted, CrawlStep, CrawlDies, Start,
            ReadManifest, ReadIndex, ReadSegment, CrawlerRests, disk
  <1> QED BY <1>1, PublishingInvariant, PTL DEF Spec, RegeneratingKeepsTheKey
=============================================================================
