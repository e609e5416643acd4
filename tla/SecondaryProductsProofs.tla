---------------------- MODULE SecondaryProductsProofs -----------------------
(***************************************************************************)
(* What the static pipelines and the backfill of the building vintages     *)
(* guarantee for any sources, vintages, configurations, revisions of the   *)
(* code, failures and kills.                                               *)
(*                                                                         *)
(* Static pipelines. A done row names a published product, with the        *)
(* fingerprint its run wanted it with; a run works on one claimed product  *)
(* at a time and the two pipelines make different ones, so what a run has  *)
(* behind it stays as it left it. A product is skipped without a failure   *)
(* only when an input is missing, and an input can only be missing when an *)
(* earlier product of the run has failed.                                  *)
(*                                                                         *)
(* Backfill. The row of a morphology is claimed before its raster is       *)
(* touched, so a done row names its raster. The products of a vintage go   *)
(* back to the done morphology row, except while a rebuilt morphology is   *)
(* owed its bundle or after a run has left it so; a run without a failure  *)
(* owes nothing at its end.                                                *)
(***************************************************************************)
EXTENDS StaticProducts, VintageProducts, TLAPS

-----------------------------------------------------------------------------
(* The static pipelines.                                                   *)

Made == SourceProducts \cup Derived
MadeBy(k) == IF k = "sources" THEN SourceProducts ELSE Derived
Working == {"cog", "meta", "mark", "record"}
Fingerprinted == {"building_dsm", "vegetation_dsm", "horizon_vegetation"}

\* The variables that are functions have the domains they are born with.
Shape ==
  /\ cog = [p \in Products |-> cog[p]] /\ meta = [p \in Products |-> meta[p]]
  /\ row = [p \in Products |-> [status |-> row[p].status, hash |-> row[p].hash]]
  /\ marked \subseteq Products
  /\ place \in [Pipelines -> Nat]
  /\ step \in [Pipelines -> {"idle", "begin"} \cup Working]
  /\ returned \in [Pipelines -> {"none", "ok", "error"}]
  /\ force \subseteq Forceable
  /\ \A k \in Pipelines : place[k] \in 1..(Len(Order(k)) + 1)

\* A raster that is there, and is what a row or metadata with the hash f says.
RasterOk(p, f) ==
  /\ Exists(p)
  /\ p \in SourceProducts => cog[p] = {f}
  /\ ~tornRead /\ p \in Fingerprinted => cog[p] = Promised(p, f)

\* A done row names the published product.
RowPart(p) ==
  row[p].status = "done" =>
    RasterOk(p, row[p].hash) /\ meta[p] = row[p].hash /\ p \in marked

\* The product a run works on is claimed, and is published step by step.
WorkPart(k) ==
  step[k] \in Working =>
    /\ place[k] <= Len(Order(k))
    /\ row[Product(k)].status = "exporting"
    /\ WantedHash(Product(k)) # NoHash
    /\ step[k] # "cog" => RasterOk(Product(k), WantedHash(Product(k)))
    /\ step[k] \in {"mark", "record"} => meta[Product(k)] = WantedHash(Product(k))
    /\ step[k] = "record" => Product(k) \in marked

\* The products a run has behind it are done as it wants them, unless one has failed.
Settled(p) == row[p].status = "done" /\ row[p].hash = WantedHash(p)
Behind(k) == {Order(k)[i] : i \in 1..(place[k] - 1)}

RunPart(k) ==
  /\ step[k] # "idle" /\ k \notin hasFailed => \A p \in Behind(k) : Settled(p)
  /\ returned[k] = "ok" => step[k] = "idle" /\ \A p \in MadeBy(k) : Settled(p)

\* The sources published earlier stay as they are, and are resolved as they are.
EarlierPart ==
  \A s \in Earlier : cog[s] = {meta[s]} /\ (step["derived"] # "idle" => resolved[s] = meta[s])

StaticInv ==
  /\ Shape
  /\ \A p \in Made : RowPart(p)
  /\ \A k \in Pipelines : WorkPart(k) /\ RunPart(k)
  /\ EarlierPart

-----------------------------------------------------------------------------

\* The derived products, by place.
LEMMA DerivedPlaces ==
  /\ Len(DerivedOrder) = 6
  /\ DerivedOrder[1] = "building_dsm" /\ DerivedOrder[2] = "vegetation_dsm"
  /\ DerivedOrder[3] = "combined_dsm" /\ DerivedOrder[4] = "horizon_building"
  /\ DerivedOrder[5] = "horizon_vegetation" /\ DerivedOrder[6] = "svf"
  /\ Derived = {"building_dsm", "vegetation_dsm", "combined_dsm", "horizon_building",
                "horizon_vegetation", "svf"}
  BY DEF DerivedOrder, Derived

\* Nothing is made twice, by either pipeline.
LEMMA OrderFacts ==
  ASSUME NEW k \in Pipelines
  PROVE  /\ Len(Order(k)) \in Nat
         /\ MadeBy(k) = {Order(k)[i] : i \in 1..Len(Order(k))}
         /\ \A i, j \in 1..Len(Order(k)) : Order(k)[i] = Order(k)[j] => i = j
         /\ MadeBy(k) \subseteq Made /\ Made \subseteq Products
  <1>1. CASE k = "sources"
    <2>1. SourceOrder \in Seq(DOMAIN ConfigHashes)
      BY StaticAssumption DEF StaticAssumption
    <2>2. Len(SourceOrder) \in Nat
      BY <2>1
    <2> QED
      BY <1>1, <2>2, StaticAssumption
         DEF StaticAssumption, Order, MadeBy, SourceProducts, Made, Products
  <1>2. CASE k = "derived"
    <2>1. Order(k) = DerivedOrder /\ MadeBy(k) = Derived
      BY <1>2 DEF Order, MadeBy
    <2>2. \A i, j \in 1..6 : DerivedOrder[i] = DerivedOrder[j] => i = j
      BY DEF DerivedOrder
    <2> QED
      BY <2>1, <2>2, DerivedPlaces DEF Derived, Made, Products
  <1> QED
    BY <1>1, <1>2 DEF Pipelines

\* The two pipelines make different products, and neither makes an earlier source.
LEMMA Apart ==
  /\ \A j, k \in Pipelines : j # k => MadeBy(j) \cap MadeBy(k) = {}
  /\ Made = SourceProducts \cup Derived /\ Earlier \cap Made = {} /\ Earlier \subseteq Products
  /\ Upstream \cap Derived = {} /\ Fingerprinted \subseteq Derived /\ Dsms \subseteq Derived
  /\ Made \subseteq Products /\ SourceProducts \cap Derived = {}
  BY StaticAssumption, DerivedPlaces
     DEF StaticAssumption, MadeBy, Pipelines, Made, Earlier, Upstream, Fingerprinted, Dsms, Products

\* What each product is wanted with.
LEMMA WantedCases ==
  /\ \A p \in SourceProducts : WantedHash(p) = want[p]
  /\ \A p \in Dsms : WantedHash(p) = resolved
  /\ WantedHash("horizon_building") = "geometry_id"
  /\ WantedHash("horizon_vegetation") = LedgerHash("vegetation_dsm")
  /\ WantedHash("svf") = LedgerHash("combined_dsm")
  BY Apart, DerivedPlaces DEF WantedHash, Dsms

\* The same of the next state.
LEMMA WantedCasesNext ==
  /\ \A p \in SourceProducts : WantedHash(p)' = want'[p]
  /\ \A p \in Dsms : WantedHash(p)' = resolved'
  /\ WantedHash("horizon_building")' = "geometry_id"
  /\ WantedHash("horizon_vegetation")' = LedgerHash("vegetation_dsm")'
  /\ WantedHash("svf")' = LedgerHash("combined_dsm")'
  BY Apart, DerivedPlaces DEF WantedHash, Dsms

\* The product at hand is not behind, and joins what is behind when the run advances.
LEMMA PlaceFacts ==
  ASSUME Shape, NEW k \in Pipelines
  PROVE  /\ place[k] \in Nat /\ place[k] >= 1 /\ Behind(k) \subseteq MadeBy(k)
         /\ place[k] <= Len(Order(k)) =>
              Product(k) \in MadeBy(k) /\ Product(k) \notin Behind(k)
         /\ place[k] = Len(Order(k)) + 1 => Behind(k) = MadeBy(k)
         /\ place[k] <= Len(Order(k)) /\ place'[k] = place[k] + 1 =>
              Behind(k)' = Behind(k) \cup {Product(k)}
         /\ place'[k] = place[k] => Behind(k)' = Behind(k)
         /\ place'[k] = 1 => Behind(k)' = {}
  <1> DEFINE n == Len(Order(k))
  <1>1. /\ n \in Nat /\ place[k] \in 1..(n + 1)
        /\ MadeBy(k) = {Order(k)[i] : i \in 1..n}
        /\ \A i, j \in 1..n : Order(k)[i] = Order(k)[j] => i = j
    BY OrderFacts DEF Shape
  <1>2. place[k] \in Nat /\ place[k] >= 1 /\ 1..(place[k] - 1) \subseteq 1..n
    BY <1>1
  <1>3. Behind(k) \subseteq MadeBy(k)
    BY <1>1, <1>2 DEF Behind
  <1>4. place[k] <= n => Product(k) \in MadeBy(k) /\ Product(k) \notin Behind(k)
    BY <1>1, <1>2 DEF Behind, Product
  <1>5. place[k] = n + 1 => Behind(k) = MadeBy(k)
    BY <1>1 DEF Behind
  <1>6. ASSUME place[k] <= n, place'[k] = place[k] + 1
        PROVE  Behind(k)' = Behind(k) \cup {Product(k)}
    <2>1. 1..(place'[k] - 1) = 1..(place[k] - 1) \cup {place[k]}
      BY <1>2, <1>6
    <2>2. Behind(k)' = {Order(k)[i] : i \in 1..(place'[k] - 1)}
      BY DEF Behind, Order
    <2> QED
      BY <2>1, <2>2 DEF Behind, Product
  <1>7. place'[k] = place[k] => Behind(k)' = Behind(k)
    BY DEF Behind, Order
  <1>8. place'[k] = 1 => Behind(k)' = {}
    BY DEF Behind, Order
  <1> QED
    BY <1>2, <1>3, <1>4, <1>5, <1>6, <1>7, <1>8

\* Whatever a derived product needs has been dealt with before it.
LEMMA DerivedBefore ==
  ASSUME Shape, NEW q \in Derived,
         \/ q \in Behind("derived")
         \/ place["derived"] <= 6 /\ q = Product("derived")
  PROVE  /\ q = "horizon_vegetation" => "vegetation_dsm" \in Behind("derived")
         /\ q = "svf" => "combined_dsm" \in Behind("derived")
         /\ Inputs(q) \cap Derived \subseteq Behind("derived")
  <1> DEFINE n == place["derived"]
  <1>1. Order("derived") = DerivedOrder /\ "derived" \in Pipelines
    BY DEF Order, Pipelines
  <1>2. n \in 1..7
    <2>1. n \in 1..(Len(Order("derived")) + 1)
      BY <1>1 DEF Shape
    <2>2. Len(Order("derived")) = 6
      BY <1>1, DerivedPlaces
    <2> HIDE DEF n
    <2>3. n \in 1..(6 + 1)
      BY <2>1, <2>2
    <2> QED
      BY <2>3
  <1>3. \A i \in 1..6 : i < n => DerivedOrder[i] \in Behind("derived")
    BY <1>1, <1>2 DEF Behind
  <1>4. \E i \in 1..6 : i <= n /\ q = DerivedOrder[i]
    BY <1>1, <1>2, DerivedPlaces DEF Behind, Product
  <1>5. PICK i \in 1..6 : i <= n /\ q = DerivedOrder[i]
    BY <1>4
  <1>6. \A j \in 1..6 : j < i => DerivedOrder[j] \in Behind("derived")
    BY <1>2, <1>3, <1>5
  <1>7. CASE i = 1
    BY <1>5, <1>7, DerivedPlaces DEF Inputs
  <1>8. CASE i = 2
    BY <1>5, <1>8, DerivedPlaces DEF Inputs
  <1>9. CASE i = 3
    <2>1. DerivedOrder[1] \in Behind("derived") /\ DerivedOrder[2] \in Behind("derived")
      BY <1>6, <1>9
    <2> QED
      BY <1>5, <1>9, <2>1, DerivedPlaces DEF Inputs
  <1>10. CASE i = 4
    <2>1. DerivedOrder[1] \in Behind("derived")
      BY <1>6, <1>10
    <2> QED
      BY <1>5, <1>10, <2>1, DerivedPlaces DEF Inputs
  <1>11. CASE i = 5
    <2>1. DerivedOrder[2] \in Behind("derived")
      BY <1>6, <1>11
    <2> QED
      BY <1>5, <1>11, <2>1, DerivedPlaces DEF Inputs
  <1>12. CASE i = 6
    <2>1. DerivedOrder[3] \in Behind("derived")
      BY <1>6, <1>12
    <2> QED
      BY <1>5, <1>12, <2>1, DerivedPlaces DEF Inputs
  <1> QED
    BY <1>7, <1>8, <1>9, <1>10, <1>11, <1>12

-----------------------------------------------------------------------------

\* What a step on the product of k leaves alone.
OnlyProductMoves(k) ==
  /\ \A p \in Products : p # Product(k) =>
       /\ row'[p] = row[p] /\ cog'[p] = cog[p] /\ meta'[p] = meta[p]
       /\ p \in marked => p \in marked'
  /\ tornRead => tornRead'
  /\ UNCHANGED <<want, resolved, returned>>
  /\ \A j \in Pipelines : j # k =>
       /\ place'[j] = place[j] /\ step'[j] = step[j]
       /\ j \in hasFailed => j \in hasFailed'
       /\ j \in hasFailed' => j \in hasFailed

\* The other pipeline wants its products as before, and k its product and those
\* behind it: what they derive from has been dealt with.
LEMMA WantedKept ==
  ASSUME Shape, NEW k \in Pipelines, place[k] <= Len(Order(k)), OnlyProductMoves(k),
         NEW j \in Pipelines, NEW p \in MadeBy(j),
         j = k => p \in Behind(k) \cup {Product(k)}
  PROVE  WantedHash(p)' = WantedHash(p)
  <1>1. Product(k) \in MadeBy(k) /\ Product(k) \notin Behind(k)
    BY PlaceFacts
  <1>2. CASE j = "sources"
    <2>1. p \in SourceProducts
      BY <1>2 DEF MadeBy
    <2> QED
      BY <2>1, WantedCases, WantedCasesNext DEF OnlyProductMoves
  <1>3. CASE j = "derived"
    <2>1. p \in Derived /\ Derived = MadeBy("derived") /\ Derived \subseteq Products
      BY <1>3, Apart DEF MadeBy, Products
    <2>2. /\ p = "horizon_vegetation" => "vegetation_dsm" # Product(k)
          /\ p = "svf" => "combined_dsm" # Product(k)
      <3>1. CASE k = "derived"
        <4>1. p \in Behind("derived") \/ (place["derived"] <= 6 /\ p = Product("derived"))
          BY <1>3, <3>1, DerivedPlaces DEF Order
        <4> QED
          BY <1>1, <2>1, <3>1, <4>1, DerivedBefore
      <3>2. CASE k # "derived"
        <4>1. Product(k) \notin Derived
          BY <1>1, <2>1, <3>2, Apart DEF Pipelines
        <4> QED
          BY <4>1, DerivedPlaces
      <3> QED
        BY <3>1, <3>2
    <2>3. /\ p = "horizon_vegetation" => row'["vegetation_dsm"] = row["vegetation_dsm"]
          /\ p = "svf" => row'["combined_dsm"] = row["combined_dsm"]
      BY <2>1, <2>2, DerivedPlaces DEF OnlyProductMoves
    <2>4. CASE p \in Dsms
      BY <2>4, WantedCases, WantedCasesNext DEF OnlyProductMoves
    <2>5. CASE p = "horizon_building"
      BY <2>5, WantedCases, WantedCasesNext
    <2>6. CASE p = "horizon_vegetation"
      BY <2>3, <2>6, WantedCases, WantedCasesNext DEF LedgerHash
    <2>7. CASE p = "svf"
      BY <2>3, <2>7, WantedCases, WantedCasesNext DEF LedgerHash
    <2> QED
      BY <2>1, <2>4, <2>5, <2>6, <2>7, DerivedPlaces DEF Dsms
  <1> QED
    BY <1>2, <1>3 DEF Pipelines

\* What a step on the product of k owes the invariant is about k.
LEMMA OthersKeep ==
  ASSUME StaticInv, Shape', NEW k \in Pipelines, place[k] <= Len(Order(k)),
         OnlyProductMoves(k), step[k] # "idle",
         NEW w \in Made, w = Product(k), RowPart(w)', WorkPart(k)',
         k \notin hasFailed' => \A p \in Behind(k)' : Settled(p)'
  PROVE  StaticInv'
  <1>1. /\ Shape /\ Product(k) \in MadeBy(k) /\ MadeBy(k) \subseteq Made
        /\ Product(k) \in Made /\ Made \subseteq Products
    BY PlaceFacts, OrderFacts DEF StaticInv
  <1>2. ASSUME NEW p \in Made, p # Product(k) PROVE RowPart(p)'
    <2>1. RowPart(p) /\ p \in Products
      BY <1>1, <1>2 DEF StaticInv
    <2>2. /\ row'[p] = row[p] /\ cog'[p] = cog[p] /\ meta'[p] = meta[p]
          /\ p \in marked => p \in marked'
          /\ tornRead => tornRead'
      BY <1>2, <2>1 DEF OnlyProductMoves
    <2> QED
      BY <2>1, <2>2 DEF RowPart, RasterOk, Exists
  <1>3. ASSUME NEW p \in Made PROVE RowPart(p)'
    <2>1. CASE p = w
      BY <2>1
    <2> QED
      BY <1>2, <1>3, <2>1
  <1>4. ASSUME NEW j \in Pipelines, j # k PROVE WorkPart(j)' /\ RunPart(j)'
    <2>1. /\ place'[j] = place[j] /\ step'[j] = step[j] /\ returned' = returned
          /\ (j \in hasFailed') <=> (j \in hasFailed)
      BY <1>4 DEF OnlyProductMoves
    <2>2. Product(j)' = Product(j) /\ Behind(j)' = Behind(j) /\ Behind(j) \subseteq MadeBy(j)
      BY <1>1, <2>1, PlaceFacts DEF Product, Order
    <2>3. \A p \in MadeBy(j) :
            /\ WantedHash(p)' = WantedHash(p) /\ p # Product(k) /\ p \in Products
            /\ row'[p] = row[p] /\ cog'[p] = cog[p] /\ meta'[p] = meta[p]
            /\ p \in marked => p \in marked'
      BY <1>1, <1>4, WantedKept, Apart, OrderFacts DEF OnlyProductMoves
    <2>4. \A p \in MadeBy(j) : Settled(p) => Settled(p)'
      BY <2>3 DEF Settled
    <2>5. RunPart(j) /\ WorkPart(j)
      BY <1>4 DEF StaticInv
    <2>6. RunPart(j)'
      <3>1. step'[j] # "idle" /\ j \notin hasFailed' => \A p \in Behind(j)' : Settled(p)'
        BY <2>1, <2>2, <2>4, <2>5 DEF RunPart
      <3>2. returned'[j] = "ok" => step'[j] = "idle" /\ \A p \in MadeBy(j) : Settled(p)'
        BY <2>1, <2>4, <2>5 DEF RunPart
      <3> QED
        BY <3>1, <3>2 DEF RunPart, MadeBy
    <2>7. WorkPart(j)'
      <3>1. SUFFICES ASSUME step'[j] \in Working PROVE WorkPart(j)'
        BY DEF WorkPart
      <3>2. /\ step[j] \in Working /\ place[j] <= Len(Order(j)) /\ Len(Order(j))' = Len(Order(j))
        BY <2>1, <2>5, <3>1 DEF WorkPart, Order
      <3>3. Product(j) \in MadeBy(j)
        BY <1>1, <3>2, PlaceFacts
      <3>4. \A q \in MadeBy(j) : \A f : RasterOk(q, f) => RasterOk(q, f)'
        <4>1. tornRead => tornRead'
          BY DEF OnlyProductMoves
        <4> QED
          BY <2>3, <4>1 DEF RasterOk, Exists
      <3>5. WantedHash(Product(j))' = WantedHash(Product(j))
        BY <2>2, <2>3, <3>3
      <3> QED
        BY <2>1, <2>2, <2>3, <2>5, <3>2, <3>3, <3>4, <3>5 DEF WorkPart
    <2> QED
      BY <2>6, <2>7
  <1>5. RunPart(k)'
    <2>1. RunPart(k) /\ returned' = returned
      BY DEF StaticInv, OnlyProductMoves
    <2> QED
      BY <2>1 DEF RunPart
  <1>6. EarlierPart'
    <2>1. /\ \A s \in Earlier : s # Product(k) /\ s \in Products
          /\ resolved' = resolved /\ (step'["derived"] # "idle" => step["derived"] # "idle")
      BY <1>1, Apart DEF OnlyProductMoves, Pipelines
    <2> QED
      BY <2>1 DEF StaticInv, EarlierPart, OnlyProductMoves
  <1> QED
    BY <1>3, <1>4, <1>5, <1>6 DEF StaticInv

-----------------------------------------------------------------------------

\* A pipeline that is at a product.
LEMMA AtProduct ==
  ASSUME StaticInv, NEW k \in Pipelines,
         step[k] \in Working \/ (step[k] = "begin" /\ place[k] <= Len(Order(k)))
  PROVE  /\ place[k] <= Len(Order(k)) /\ step[k] # "idle"
         /\ Product(k) \in MadeBy(k) /\ Product(k) \in Made /\ Product(k) \in Products
         /\ Product(k) \notin Behind(k) /\ Behind(k) \subseteq MadeBy(k)
         /\ Behind(k) \subseteq Made
         /\ RowPart(Product(k)) /\ WorkPart(k)
         /\ k \notin hasFailed => \A p \in Behind(k) : Settled(p)
  <1>1. Shape /\ WorkPart(k) /\ RunPart(k)
    BY DEF StaticInv
  <1>2. place[k] <= Len(Order(k)) /\ step[k] # "idle"
    BY <1>1 DEF WorkPart, Working
  <1>3. /\ Product(k) \in MadeBy(k) /\ Product(k) \notin Behind(k)
        /\ Behind(k) \subseteq MadeBy(k)
    BY <1>1, <1>2, PlaceFacts
  <1>4. MadeBy(k) \subseteq Made /\ Made \subseteq Products
    BY OrderFacts
  <1>5. RowPart(Product(k))
    BY <1>3, <1>4 DEF StaticInv
  <1> QED
    BY <1>1, <1>2, <1>3, <1>4, <1>5 DEF RunPart

\* A row that is written keeps the others.
LEMMA RowFacts ==
  ASSUME Shape, NEW p \in Products, NEW status, NEW hash, UpsertRow(p, status, hash)
  PROVE  /\ row' = [q \in Products |-> [status |-> row'[q].status, hash |-> row'[q].hash]]
         /\ row'[p].status = status /\ row'[p].hash = hash
         /\ \A q \in Products : q # p => row'[q] = row[q]
  <1>1. row = [q \in Products |-> [status |-> row[q].status, hash |-> row[q].hash]]
    BY DEF Shape
  <1>2. row' = [row EXCEPT ![p] = [status |-> status, hash |-> hash]]
    BY DEF UpsertRow
  <1>3. row' = [q \in Products |-> IF q = p THEN [status |-> status, hash |-> hash] ELSE row[q]]
    BY <1>1, <1>2
  <1>4. row'[p] = [status |-> status, hash |-> hash] /\ \A q \in Products : q # p => row'[q] = row[q]
    BY <1>3
  <1>5. \A q \in Products : row'[q] = [status |-> row'[q].status, hash |-> row'[q].hash]
    <2>1. TAKE q \in Products
    <2>2. row[q] = [status |-> row[q].status, hash |-> row[q].hash]
      BY <1>1
    <2>3. CASE q = p
      BY <1>4, <2>3
    <2>4. CASE q # p
      BY <1>4, <2>2, <2>4
    <2> QED
      BY <2>3, <2>4
  <1> DEFINE R == [q \in Products |-> [status |-> row'[q].status, hash |-> row'[q].hash]]
  <1>6. row' = R
    BY <1>3, <1>5
  <1> QED
    BY <1>4, <1>6

\* One pipeline moves on to another step.
LEMMA StepFacts ==
  ASSUME Shape, NEW k \in Pipelines, NEW s \in {"idle", "begin"} \cup Working, GotoStep(k, s)
  PROVE  /\ step' \in [Pipelines -> {"idle", "begin"} \cup Working] /\ step'[k] = s
         /\ \A j \in Pipelines : j # k => step'[j] = step[j]
  BY DEF Shape, GotoStep

\* One pipeline advances to its next product.
LEMMA AdvanceFacts ==
  ASSUME Shape, NEW k \in Pipelines, place[k] <= Len(Order(k)), Advance(k)
  PROVE  /\ place' \in [Pipelines -> Nat]
         /\ \A j \in Pipelines : place'[j] \in 1..(Len(Order(j)) + 1)
         /\ step' \in [Pipelines -> {"idle", "begin"} \cup Working] /\ step'[k] = "begin"
         /\ \A j \in Pipelines : j # k => step'[j] = step[j] /\ place'[j] = place[j]
         /\ Behind(k)' = Behind(k) \cup {Product(k)}
  <1>1. /\ place \in [Pipelines -> Nat] /\ place' = [place EXCEPT ![k] = place[k] + 1]
        /\ GotoStep(k, "begin")
    BY DEF Advance, Shape
  <1>2. place'[k] = place[k] + 1 /\ \A j \in Pipelines : j # k => place'[j] = place[j]
    BY <1>1
  <1>3. place' \in [Pipelines -> Nat]
    <2>1. place[k] + 1 \in Nat
      BY <1>1
    <2> QED
      BY <1>1, <2>1
  <1>4. \A j \in Pipelines : place'[j] \in 1..(Len(Order(j)) + 1)
    <2>1. TAKE j \in Pipelines
    <2>2. place[j] \in 1..(Len(Order(j)) + 1) /\ Len(Order(j)) \in Nat
      BY OrderFacts DEF Shape
    <2>3. CASE j = k
      BY <1>2, <2>2, <2>3
    <2>4. CASE j # k
      BY <1>2, <2>2, <2>4
    <2> QED
      BY <2>3, <2>4
  <1>5. Behind(k)' = Behind(k) \cup {Product(k)}
    BY <1>2, PlaceFacts
  <1> QED
    BY <1>1, <1>2, <1>3, <1>4, <1>5, StepFacts

\* A step that leaves k at its product leaves what is behind it settled.
LEMMA StaysSettled ==
  ASSUME StaticInv, NEW k \in Pipelines,
         step[k] \in Working \/ (step[k] = "begin" /\ place[k] <= Len(Order(k))),
         OnlyProductMoves(k), k \notin hasFailed
  PROVE  /\ \A p \in Behind(k) : Settled(p)'
         /\ WantedHash(Product(k)) = row'[Product(k)].hash /\ row'[Product(k)].status = "done"
              => \A p \in Behind(k) \cup {Product(k)} : Settled(p)'
  <1>1. /\ place[k] <= Len(Order(k)) /\ Behind(k) \subseteq MadeBy(k)
        /\ Product(k) \notin Behind(k) /\ \A p \in Behind(k) : Settled(p)
        /\ MadeBy(k) \subseteq Products /\ Product(k) \in MadeBy(k) /\ Shape
    BY AtProduct, OrderFacts DEF StaticInv
  <1>2. \A p \in Behind(k) \cup {Product(k)} : WantedHash(p)' = WantedHash(p)
    BY <1>1, WantedKept
  <1>3. \A p \in Behind(k) : Settled(p)'
    BY <1>1, <1>2 DEF Settled, OnlyProductMoves
  <1>4. \A p \in {Product(k)} :
          WantedHash(p) = row'[p].hash /\ row'[p].status = "done" => Settled(p)'
    BY <1>2 DEF Settled
  <1> QED
    BY <1>3, <1>4

-----------------------------------------------------------------------------
(* One lemma per step on a product.                                         *)

\* A product is taken up, left alone when it is current, or skipped; it is
\* skipped without a failure only when an earlier product has failed.
LEMMA BeginKeeps ==
  ASSUME StaticInv, NEW k \in Pipelines, Begin(k)
  PROVE  StaticInv'
  <1> DEFINE w == Product(k)
  <1>1. /\ step[k] = "begin" /\ place[k] <= Len(Order(k)) /\ Shape
        /\ UNCHANGED <<cog, meta, marked, returned, want, resolved, force, tornRead>>
    BY DEF Begin, StaticInv, Store, Launch
  <1>2. /\ w \in MadeBy(k) /\ w \in Made /\ w \in Products /\ w \notin Behind(k)
        /\ step[k] # "idle" /\ RowPart(w)
        /\ Behind(k) \subseteq Made
        /\ k \notin hasFailed => \A p \in Behind(k) : Settled(p)
    BY <1>1, AtProduct
  <1>3. ASSUME Advance(k), row' = row, hasFailed \subseteq hasFailed',
               hasFailed' \subseteq hasFailed \cup {k},
               k \notin hasFailed' => WantedHash(w) = row[w].hash /\ row[w].status = "done"
        PROVE  StaticInv'
    <2>1. /\ place' \in [Pipelines -> Nat]
          /\ \A j \in Pipelines : place'[j] \in 1..(Len(Order(j)) + 1)
          /\ step' \in [Pipelines -> {"idle", "begin"} \cup Working] /\ step'[k] = "begin"
          /\ \A j \in Pipelines : j # k => step'[j] = step[j] /\ place'[j] = place[j]
          /\ Behind(k)' = Behind(k) \cup {Product(k)}
      BY <1>1, <1>3, AdvanceFacts
    <2>2. OnlyProductMoves(k)
      BY <1>1, <1>3, <2>1 DEF OnlyProductMoves
    <2>3. Shape'
      BY <1>1, <1>3, <2>1 DEF Shape, Order
    <2>4. RowPart(w)
      BY <1>2
    <2>5. \A p \in Made : RowPart(p) => RowPart(p)'
      BY <1>1, <1>3 DEF RowPart, RasterOk, Exists
    <2>6. WorkPart(k)'
      BY <2>1 DEF WorkPart, Working
    <2>7. k \notin hasFailed' => \A p \in Behind(k)' : Settled(p)'
      <3>1. SUFFICES ASSUME k \notin hasFailed'
                     PROVE  \A p \in Behind(k)' : Settled(p)'
        OBVIOUS
      <3>2. k \notin hasFailed /\ WantedHash(w) = row'[w].hash /\ row'[w].status = "done"
        BY <1>3, <3>1
      <3> QED
        BY <1>1, <2>1, <2>2, <3>2, StaysSettled
    <2>8. \E v \in Made : v = Product(k) /\ RowPart(v)'
      BY <1>2, <2>5
    <2> QED
      BY <1>1, <1>2, <2>2, <2>3, <2>6, <2>7, <2>8, OthersKeep
  <1>4. ASSUME ~Available(w) PROVE k \in hasFailed
    <2>1. SUFFICES ASSUME k \notin hasFailed PROVE FALSE
      OBVIOUS
    <2>2. PICK q \in Inputs(w) \cap Derived : ~Exists(q)
      BY <1>4 DEF Available
    <2>3. w \in Derived
      BY <2>2, DerivedPlaces DEF Inputs
    <2>4. k = "derived"
      BY <1>2, <2>3, Apart DEF MadeBy, Pipelines
    <2>5. place["derived"] <= 6
      BY <1>1, <2>4, DerivedPlaces DEF Order
    <2>6. Inputs(w) \cap Derived \subseteq Behind("derived")
      BY <1>1, <2>3, <2>4, <2>5, DerivedBefore
    <2>7. Settled(q) /\ q \in Made
      BY <1>2, <2>1, <2>2, <2>4, <2>6
    <2>8. Exists(q)
      BY <2>7 DEF Settled, StaticInv, RowPart, RasterOk
    <2> QED
      BY <2>2, <2>8
  <1>5. CASE ~Available(w) /\ Advance(k) /\ UNCHANGED <<row, hasFailed>>
    BY <1>3, <1>4, <1>5
  <1>6. CASE Advance(k) /\ hasFailed' = hasFailed \cup {k} /\ UNCHANGED row
    BY <1>3, <1>6
  <1>7. CASE IsCurrent(w) /\ Advance(k) /\ UNCHANGED <<row, hasFailed>>
    BY <1>3, <1>7 DEF IsCurrent
  <1>8. CASE /\ WantedHash(w) # NoHash /\ UpsertRow(w, "exporting", NoHash)
             /\ GotoStep(k, "cog") /\ UNCHANGED <<place, hasFailed>>
    <2>1. /\ row' = [q \in Products |-> [status |-> row'[q].status, hash |-> row'[q].hash]]
          /\ row'[w].status = "exporting"
          /\ \A q \in Products : q # w => row'[q] = row[q]
      BY <1>1, <1>2, <1>8, RowFacts
    <2>2. /\ step' \in [Pipelines -> {"idle", "begin"} \cup Working] /\ step'[k] = "cog"
          /\ \A j \in Pipelines : j # k => step'[j] = step[j]
      BY <1>1, <1>8, StepFacts DEF Working
    <2>3. OnlyProductMoves(k)
      BY <1>1, <1>8, <2>1, <2>2 DEF OnlyProductMoves
    <2>4. Shape'
      BY <1>1, <1>8, <2>1, <2>2 DEF Shape, Order
    <2>5. \E v \in Made : v = Product(k) /\ RowPart(v)'
      BY <1>2, <2>1 DEF RowPart
    <2>6. Behind(k)' = Behind(k) /\ Product(k)' = Product(k) /\ Order(k)' = Order(k)
      BY <1>1, <1>8, PlaceFacts DEF Product, Order
    <2>7. \A v : v = w => WantedHash(v)' = WantedHash(v)
      BY <1>1, <1>2, <2>3, WantedKept
    <2>8. WorkPart(k)'
      BY <1>1, <1>8, <2>1, <2>2, <2>6, <2>7 DEF WorkPart
    <2>9. k \notin hasFailed' => \A p \in Behind(k)' : Settled(p)'
      BY <1>1, <1>8, <2>3, <2>6, StaysSettled
    <2> QED
      BY <1>1, <1>2, <2>3, <2>4, <2>5, <2>8, <2>9, OthersKeep
  <1> QED
    BY <1>5, <1>6, <1>7, <1>8 DEF Begin

\* The raster is written from what its fingerprint names: the inputs of a
\* surface model are as they were resolved, unless the read was torn, and the
\* vegetation model under a horizon is the one its done row names.
LEMMA WriteCogKeeps ==
  ASSUME StaticInv, NEW k \in Pipelines, WriteCog(k)
  PROVE  StaticInv'
  <1> DEFINE w == Product(k)
             read == [q \in Inputs(w) |-> cog[q]]
  <1>1. /\ step[k] = "cog" /\ step[k] \in Working /\ Shape /\ GotoStep(k, "meta")
        /\ UNCHANGED <<meta, marked, row, place, hasFailed, returned, want, resolved, force>>
        /\ cog' = [cog EXCEPT ![w] = {IF w \in SourceProducts THEN want[w] ELSE read}]
        /\ tornRead' =
             (tornRead \/ \E s \in Inputs(w) \cap SourceProducts : cog[s] # {resolved[s]})
    BY DEF WriteCog, StaticInv, Working, Launch
  <1>2. /\ w \in MadeBy(k) /\ w \in Made /\ w \in Products /\ w \notin Behind(k)
        /\ step[k] # "idle" /\ WorkPart(k) /\ place[k] <= Len(Order(k))
        /\ Behind(k) \subseteq Made
    BY <1>1, AtProduct
  <1>3. /\ step' \in [Pipelines -> {"idle", "begin"} \cup Working] /\ step'[k] = "meta"
        /\ \A j \in Pipelines : j # k => step'[j] = step[j]
    BY <1>1, StepFacts DEF Working
  <1>4. /\ cog' = [p \in Products |-> cog'[p]]
        /\ cog'[w] = {IF w \in SourceProducts THEN want[w] ELSE read}
        /\ \A p \in Products : p # w => cog'[p] = cog[p]
    <2>1. cog = [p \in Products |-> cog[p]]
      BY <1>1 DEF Shape
    <2>2. cog' = [p \in Products |->
                    IF p = w THEN {IF w \in SourceProducts THEN want[w] ELSE read} ELSE cog[p]]
      BY <1>1, <2>1
    <2> HIDE DEF w, read
    <2> QED
      BY <1>2, <2>2
  <1>5. OnlyProductMoves(k)
    BY <1>1, <1>3, <1>4 DEF OnlyProductMoves
  <1>6. Shape'
    BY <1>1, <1>3, <1>4 DEF Shape, Order
  <1>7. row[w].status = "exporting" /\ WantedHash(w) # NoHash
    BY <1>1, <1>2 DEF WorkPart
  <1>8. \E v \in Made : v = Product(k) /\ RowPart(v)'
    BY <1>1, <1>2, <1>7 DEF RowPart
  <1>9. \A v : v = w => WantedHash(v)' = WantedHash(v)
    BY <1>1, <1>2, <1>5, WantedKept
  <1>10. Behind(k)' = Behind(k) /\ Product(k)' = Product(k) /\ Order(k)' = Order(k)
    BY <1>1, PlaceFacts DEF Product, Order
  <1>11. ASSUME w \in SourceProducts PROVE cog'[w] = {WantedHash(w)}
    BY <1>4, <1>11, WantedCases
  <1>12. ASSUME w \in Fingerprinted, ~tornRead' PROVE cog'[w] = Promised(w, WantedHash(w))
    <2>1. /\ k = "derived" /\ w \in Derived /\ cog'[w] = {read} /\ ~tornRead
          /\ \A s \in Inputs(w) \cap SourceProducts : cog[s] = {resolved[s]}
      BY <1>1, <1>2, <1>4, <1>12, Apart DEF MadeBy, Pipelines
    <2>2. CASE w \in {"building_dsm", "vegetation_dsm"}
      <3>1. Inputs(w) \subseteq Upstream
        BY <2>2 DEF Inputs, Upstream
      <3>2. \A q \in Inputs(w) : cog[q] = {resolved[q]}
        <4>1. ASSUME NEW q \in Inputs(w), q \notin SourceProducts PROVE cog[q] = {resolved[q]}
          <5>1. q \in Earlier
            BY <3>1, <4>1 DEF Earlier
          <5> QED
            BY <1>2, <2>1, <5>1 DEF StaticInv, EarlierPart
        <4> QED
          BY <2>1, <4>1
      <3>3. WantedHash(w) = resolved
        BY <2>2, WantedCases DEF Dsms
      <3>4. Promised(w, resolved) = {[q \in Inputs(w) |-> {resolved[q]}]}
        BY <2>2 DEF Promised, Promise
      <3>5. read = [q \in Inputs(w) |-> {resolved[q]}]
        BY <3>2
      <3> QED
        BY <2>1, <3>3, <3>4, <3>5
    <2>3. CASE w = "horizon_vegetation"
      <3> DEFINE v == "vegetation_dsm"
                 h == row[v].hash
      <3>1. WantedHash(w) = LedgerHash(v) /\ LedgerHash(v) # NoHash
        BY <1>7, <2>3, WantedCases
      <3>2. row[v].status = "done" /\ LedgerHash(v) = h
        BY <3>1 DEF LedgerHash
      <3>3. RowPart(v) /\ v \in Fingerprinted
        BY Apart, DerivedPlaces DEF StaticInv, Fingerprinted
      <3>4. cog[v] = Promised(v, h)
        BY <2>1, <3>2, <3>3 DEF RowPart, RasterOk
      <3>5. Promised(v, h) = Promise(v, h)
        BY DEF Promised
      <3>6. Inputs(w) = {v} /\ Promised(w, h) = {[q \in Inputs(w) |-> Promise(q, h)]}
        BY <2>3 DEF Promised, Inputs
      <3> HIDE DEF v, h
      <3>7. read = [q \in Inputs(w) |-> Promise(q, h)]
        BY <3>4, <3>5, <3>6
      <3> QED
        BY <2>1, <3>1, <3>2, <3>6, <3>7
    <2> QED
      BY <1>12, <2>2, <2>3 DEF Fingerprinted
  <1>13. cog'[w] # {}
    BY <1>4
  <1>14. \A v, f : v = w /\ f = WantedHash(w) => RasterOk(v, f)'
    BY <1>11, <1>12, <1>13 DEF RasterOk, Exists
  <1>15. WorkPart(k)'
    <2>1. RasterOk(Product(k), WantedHash(Product(k)))'
      BY <1>9, <1>10, <1>14
    <2> QED
      BY <1>1, <1>2, <1>3, <1>7, <1>9, <1>10, <2>1 DEF WorkPart
  <1>16. k \notin hasFailed' => \A p \in Behind(k)' : Settled(p)'
    BY <1>1, <1>5, <1>10, StaysSettled
  <1> QED
    BY <1>1, <1>2, <1>5, <1>6, <1>8, <1>15, <1>16, OthersKeep

\* The metadata takes the fingerprint the raster was written for.
LEMMA WriteMetaKeeps ==
  ASSUME StaticInv, NEW k \in Pipelines, WriteMeta(k)
  PROVE  StaticInv'
  <1> DEFINE w == Product(k)
  <1>1. /\ step[k] = "meta" /\ step[k] \in Working /\ Shape /\ GotoStep(k, "mark")
        /\ UNCHANGED <<cog, marked, row, place, hasFailed, returned, want, resolved, force,
                       tornRead>>
        /\ meta' = [meta EXCEPT ![w] = WantedHash(w)]
    BY DEF WriteMeta, StaticInv, Working, Launch
  <1>2. /\ w \in MadeBy(k) /\ w \in Made /\ w \in Products /\ w \notin Behind(k)
        /\ step[k] # "idle" /\ WorkPart(k) /\ place[k] <= Len(Order(k))
    BY <1>1, AtProduct
  <1>3. /\ step' \in [Pipelines -> {"idle", "begin"} \cup Working] /\ step'[k] = "mark"
        /\ \A j \in Pipelines : j # k => step'[j] = step[j]
    BY <1>1, StepFacts DEF Working
  <1>4. /\ meta' = [p \in Products |-> meta'[p]] /\ meta'[w] = WantedHash(w)
        /\ \A p \in Products : p # w => meta'[p] = meta[p]
    <2>1. meta = [p \in Products |-> meta[p]]
      BY <1>1 DEF Shape
    <2>2. meta' = [p \in Products |-> IF p = w THEN WantedHash(w) ELSE meta[p]]
      BY <1>1, <2>1
    <2> HIDE DEF w
    <2> QED
      BY <1>2, <2>2
  <1>5. OnlyProductMoves(k)
    BY <1>1, <1>3, <1>4 DEF OnlyProductMoves
  <1>6. Shape'
    BY <1>1, <1>3, <1>4 DEF Shape, Order
  <1>7. /\ row[w].status = "exporting" /\ WantedHash(w) # NoHash
        /\ RasterOk(w, WantedHash(w))
    BY <1>1, <1>2 DEF WorkPart
  <1>8. \E v \in Made : v = Product(k) /\ RowPart(v)'
    BY <1>1, <1>2, <1>7 DEF RowPart
  <1>9. \A v : v = w => WantedHash(v)' = WantedHash(v)
    BY <1>1, <1>2, <1>5, WantedKept
  <1>10. Behind(k)' = Behind(k) /\ Product(k)' = Product(k) /\ Order(k)' = Order(k)
    BY <1>1, PlaceFacts DEF Product, Order
  <1>11. \A v, f : RasterOk(v, f) => RasterOk(v, f)'
    BY <1>1 DEF RasterOk, Exists
  <1>12. WorkPart(k)'
    <2>1. RasterOk(Product(k), WantedHash(Product(k)))'
      BY <1>7, <1>9, <1>10, <1>11
    <2> QED
      BY <1>1, <1>2, <1>3, <1>4, <1>7, <1>9, <1>10, <2>1 DEF WorkPart
  <1>13. k \notin hasFailed' => \A p \in Behind(k)' : Settled(p)'
    BY <1>1, <1>5, <1>10, StaysSettled
  <1> QED
    BY <1>1, <1>2, <1>5, <1>6, <1>8, <1>12, <1>13, OthersKeep

\* The marker follows the metadata.
LEMMA MarkCompleteKeeps ==
  ASSUME StaticInv, NEW k \in Pipelines, MarkComplete(k)
  PROVE  StaticInv'
  <1> DEFINE w == Product(k)
  <1>1. /\ step[k] = "mark" /\ step[k] \in Working /\ Shape /\ GotoStep(k, "record")
        /\ UNCHANGED <<cog, meta, row, place, hasFailed, returned, want, resolved, force,
                       tornRead>>
        /\ marked' = marked \cup {w}
    BY DEF MarkComplete, StaticInv, Working, Launch
  <1>2. /\ w \in MadeBy(k) /\ w \in Made /\ w \in Products /\ w \notin Behind(k)
        /\ step[k] # "idle" /\ WorkPart(k) /\ place[k] <= Len(Order(k))
    BY <1>1, AtProduct
  <1>3. /\ step' \in [Pipelines -> {"idle", "begin"} \cup Working] /\ step'[k] = "record"
        /\ \A j \in Pipelines : j # k => step'[j] = step[j]
    BY <1>1, StepFacts DEF Working
  <1>5. OnlyProductMoves(k)
    BY <1>1, <1>3 DEF OnlyProductMoves
  <1>6. Shape'
    BY <1>1, <1>2, <1>3 DEF Shape, Order
  <1>7. /\ row[w].status = "exporting" /\ WantedHash(w) # NoHash
        /\ RasterOk(w, WantedHash(w)) /\ meta[w] = WantedHash(w)
    BY <1>1, <1>2 DEF WorkPart
  <1>8. \E v \in Made : v = Product(k) /\ RowPart(v)'
    BY <1>1, <1>2, <1>7 DEF RowPart
  <1>9. \A v : v = w => WantedHash(v)' = WantedHash(v)
    BY <1>1, <1>2, <1>5, WantedKept
  <1>10. Behind(k)' = Behind(k) /\ Product(k)' = Product(k) /\ Order(k)' = Order(k)
    BY <1>1, PlaceFacts DEF Product, Order
  <1>11. \A v, f : RasterOk(v, f) => RasterOk(v, f)'
    BY <1>1 DEF RasterOk, Exists
  <1>12. WorkPart(k)'
    <2>1. RasterOk(Product(k), WantedHash(Product(k)))'
      BY <1>7, <1>9, <1>10, <1>11
    <2> QED
      BY <1>1, <1>2, <1>3, <1>7, <1>9, <1>10, <2>1 DEF WorkPart
  <1>13. k \notin hasFailed' => \A p \in Behind(k)' : Settled(p)'
    BY <1>1, <1>5, <1>10, StaysSettled
  <1> QED
    BY <1>1, <1>2, <1>5, <1>6, <1>8, <1>12, <1>13, OthersKeep

\* The row is done with the fingerprint the product was published for.
LEMMA RecordRowKeeps ==
  ASSUME StaticInv, NEW k \in Pipelines, RecordRow(k)
  PROVE  StaticInv'
  <1> DEFINE w == Product(k)
  <1>1. /\ step[k] = "record" /\ step[k] \in Working /\ Shape
        /\ UpsertRow(w, "done", WantedHash(w)) /\ Advance(k)
        /\ UNCHANGED <<cog, meta, marked, hasFailed, returned, want, resolved, force, tornRead>>
    BY DEF RecordRow, StaticInv, Working, Launch, Store
  <1>2. /\ w \in MadeBy(k) /\ w \in Made /\ w \in Products
        /\ step[k] # "idle" /\ WorkPart(k) /\ place[k] <= Len(Order(k))
    BY <1>1, AtProduct
  <1>3. /\ row' = [q \in Products |-> [status |-> row'[q].status, hash |-> row'[q].hash]]
        /\ row'[w].status = "done" /\ row'[w].hash = WantedHash(w)
        /\ \A q \in Products : q # w => row'[q] = row[q]
    BY <1>1, <1>2, RowFacts
  <1>4. /\ place' \in [Pipelines -> Nat]
        /\ \A j \in Pipelines : place'[j] \in 1..(Len(Order(j)) + 1)
        /\ step' \in [Pipelines -> {"idle", "begin"} \cup Working] /\ step'[k] = "begin"
        /\ \A j \in Pipelines : j # k => step'[j] = step[j] /\ place'[j] = place[j]
        /\ Behind(k)' = Behind(k) \cup {Product(k)}
    BY <1>1, <1>2, AdvanceFacts
  <1>5. OnlyProductMoves(k)
    BY <1>1, <1>3, <1>4 DEF OnlyProductMoves
  <1>6. Shape'
    BY <1>1, <1>3, <1>4 DEF Shape, Order
  <1>7. RasterOk(w, WantedHash(w)) /\ meta[w] = WantedHash(w) /\ w \in marked
    BY <1>1, <1>2 DEF WorkPart
  <1>8. \E v \in Made : v = Product(k) /\ RowPart(v)'
    <2>1. PICK v \in Made : v = w
      BY <1>2
    <2>2. RasterOk(v, row'[v].hash)
      BY <1>3, <1>7, <2>1
    <2>3. RowPart(v)'
      BY <1>1, <1>3, <1>7, <2>1, <2>2 DEF RowPart, RasterOk, Exists
    <2> QED
      BY <2>1, <2>3
  <1>9. WorkPart(k)'
    BY <1>4 DEF WorkPart, Working
  <1>10. k \notin hasFailed' => \A p \in Behind(k)' : Settled(p)'
    BY <1>1, <1>3, <1>4, <1>5, StaysSettled
  <1> QED
    BY <1>1, <1>2, <1>5, <1>6, <1>8, <1>9, <1>10, OthersKeep

\* A product that raises leaves a failed row and a run that has failed.
LEMMA ProductRaisesKeeps ==
  ASSUME StaticInv, NEW k \in Pipelines, ProductRaises(k)
  PROVE  StaticInv'
  <1> DEFINE w == Product(k)
  <1>1. /\ step[k] \in Working /\ Shape
        /\ UpsertRow(w, "failed", NoHash) /\ Advance(k) /\ hasFailed' = hasFailed \cup {k}
        /\ UNCHANGED <<cog, meta, marked, returned, want, resolved, force, tornRead>>
    BY DEF ProductRaises, StaticInv, Working, Launch, Store
  <1>2. /\ w \in MadeBy(k) /\ w \in Made /\ w \in Products
        /\ step[k] # "idle" /\ place[k] <= Len(Order(k))
    BY <1>1, AtProduct
  <1>3. /\ row' = [q \in Products |-> [status |-> row'[q].status, hash |-> row'[q].hash]]
        /\ row'[w].status = "failed"
        /\ \A q \in Products : q # w => row'[q] = row[q]
    BY <1>1, <1>2, RowFacts
  <1>4. /\ place' \in [Pipelines -> Nat]
        /\ \A j \in Pipelines : place'[j] \in 1..(Len(Order(j)) + 1)
        /\ step' \in [Pipelines -> {"idle", "begin"} \cup Working] /\ step'[k] = "begin"
        /\ \A j \in Pipelines : j # k => step'[j] = step[j] /\ place'[j] = place[j]
    BY <1>1, <1>2, AdvanceFacts
  <1>5. OnlyProductMoves(k)
    BY <1>1, <1>3, <1>4 DEF OnlyProductMoves
  <1>6. Shape'
    BY <1>1, <1>3, <1>4 DEF Shape, Order
  <1>7. \E v \in Made : v = Product(k) /\ RowPart(v)'
    BY <1>2, <1>3 DEF RowPart
  <1>8. WorkPart(k)'
    BY <1>4 DEF WorkPart, Working
  <1> QED
    BY <1>1, <1>2, <1>5, <1>6, <1>7, <1>8, OthersKeep

-----------------------------------------------------------------------------
(* A run begins or ends: nothing in the store or the ledgers moves.         *)

\* What the beginning or the end of a run owes the invariant.
LEMMA RunKeeps ==
  ASSUME StaticInv, Shape', NEW k \in Pipelines,
         UNCHANGED <<cog, meta, marked, row, tornRead>>,
         k = "sources" => resolved' = resolved,
         k = "derived" => want' = want,
         \A j \in Pipelines : j # k =>
           /\ place'[j] = place[j] /\ step'[j] = step[j] /\ returned'[j] = returned[j]
           /\ j \in hasFailed => j \in hasFailed',
         step'[k] \in {"idle", "begin"}, RunPart(k)',
         step'["derived"] # "idle" => \A s \in Earlier : resolved'[s] = meta[s]
  PROVE  StaticInv'
  <1>1. Shape
    BY DEF StaticInv
  <1>2. \A p \in Made : RowPart(p)'
    BY DEF StaticInv, RowPart, RasterOk, Exists
  <1>3. WorkPart(k)'
    BY DEF WorkPart, Working
  <1>4. ASSUME NEW j \in Pipelines, j # k PROVE WorkPart(j)' /\ RunPart(j)'
    <2>1. /\ place'[j] = place[j] /\ step'[j] = step[j] /\ returned'[j] = returned[j]
          /\ j \in hasFailed => j \in hasFailed'
      BY <1>4
    <2>2. Product(j)' = Product(j) /\ Behind(j)' = Behind(j) /\ Behind(j) \subseteq MadeBy(j)
      BY <1>1, <2>1, PlaceFacts DEF Product, Order
    <2>3. \A p \in MadeBy(j) : WantedHash(p)' = WantedHash(p)
      <3>1. CASE j = "sources"
        <4>1. want' = want
          BY <1>4, <3>1 DEF Pipelines
        <4> QED
          BY <3>1, <4>1, WantedCases, WantedCasesNext DEF MadeBy
      <3>2. CASE j = "derived"
        <4>1. resolved' = resolved
          BY <1>4, <3>2 DEF Pipelines
        <4>2. TAKE p \in MadeBy(j)
        <4>3. p \in Derived
          BY <3>2 DEF MadeBy
        <4>4. \A q : LedgerHash(q)' = LedgerHash(q)
          BY DEF LedgerHash
        <4>5. CASE p \in Dsms
          BY <4>1, <4>5, WantedCases, WantedCasesNext
        <4>6. CASE p = "horizon_building"
          BY <4>6, WantedCases, WantedCasesNext
        <4>7. CASE p = "horizon_vegetation"
          BY <4>4, <4>7, WantedCases, WantedCasesNext
        <4>8. CASE p = "svf"
          BY <4>4, <4>8, WantedCases, WantedCasesNext
        <4> QED
          BY <4>3, <4>5, <4>6, <4>7, <4>8, DerivedPlaces DEF Dsms
      <3> QED
        BY <3>1, <3>2 DEF Pipelines
    <2>4. \A p \in MadeBy(j) : Settled(p) => Settled(p)'
      BY <2>3 DEF Settled
    <2>5. RunPart(j) /\ WorkPart(j)
      BY DEF StaticInv
    <2>6. RunPart(j)'
      <3>1. step'[j] # "idle" /\ j \notin hasFailed' => \A p \in Behind(j)' : Settled(p)'
        BY <2>1, <2>2, <2>4, <2>5 DEF RunPart
      <3>2. returned'[j] = "ok" => step'[j] = "idle" /\ \A p \in MadeBy(j) : Settled(p)'
        BY <2>1, <2>4, <2>5 DEF RunPart
      <3> QED
        BY <3>1, <3>2 DEF RunPart, MadeBy
    <2>7. WorkPart(j)'
      <3>1. SUFFICES ASSUME step'[j] \in Working PROVE WorkPart(j)'
        BY DEF WorkPart
      <3>2. /\ step[j] \in Working /\ place[j] <= Len(Order(j)) /\ Order(j)' = Order(j)
        BY <2>1, <2>5, <3>1 DEF WorkPart, Order
      <3>3. Product(j) \in MadeBy(j)
        BY <1>1, <3>2, PlaceFacts
      <3>4. \A q, f : RasterOk(q, f) => RasterOk(q, f)'
        BY DEF RasterOk, Exists
      <3>5. WantedHash(Product(j))' = WantedHash(Product(j))
        BY <2>2, <2>3, <3>3
      <3> QED
        BY <2>1, <2>2, <2>5, <3>2, <3>3, <3>4, <3>5 DEF WorkPart
    <2> QED
      BY <2>6, <2>7
  <1>5. EarlierPart'
    BY DEF StaticInv, EarlierPart
  <1> QED
    BY <1>2, <1>3, <1>4, <1>5 DEF StaticInv

\* A run that ends "ok" has settled everything it makes.
LEMMA LeaveKeeps ==
  ASSUME StaticInv, NEW k \in Pipelines, NEW outcome \in {"none", "ok", "error"},
         LeaveRun(k, outcome), UNCHANGED <<cog, meta, marked, row, tornRead>>,
         outcome = "ok" => \A p \in MadeBy(k) : Settled(p)
  PROVE  StaticInv'
  <1>1. /\ Shape /\ GotoStep(k, "idle")
        /\ place' = [place EXCEPT ![k] = 1] /\ hasFailed' = hasFailed \ {k}
        /\ returned' = [returned EXCEPT ![k] = outcome]
    BY DEF StaticInv, LeaveRun
  <1>2. /\ step' \in [Pipelines -> {"idle", "begin"} \cup Working] /\ step'[k] = "idle"
        /\ \A j \in Pipelines : j # k => step'[j] = step[j]
    BY <1>1, StepFacts
  <1>3. /\ place' \in [Pipelines -> Nat] /\ returned' \in [Pipelines -> {"none", "ok", "error"}]
        /\ place'[k] = 1 /\ returned'[k] = outcome
        /\ \A j \in Pipelines : j # k => place'[j] = place[j] /\ returned'[j] = returned[j]
    BY <1>1 DEF Shape
  <1>4. \A j \in Pipelines : place'[j] \in 1..(Len(Order(j)) + 1)
    <2>1. TAKE j \in Pipelines
    <2>2. place[j] \in 1..(Len(Order(j)) + 1) /\ Len(Order(j)) \in Nat
      BY <1>1, OrderFacts DEF Shape
    <2> QED
      BY <1>3, <2>2
  <1>5. force' \subseteq Forceable
    BY <1>1 DEF LeaveRun, Shape
  <1>6. Shape'
    BY <1>1, <1>2, <1>3, <1>4, <1>5 DEF Shape, Order
  <1>7. outcome = "ok" => want' = want /\ resolved' = resolved
    BY DEF LeaveRun
  <1>8. k = "sources" => resolved' = resolved
    BY DEF LeaveRun
  <1>9. k = "derived" => want' = want
    BY DEF LeaveRun
  <1>10. RunPart(k)'
    <2>1. ASSUME outcome = "ok", NEW p \in MadeBy(k) PROVE Settled(p)'
      <3>1. Settled(p) /\ want' = want /\ resolved' = resolved /\ row' = row
        BY <1>7, <2>1
      <3> QED
        BY <3>1 DEF Settled, WantedHash, LedgerHash
    <2> QED
      BY <1>2, <1>3, <2>1 DEF RunPart, MadeBy
  <1>11. step'["derived"] # "idle" => \A s \in Earlier : resolved'[s] = meta[s]
    <2>1. SUFFICES ASSUME step'["derived"] # "idle"
                   PROVE  \A s \in Earlier : resolved'[s] = meta[s]
      OBVIOUS
    <2>2. k = "sources" /\ step["derived"] # "idle"
      BY <1>2, <2>1 DEF Pipelines
    <2> QED
      BY <1>8, <2>2 DEF StaticInv, EarlierPart
  <1> QED
    BY <1>1, <1>2, <1>3, <1>6, <1>8, <1>9, <1>10, <1>11, RunKeeps

\* A run begins with nothing behind it.
LEMMA EnterKeeps ==
  ASSUME StaticInv, NEW k \in Pipelines, step[k] = "idle", Enter(k),
         UNCHANGED <<cog, meta, marked, row, tornRead>>, force' \subseteq Forceable,
         k = "sources" => resolved' = resolved,
         k = "derived" => want' = want /\ \A s \in Earlier : resolved'[s] = meta[s]
  PROVE  StaticInv'
  <1>1. /\ Shape /\ GotoStep(k, "begin")
        /\ place' = [place EXCEPT ![k] = 1] /\ hasFailed' = hasFailed \ {k}
        /\ returned' = [returned EXCEPT ![k] = "none"]
    BY DEF StaticInv, Enter
  <1>2. /\ step' \in [Pipelines -> {"idle", "begin"} \cup Working] /\ step'[k] = "begin"
        /\ \A j \in Pipelines : j # k => step'[j] = step[j]
    BY <1>1, StepFacts
  <1>3. /\ place' \in [Pipelines -> Nat] /\ returned' \in [Pipelines -> {"none", "ok", "error"}]
        /\ place'[k] = 1 /\ returned'[k] = "none"
        /\ \A j \in Pipelines : j # k => place'[j] = place[j] /\ returned'[j] = returned[j]
    BY <1>1 DEF Shape
  <1>4. \A j \in Pipelines : place'[j] \in 1..(Len(Order(j)) + 1)
    <2>1. TAKE j \in Pipelines
    <2>2. place[j] \in 1..(Len(Order(j)) + 1) /\ Len(Order(j)) \in Nat
      BY <1>1, OrderFacts DEF Shape
    <2> QED
      BY <1>3, <2>2
  <1>5. Shape'
    BY <1>1, <1>2, <1>3, <1>4 DEF Shape, Order
  <1>6. RunPart(k)'
    <2>1. Behind(k)' = {}
      BY <1>1, <1>3, PlaceFacts
    <2> QED
      BY <1>3, <2>1 DEF RunPart
  <1>7. step'["derived"] # "idle" => \A s \in Earlier : resolved'[s] = meta[s]
    <2>1. CASE k = "derived"
      BY <2>1
    <2>2. CASE k # "derived"
      <3>1. k = "sources" /\ resolved' = resolved /\ step'["derived"] = step["derived"]
        BY <1>2, <2>2 DEF Pipelines
      <3> QED
        BY <3>1 DEF StaticInv, EarlierPart
    <2> QED
      BY <2>1, <2>2
  <1> QED
    BY <1>1, <1>2, <1>3, <1>5, <1>6, <1>7, RunKeeps

\* A source run starts with everything to resolve and nothing behind it.
LEMMA StartSourcesKeeps ==
  ASSUME StaticInv, StartSources
  PROVE  StaticInv'
  <1>1. /\ step["sources"] = "idle" /\ Enter("sources") /\ "sources" \in Pipelines
        /\ UNCHANGED <<cog, meta, marked, row, resolved, force, tornRead>>
    BY DEF StartSources, Store, Pipelines
  <1>2. force' \subseteq Forceable
    BY <1>1 DEF StaticInv, Shape
  <1> QED
    BY <1>1, <1>2, EnterKeeps

\* What is resolved is what the metadata of the sources names.
LEMMA StartDerivedKeeps ==
  ASSUME StaticInv, StartDerived
  PROVE  StaticInv'
  <1>1. /\ step["derived"] = "idle" /\ Enter("derived") /\ "derived" \in Pipelines
        /\ UNCHANGED <<cog, meta, marked, row, want, tornRead>> /\ force' \subseteq Forceable
        /\ resolved' = [s \in Upstream |-> meta[s]]
    BY DEF StartDerived, Store, Pipelines
  <1>2. \A s \in Earlier : resolved'[s] = meta[s]
    BY <1>1 DEF Earlier
  <1> QED
    BY <1>1, <1>2, EnterKeeps

\* A run returns 0 only from the end of its order, without a failure.
LEMMA FinishKeeps ==
  ASSUME StaticInv, NEW k \in Pipelines, Finish(k)
  PROVE  StaticInv'
  <1> DEFINE outcome == IF k \notin hasFailed /\ (k = "sources" => AuditOk) THEN "ok" ELSE "error"
  <1>1. /\ step[k] = "begin" /\ place[k] = Len(Order(k)) + 1 /\ LeaveRun(k, outcome)
        /\ UNCHANGED <<cog, meta, marked, row, tornRead>> /\ Shape /\ RunPart(k)
    BY DEF Finish, Store, StaticInv
  <1>2. outcome \in {"none", "ok", "error"} /\ (outcome = "ok" => k \notin hasFailed)
    OBVIOUS
  <1> HIDE DEF outcome
  <1>3. outcome = "ok" => \A p \in MadeBy(k) : Settled(p)
    BY <1>1, <1>2, PlaceFacts DEF RunPart
  <1> QED
    BY <1>1, <1>2, <1>3, LeaveKeeps

\* A killed run leaves the store and the rows as they are and reports nothing.
LEMMA KillProcessKeeps ==
  ASSUME StaticInv, NEW k \in Pipelines, KillProcess(k)
  PROVE  StaticInv'
  <1>1. LeaveRun(k, "none") /\ UNCHANGED <<cog, meta, marked, row, tornRead>>
    BY DEF KillProcess, Store
  <1> QED
    BY <1>1, LeaveKeeps

\* A derived run without its inputs leaves with an error.
LEMMA DerivedRefusedKeeps ==
  ASSUME StaticInv, DerivedRefused
  PROVE  StaticInv'
  <1>1. /\ LeaveRun("derived", "error") /\ UNCHANGED <<cog, meta, marked, row, tornRead>>
        /\ "derived" \in Pipelines
    BY DEF DerivedRefused, Store, Pipelines
  <1> QED
    BY <1>1, LeaveKeeps

-----------------------------------------------------------------------------

\* The products of earlier runs are done with the fingerprint they have.
LEMMA StaticInitInv ==
  ASSUME StaticInit
  PROVE  StaticInv
  <1>1. PICK h \in [Earlier -> UNION {ConfigHashes[s] : s \in Earlier}] :
          /\ cog = [p \in Products |-> IF p \in Earlier THEN {h[p]} ELSE {}]
          /\ meta = [p \in Products |-> IF p \in Earlier THEN h[p] ELSE NoHash]
    BY DEF StaticInit
  <1>2. /\ row = [p \in Products |-> [status |-> "none", hash |-> NoHash]]
        /\ place = [k \in Pipelines |-> 1] /\ step = [k \in Pipelines |-> "idle"]
        /\ returned = [k \in Pipelines |-> "none"] /\ force = {} /\ marked = Earlier
    BY DEF StaticInit
  <1>3. \A k \in Pipelines : place[k] \in 1..(Len(Order(k)) + 1)
    <2>1. TAKE k \in Pipelines
    <2>2. Len(Order(k)) \in Nat
      BY OrderFacts
    <2> QED
      BY <1>2, <2>2
  <1>4. /\ cog = [p \in Products |-> cog[p]] /\ meta = [p \in Products |-> meta[p]]
        /\ row = [p \in Products |-> [status |-> row[p].status, hash |-> row[p].hash]]
    BY <1>1, <1>2
  <1>5. Shape
    BY <1>2, <1>3, <1>4, Apart DEF Shape
  <1>6. \A p \in Made : RowPart(p)
    BY <1>2, Apart DEF RowPart
  <1>7. \A k \in Pipelines : WorkPart(k) /\ RunPart(k)
    BY <1>2 DEF WorkPart, RunPart, Working
  <1>8. EarlierPart
    <2>1. "derived" \in Pipelines
      BY DEF Pipelines
    <2> QED
      BY <1>1, <1>2, <2>1, Apart DEF EarlierPart
  <1> QED
    BY <1>5, <1>6, <1>7, <1>8 DEF StaticInv

\* Every step of either pipeline keeps the invariant.
LEMMA StaticNextInv ==
  ASSUME StaticInv, [StaticNext]_staticVars
  PROVE  StaticInv'
  <1>1. CASE UNCHANGED staticVars
    <2>1. UNCHANGED <<cog, meta, marked, row, place, step, hasFailed, returned, want, resolved,
                      force, tornRead>>
      BY <1>1 DEF staticVars
    <2>2. Shape'
      BY <2>1 DEF StaticInv, Shape, Order
    <2>3. \A p \in Made : RowPart(p)'
      BY <2>1 DEF StaticInv, RowPart, RasterOk, Exists
    <2>4. \A p : WantedHash(p)' = WantedHash(p)
      BY <2>1 DEF WantedHash, LedgerHash
    <2>5. \A p, f : RasterOk(p, f) => RasterOk(p, f)'
      BY <2>1 DEF RasterOk, Exists
    <2>6. ASSUME NEW k \in Pipelines PROVE WorkPart(k)' /\ RunPart(k)'
      <3>1. WorkPart(k) /\ RunPart(k)
        BY DEF StaticInv
      <3>2. Product(k)' = Product(k) /\ Behind(k)' = Behind(k) /\ Order(k)' = Order(k)
        BY <2>1 DEF Product, Behind, Order
      <3>3. \A p : Settled(p) => Settled(p)'
        BY <2>1, <2>4 DEF Settled
      <3>4. WorkPart(k)'
        BY <2>1, <2>4, <2>5, <3>1, <3>2 DEF WorkPart
      <3> QED
        BY <2>1, <3>1, <3>2, <3>3, <3>4 DEF RunPart, MadeBy
    <2>7. EarlierPart'
      BY <2>1 DEF StaticInv, EarlierPart
    <2> QED
      BY <2>2, <2>3, <2>6, <2>7 DEF StaticInv
  <1>2. CASE StaticNext
    <2>1. CASE StartSources
      BY <2>1, StartSourcesKeeps
    <2>2. CASE StartDerived
      BY <2>2, StartDerivedKeeps
    <2>3. CASE DerivedRefused
      BY <2>3, DerivedRefusedKeeps
    <2>4. ASSUME NEW k \in Pipelines, StaticStep(k) PROVE StaticInv'
      BY <2>4, BeginKeeps, WriteCogKeeps, WriteMetaKeeps, MarkCompleteKeeps, RecordRowKeeps,
         ProductRaisesKeeps, FinishKeeps, KillProcessKeeps DEF StaticStep
    <2> QED
      BY <1>2, <2>1, <2>2, <2>3, <2>4 DEF StaticNext
  <1> QED
    BY <1>1, <1>2

\* Whatever the sources, their order and their configurations: a done row names a
\* published product, the product at hand is claimed and published step by step,
\* and what a run without a failure has behind it is done as it wants it.
THEOREM StaticInvariant == StaticSpec => []StaticInv
  BY StaticInitInv, StaticNextInv, PTL DEF StaticSpec

\* A source run that returns 0 leaves every source published with the hash of its
\* configuration: the closing audit need not look at the hashes, because a run
\* that counted no failure has left each row done with the hash it wants.
THEOREM SourceRunsAreTruthful == StaticSpec => []SourceAuditIsTruthful
  <1>1. StaticInv => SourceAuditIsTruthful
    <2>1. SUFFICES ASSUME StaticInv, returned["sources"] = "ok", NEW s \in SourceProducts
                   PROVE  cog[s] = {want[s]} /\ meta[s] = want[s] /\ s \in marked
      BY DEF SourceAuditIsTruthful
    <2>2. "sources" \in Pipelines /\ s \in MadeBy("sources") /\ s \in Made
      BY DEF Pipelines, MadeBy, Made
    <2>3. Settled(s) /\ RowPart(s) /\ WantedHash(s) = want[s]
      BY <2>1, <2>2, WantedCases DEF StaticInv, RunPart
    <2> QED
      BY <2>3 DEF Settled, RowPart, RasterOk
  <1> QED
    BY <1>1, StaticInvariant, PTL

\* A derived run that returns 0 leaves all six products done and published, with
\* the hashes it resolved and the hashes of the models they derive from: nothing
\* is skipped without a failure that an earlier product has not already counted.
THEOREM DerivedRunsAreComplete == StaticSpec => []CleanRunIsComplete
  <1>1. StaticInv => CleanRunIsComplete
    <2>1. SUFFICES ASSUME StaticInv, returned["derived"] = "ok" PROVE CleanRunIsComplete
      BY DEF CleanRunIsComplete
    <2>2. "derived" \in Pipelines /\ MadeBy("derived") = Derived /\ Derived \subseteq Made
      BY DEF Pipelines, MadeBy, Made
    <2>3. \A p \in Derived : Settled(p) /\ RowPart(p)
      BY <2>1, <2>2 DEF StaticInv, RunPart
    <2>4. \A p \in Derived :
            row[p].status = "done" /\ Exists(p) /\ p \in marked /\ meta[p] = row[p].hash
      BY <2>3 DEF Settled, RowPart, RasterOk
    <2>5. \A p \in Dsms : row[p].hash = resolved
      BY <2>3, WantedCases, Apart DEF Settled
    <2>6. row["horizon_vegetation"].hash = row["vegetation_dsm"].hash
      BY <2>3, WantedCases, DerivedPlaces DEF Settled, LedgerHash
    <2>7. row["svf"].hash = row["combined_dsm"].hash
      BY <2>3, WantedCases, DerivedPlaces DEF Settled, LedgerHash
    <2> QED
      BY <2>4, <2>5, <2>6, <2>7 DEF CleanRunIsComplete
  <1> QED
    BY <1>1, StaticInvariant, PTL

\* Unless a derived run read a source that was being replaced, a done building or
\* vegetation model, or vegetation horizon, was computed from what its hash names,
\* whichever runs overlapped, failed or were killed before.
THEOREM DoneRastersAreTrue == StaticSpec => []DoneRasterIsAsFingerprinted
  <1>1. StaticInv => DoneRasterIsAsFingerprinted
    BY Apart DEF DoneRasterIsAsFingerprinted, StaticInv, RowPart, RasterOk, Made, Fingerprinted
  <1> QED
    BY <1>1, StaticInvariant, PTL

-----------------------------------------------------------------------------
(* The backfill of the building vintages.                                  *)

Lod2(w) == <<"lod2_morphology", w>>
Member(p, w) == <<p, w>>
Writing == {"raster", "prov", "seal"}
InBundleWork == stage \in Writing \cup {"rows"} /\ toPublish # {}

\* The functions keep their domains, and the run is where its stage says.
VintageShape ==
  /\ raster = [i \in VintageItems |-> raster[i]]
  /\ entry = [i \in VintageItems |-> EntryRow(entry[i].status, entry[i].hash)]
  /\ stage \in {"idle", "morphology", "manifest", "record", "derive", "rows", "audit"}
                 \cup Writing
  /\ turn \in 1..(Len(VintageOrder) + 1)
  /\ stage \notin {"idle", "audit"} => turn <= Len(VintageOrder)
  /\ stage = "audit" => turn = Len(VintageOrder) + 1
  /\ stage = "idle" => turn = 1 /\ owed = {} /\ ~troubled
  /\ stage # "idle" => revision \in Revisions /\ reported = "none"
  /\ troubled \in BOOLEAN

\* A raster that is there is what its done morphology row says.
MorphologyOk(w) ==
  entry[Lod2(w)].status = "done" => raster[Lod2(w)] \in {NoRevision, entry[Lod2(w)].hash}

\* The done products go back to the morphology row, unless the morphology was
\* rebuilt and the bundle not yet.
BundleOk(w) ==
  w \notin owed \cup left /\ entry[Lod2(w)].status = "done" =>
    \A p \in InBundle : entry[Member(p, w)].status = "done" =>
      raster[Member(p, w)] \in {NoRevision, entry[Lod2(w)].hash}

\* The morphology in work is claimed until it is recorded.
ClaimPart ==
  stage \in {"manifest", "record"} \/ (stage \in Writing /\ toPublish = {}) =>
    /\ entry[Morphology].status = "exporting"
    /\ stage \in {"prov", "seal", "record"} => raster[Morphology] = revision

\* The bundle is derived from a morphology of this code.
DerivePart ==
  stage = "derive" /\ entry[Morphology].status = "done" => entry[Morphology].hash = revision

\* A run that rebuilds a bundle: what is not, or no longer, to be built is there,
\* unless an earlier run left the vintage behind and this one builds only a part.
BundlePart ==
  InBundleWork =>
    /\ toPublish \subseteq missing /\ missing \subseteq InBundle
    /\ entry[Morphology] = EntryRow("done", revision) /\ raster[Morphology] = revision
    /\ vintage \in owed => missing = InBundle
    /\ vintage \notin left \/ missing = InBundle =>
         /\ \A p \in InBundle : stage = "rows" \/ p \notin toPublish =>
              raster[Member(p, vintage)] = revision
         /\ stage \in {"prov", "seal"} => raster[Member(Part, vintage)] = revision
    /\ \A p \in InBundle :
         /\ Member(p, vintage) \in DOMAIN copy
         /\ copy[Member(p, vintage)] =
              EntryRow(copy[Member(p, vintage)].status, copy[Member(p, vintage)].hash)
         /\ vintage \notin owed \cup left /\ copy[Member(p, vintage)].status = "done" =>
              raster[Member(p, vintage)] \in {NoRevision, revision}
    /\ DOMAIN copy = Bundled(vintage)

\* A run without a failure has morphologies of its code behind it, and owes at most
\* the bundle it is at.
SoundPart ==
  ~troubled =>
    /\ \A i \in 1..Len(VintageOrder) :
         i < turn \/ (i = turn /\ stage = "derive") =>
           entry[Lod2(VintageOrder[i])].status = "done"
             /\ entry[Lod2(VintageOrder[i])].hash = revision
    /\ owed # {} => owed = {vintage} /\ (stage = "derive" \/ InBundleWork)

VintageInv ==
  /\ VintageShape
  /\ \A w \in Vintages : MorphologyOk(w) /\ BundleOk(w)
  /\ ClaimPart /\ DerivePart /\ BundlePart /\ SoundPart
  /\ ZeroBackfillIsCurrent

-----------------------------------------------------------------------------

\* The products of a bundle, by place.
LEMMA BundlePlaces ==
  /\ Len(Bundle) = 4
  /\ Bundle[1] = "building_dsm" /\ Bundle[2] = "combined_dsm"
  /\ Bundle[3] = "horizon_building" /\ Bundle[4] = "svf"
  /\ InBundle = {"building_dsm", "combined_dsm", "horizon_building", "svf"}
  BY DEF Bundle, InBundle

\* The first product still to be built has what it is computed from before it.
LEMMA FirstOfBundle ==
  ASSUME NEW s, s \subseteq InBundle, s # {}
  PROVE  /\ First(Bundle, s) \in s
         /\ First(Bundle, s) = "svf" => "combined_dsm" \notin s
         /\ First(Bundle, s) \in {"combined_dsm", "horizon_building"} => "building_dsm" \notin s
  <1> DEFINE Leads(i) == Bundle[i] \in s /\ \A j \in 1..(i - 1) : Bundle[j] \notin s
  <1>1. \E i \in 1..4 : Leads(i)
    <2>1. CASE "building_dsm" \in s
      BY <2>1, BundlePlaces
    <2>2. CASE "building_dsm" \notin s /\ "combined_dsm" \in s
      <3>1. \A j \in 1..(2 - 1) : j = 1
        OBVIOUS
      <3> QED
        BY <2>2, <3>1, BundlePlaces
    <2>3. CASE "building_dsm" \notin s /\ "combined_dsm" \notin s /\ "horizon_building" \in s
      <3>1. \A j \in 1..(3 - 1) : j = 1 \/ j = 2
        OBVIOUS
      <3> QED
        BY <2>3, <3>1, BundlePlaces
    <2>4. CASE /\ "building_dsm" \notin s /\ "combined_dsm" \notin s
               /\ "horizon_building" \notin s /\ "svf" \in s
      <3>1. \A j \in 1..(4 - 1) : j = 1 \/ j = 2 \/ j = 3
        OBVIOUS
      <3> QED
        BY <2>4, <3>1, BundlePlaces
    <2> QED
      BY <2>1, <2>2, <2>3, <2>4, BundlePlaces
  <1> DEFINE i == CHOOSE i \in 1..4 : Leads(i)
  <1>2. i \in 1..4 /\ Leads(i)
    BY <1>1
  <1>3. First(Bundle, s) = Bundle[i]
    BY BundlePlaces DEF First
  <1> HIDE DEF i
  <1>4. Bundle[i] \in s /\ \A j \in 1..4 : j < i => Bundle[j] \notin s
    BY <1>2
  <1>5. i = 1 \/ i = 2 \/ i = 3 \/ i = 4
    BY <1>2
  <1> QED
    BY <1>3, <1>4, <1>5, BundlePlaces

\* The items of a vintage are apart, from one another and from those of others.
LEMMA ItemFacts ==
  /\ \A w \in Vintages : Lod2(w) \in VintageItems
  /\ \A w \in Vintages : \A p \in InBundle : Member(p, w) \in VintageItems
  /\ \A w, u : \A p \in InBundle : Member(p, w) # Lod2(u)
  /\ \A w, u : Lod2(w) = Lod2(u) => w = u
  /\ \A w, u, p, q : Member(p, w) = Member(q, u) => p = q /\ w = u
  <1>1. "lod2_morphology" \notin InBundle
    BY BundlePlaces
  <1> QED
    BY <1>1 DEF Lod2, Member, VintageItems

\* Where a run is, and that a vintage is worked on once.
LEMMA TurnFacts ==
  ASSUME VintageShape
  PROVE  /\ Len(VintageOrder) \in Nat /\ turn \in Nat /\ turn >= 1
         /\ turn <= Len(VintageOrder) + 1
         /\ turn <= Len(VintageOrder) =>
              vintage \in Vintages /\ Lod2(vintage) = Morphology /\ Morphology \in VintageItems
         /\ \A i \in 1..Len(VintageOrder) : VintageOrder[i] \in Vintages
         /\ \A i \in 1..Len(VintageOrder) :
              turn <= Len(VintageOrder) /\ i # turn => VintageOrder[i] # vintage
  <1>1. VintageOrder \in Seq(DOMAIN ArchivesOf)
    BY VintageAssumption DEF VintageAssumption
  <1>2. Len(VintageOrder) \in Nat
    BY <1>1
  <1>3. turn \in 1..(Len(VintageOrder) + 1)
    BY DEF VintageShape
  <1>4. \A i \in 1..Len(VintageOrder) : VintageOrder[i] \in Vintages
    BY DEF Vintages
  <1>5. turn <= Len(VintageOrder) => turn \in 1..Len(VintageOrder)
    BY <1>2, <1>3
  <1>6. turn <= Len(VintageOrder) => vintage \in Vintages
    BY <1>4, <1>5 DEF vintage
  <1>7. Lod2(vintage) = Morphology
    BY DEF Lod2, Morphology
  <1>8. turn <= Len(VintageOrder) => Morphology \in VintageItems
    BY <1>6, <1>7, ItemFacts
  <1>9. \A i \in 1..Len(VintageOrder) :
          turn <= Len(VintageOrder) /\ i # turn => VintageOrder[i] # vintage
    BY <1>5, VintageAssumption DEF VintageAssumption, vintage
  <1> QED
    BY <1>2, <1>3, <1>4, <1>6, <1>7, <1>8, <1>9

\* A ledger row that is written.
LEMMA EntryWrite ==
  ASSUME VintageShape, NEW i \in VintageItems, NEW status, NEW hash,
         entry' = [entry EXCEPT ![i] = EntryRow(status, hash)]
  PROVE  /\ entry' = [j \in VintageItems |-> EntryRow(entry'[j].status, entry'[j].hash)]
         /\ entry'[i] = EntryRow(status, hash)
         /\ entry'[i].status = status /\ entry'[i].hash = hash
         /\ \A j \in VintageItems : j # i => entry'[j] = entry[j]
  <1>1. entry = [j \in VintageItems |-> EntryRow(entry[j].status, entry[j].hash)]
    BY DEF VintageShape
  <1>2. entry' = [j \in VintageItems |-> IF j = i THEN EntryRow(status, hash) ELSE entry[j]]
    BY <1>1
  <1>3. entry'[i] = EntryRow(status, hash) /\ \A j \in VintageItems : j # i => entry'[j] = entry[j]
    BY <1>2
  <1>4. \A s, h : EntryRow(s, h).status = s /\ EntryRow(s, h).hash = h
    BY DEF EntryRow
  <1>5. \A j \in VintageItems : entry'[j] = EntryRow(entry'[j].status, entry'[j].hash)
    <2>1. TAKE j \in VintageItems
    <2>2. entry[j] = EntryRow(entry[j].status, entry[j].hash)
      BY <1>1
    <2>3. CASE j = i
      BY <1>3, <1>4, <2>3
    <2>4. CASE j # i
      BY <1>3, <2>2, <2>4
    <2> QED
      BY <2>3, <2>4
  <1> DEFINE R == [j \in VintageItems |-> EntryRow(entry'[j].status, entry'[j].hash)]
  <1>6. entry' = R
    BY <1>2, <1>5
  <1> QED
    BY <1>3, <1>4, <1>6

\* A raster that is written.
LEMMA RasterWrite ==
  ASSUME VintageShape, NEW i \in VintageItems, NEW h, raster' = [raster EXCEPT ![i] = h]
  PROVE  /\ raster' = [j \in VintageItems |-> raster'[j]] /\ raster'[i] = h
         /\ \A j \in VintageItems : j # i => raster'[j] = raster[j]
  <1>1. raster = [j \in VintageItems |-> raster[j]]
    BY DEF VintageShape
  <1>2. raster' = [j \in VintageItems |-> IF j = i THEN h ELSE raster[j]]
    BY <1>1
  <1> QED
    BY <1>2

\* What says of a vintage that the step leaves it alone.
SameItems(w) ==
  /\ raster'[Lod2(w)] = raster[Lod2(w)] /\ entry'[Lod2(w)] = entry[Lod2(w)]
  /\ \A p \in InBundle :
       raster'[Member(p, w)] = raster[Member(p, w)] /\ entry'[Member(p, w)] = entry[Member(p, w)]
  /\ w \in owed \cup left => w \in owed' \cup left'

\* What is said of a vintage is about its own rasters and rows only.
LEMMA SameItemsKeep ==
  ASSUME NEW w, SameItems(w), MorphologyOk(w), BundleOk(w)
  PROVE  MorphologyOk(w)' /\ BundleOk(w)'
  <1>1. MorphologyOk(w)'
    BY DEF SameItems, MorphologyOk, Lod2
  <1>2. BundleOk(w)'
    BY DEF SameItems, BundleOk, Lod2, Member
  <1> QED
    BY <1>1, <1>2

\* The items of every other vintage are left alone by a step on this one.
LEMMA OtherVintages ==
  ASSUME VintageInv, turn <= Len(VintageOrder),
         \A i \in VintageItems :
           i # Morphology /\ (\A p \in InBundle : i # Member(p, vintage)) =>
             raster'[i] = raster[i] /\ entry'[i] = entry[i],
         \A w \in Vintages : w # vintage /\ w \in owed \cup left => w \in owed' \cup left',
         \A w \in Vintages : w = vintage => MorphologyOk(w)' /\ BundleOk(w)'
  PROVE  \A w \in Vintages : MorphologyOk(w)' /\ BundleOk(w)'
  <1>1. SUFFICES ASSUME NEW w \in Vintages, w # vintage
                 PROVE  MorphologyOk(w)' /\ BundleOk(w)'
    OBVIOUS
  <1>2. Lod2(vintage) = Morphology
    BY DEF Lod2, Morphology
  <1>3. SameItems(w)
    <2>1. Lod2(w) \in VintageItems /\ Lod2(w) # Morphology
           /\ \A p \in InBundle : Lod2(w) # Member(p, vintage)
      BY <1>1, <1>2, ItemFacts
    <2>2. \A q \in InBundle :
            /\ Member(q, w) \in VintageItems /\ Member(q, w) # Morphology
            /\ \A p \in InBundle : Member(q, w) # Member(p, vintage)
      BY <1>1, <1>2, ItemFacts
    <2> QED
      BY <1>1, <2>1, <2>2 DEF SameItems
  <1> QED
    BY <1>1, <1>3, SameItemsKeep DEF VintageInv

\* The fields of a row.
LEMMA RowFields ==
  \A s, h : EntryRow(s, h).status = s /\ EntryRow(s, h).hash = h
  BY DEF EntryRow

\* A step that touches no raster and no row, and forgets no vintage it owes.
LEMMA UntouchedKeep ==
  ASSUME VintageInv, UNCHANGED <<raster, entry>>, owed \cup left \subseteq owed' \cup left'
  PROVE  \A w \in Vintages : MorphologyOk(w)' /\ BundleOk(w)'
  BY SameItemsKeep DEF VintageInv, SameItems

\* The run goes on to the next vintage.
LEMMA NextKeeps ==
  ASSUME VintageInv, turn <= Len(VintageOrder), stage # "idle", NextVintage,
         raster' = [i \in VintageItems |-> raster'[i]],
         entry' = [i \in VintageItems |-> EntryRow(entry'[i].status, entry'[i].hash)],
         UNCHANGED <<revision, reported>>, troubled' \in BOOLEAN,
         \A w \in Vintages : MorphologyOk(w)' /\ BundleOk(w)',
         ~troubled' =>
           /\ ~troubled /\ owed' = {}
           /\ entry'[Morphology].status = "done" /\ entry'[Morphology].hash = revision
           /\ \A i \in 1..Len(VintageOrder) : i < turn =>
                entry'[Lod2(VintageOrder[i])] = entry[Lod2(VintageOrder[i])]
  PROVE  VintageInv'
  <1>1. VintageShape /\ SoundPart /\ reported = "none" /\ revision \in Revisions
    BY DEF VintageInv, VintageShape
  <1>2. /\ Len(VintageOrder) \in Nat /\ turn \in Nat /\ turn >= 1 /\ turn' = turn + 1
        /\ stage' \in {"audit", "morphology"}
        /\ stage' = "audit" => turn = Len(VintageOrder)
        /\ stage' = "morphology" => turn # Len(VintageOrder)
    BY <1>1, TurnFacts DEF NextVintage
  <1>3. /\ turn' \in 1..(Len(VintageOrder) + 1)
        /\ stage' = "audit" => turn' = Len(VintageOrder) + 1
        /\ stage' = "morphology" => turn' <= Len(VintageOrder)
    BY <1>2
  <1>4. VintageShape'
    BY <1>1, <1>2, <1>3 DEF VintageShape
  <1>5. ClaimPart' /\ DerivePart' /\ BundlePart'
    BY <1>2 DEF ClaimPart, DerivePart, BundlePart, InBundleWork, Writing
  <1>6. SoundPart'
    <2>1. SUFFICES ASSUME ~troubled' PROVE SoundPart'
      BY DEF SoundPart
    <2>2. ASSUME NEW i \in 1..Len(VintageOrder), i < turn'
          PROVE  /\ entry'[Lod2(VintageOrder[i])].status = "done"
                 /\ entry'[Lod2(VintageOrder[i])].hash = revision
      <3>1. i < turn \/ i = turn
        BY <1>2, <2>2
      <3>2. CASE i < turn
        BY <1>1, <2>1, <3>2 DEF SoundPart
      <3>3. CASE i = turn
        <4>1. Lod2(VintageOrder[i]) = Morphology
          BY <3>3 DEF Lod2, Morphology, vintage
        <4> QED
          BY <2>1, <4>1
      <3> QED
        BY <3>1, <3>2, <3>3
    <2>3. ASSUME NEW i \in 1..Len(VintageOrder), i < turn' \/ (i = turn' /\ stage' = "derive")
          PROVE  /\ entry'[Lod2(VintageOrder[i])].status = "done"
                 /\ entry'[Lod2(VintageOrder[i])].hash = revision'
      <3>1. i < turn'
        BY <1>2, <2>3
      <3> QED
        BY <2>2, <3>1
    <2> QED
      BY <2>1, <2>3 DEF SoundPart, Lod2
  <1>7. ZeroBackfillIsCurrent'
    BY <1>1 DEF ZeroBackfillIsCurrent
  <1> QED
    BY <1>4, <1>5, <1>6, <1>7 DEF VintageInv

\* The run goes on with the vintage it is at.
LEMMA StayKeeps ==
  ASSUME VintageInv, turn <= Len(VintageOrder), stage # "idle",
         UNCHANGED <<turn, revision, reported>>, troubled' \in BOOLEAN,
         stage' \in {"morphology", "manifest", "record", "derive", "rows"} \cup Writing,
         raster' = [i \in VintageItems |-> raster'[i]],
         entry' = [i \in VintageItems |-> EntryRow(entry'[i].status, entry'[i].hash)],
         \A w \in Vintages : MorphologyOk(w)' /\ BundleOk(w)',
         ClaimPart', DerivePart', BundlePart',
         ~troubled' =>
           /\ ~troubled
           /\ owed' # {} => owed' = {vintage} /\ (stage' = "derive" \/ InBundleWork')
           /\ stage' = "derive" =>
                entry'[Morphology].status = "done" /\ entry'[Morphology].hash = revision
           /\ \A i \in 1..Len(VintageOrder) : i < turn =>
                entry'[Lod2(VintageOrder[i])] = entry[Lod2(VintageOrder[i])]
  PROVE  VintageInv'
  <1>1. VintageShape /\ SoundPart /\ reported = "none" /\ revision \in Revisions
    BY DEF VintageInv, VintageShape
  <1>2. stage' \notin {"idle", "audit"}
    BY DEF Writing
  <1>3. VintageShape'
    BY <1>1, <1>2 DEF VintageShape
  <1>4. SoundPart'
    <2>1. SUFFICES ASSUME ~troubled' PROVE SoundPart'
      BY DEF SoundPart
    <2>2. vintage' = vintage
      BY DEF vintage
    <2>3. ASSUME NEW i \in 1..Len(VintageOrder), i < turn' \/ (i = turn' /\ stage' = "derive")
          PROVE  /\ entry'[Lod2(VintageOrder[i])].status = "done"
                 /\ entry'[Lod2(VintageOrder[i])].hash = revision'
      <3>1. CASE i < turn'
        BY <1>1, <2>1, <3>1 DEF SoundPart
      <3>2. CASE i = turn' /\ stage' = "derive"
        <4>1. Lod2(VintageOrder[i]) = Morphology
          BY <3>2 DEF Lod2, Morphology, vintage
        <4> QED
          BY <2>1, <3>2, <4>1
      <3> QED
        BY <2>3, <3>1, <3>2
    <2> QED
      BY <2>1, <2>2, <2>3 DEF SoundPart, Lod2
  <1>5. ZeroBackfillIsCurrent'
    BY <1>1 DEF ZeroBackfillIsCurrent
  <1> QED
    BY <1>3, <1>4, <1>5 DEF VintageInv

\* A run is idle, or at one of the vintages, or at its end.
LEMMA AtVintage ==
  ASSUME VintageInv, stage \notin {"idle", "audit"}
  PROVE  /\ turn <= Len(VintageOrder) /\ VintageShape
         /\ raster = [i \in VintageItems |-> raster[i]]
         /\ entry = [i \in VintageItems |-> EntryRow(entry[i].status, entry[i].hash)]
         /\ vintage \in Vintages /\ Lod2(vintage) = Morphology /\ Morphology \in VintageItems
         /\ troubled \in BOOLEAN
         /\ \A i \in 1..Len(VintageOrder) : i < turn =>
              VintageOrder[i] \in Vintages /\ VintageOrder[i] # vintage
         /\ stage # "derive" /\ ~InBundleWork /\ ~troubled => owed = {}
  <1>1. VintageShape /\ SoundPart
    BY DEF VintageInv
  <1>2. turn <= Len(VintageOrder)
    BY <1>1 DEF VintageShape
  <1> QED
    BY <1>1, <1>2, TurnFacts DEF VintageShape, SoundPart

-----------------------------------------------------------------------------
(* The steps of the morphology.                                             *)

\* A backfill starts at the first vintage and owes nothing of its own yet.
LEMMA StartBackfillKeeps ==
  ASSUME VintageInv, StartBackfill
  PROVE  VintageInv'
  <1>1. /\ stage = "idle" /\ revision' \in Revisions /\ stage' = "morphology"
        /\ reported' = "none"
        /\ UNCHANGED <<raster, entry, turn, owed, troubled, left>>
    BY DEF StartBackfill, product, process
  <1>2. VintageShape
    BY DEF VintageInv
  <1>3. /\ turn = 1 /\ owed = {} /\ ~troubled /\ Len(VintageOrder) \in Nat
        /\ Len(VintageOrder) >= 1
    <2>1. VintageOrder \in Seq(DOMAIN ArchivesOf) /\ VintageOrder # <<>>
      BY VintageAssumption DEF VintageAssumption
    <2> QED
      BY <1>1, <1>2, <2>1 DEF VintageShape
  <1>4. VintageShape'
    BY <1>1, <1>2, <1>3 DEF VintageShape
  <1>5. \A w \in Vintages : MorphologyOk(w)' /\ BundleOk(w)'
    BY <1>1, UntouchedKeep
  <1>6. ClaimPart' /\ DerivePart' /\ BundlePart'
    BY <1>1 DEF ClaimPart, DerivePart, BundlePart, InBundleWork, Writing
  <1>7. SoundPart'
    <2>1. \A i \in 1..Len(VintageOrder) : ~(i < turn') /\ stage' # "derive"
      BY <1>1, <1>3
    <2> QED
      BY <1>1, <1>3, <2>1 DEF SoundPart
  <1>8. ZeroBackfillIsCurrent'
    BY <1>1 DEF ZeroBackfillIsCurrent
  <1> QED
    BY <1>4, <1>5, <1>6, <1>7, <1>8 DEF VintageInv

\* A current morphology is left as it is, and its bundle is looked at next.
LEMMA SkipMorphologyKeeps ==
  ASSUME VintageInv, SkipMorphology
  PROVE  VintageInv'
  <1>1. /\ stage = "morphology" /\ entry[Morphology] = EntryRow("done", revision)
        /\ stage' = "derive"
        /\ UNCHANGED <<raster, entry, turn, owed, troubled, revision, reported, left>>
    BY DEF SkipMorphology, Current, product, process
  <1>2. /\ turn <= Len(VintageOrder) /\ troubled \in BOOLEAN
        /\ raster = [i \in VintageItems |-> raster[i]]
        /\ entry = [i \in VintageItems |-> EntryRow(entry[i].status, entry[i].hash)]
        /\ ~troubled => owed = {}
    BY <1>1, AtVintage DEF InBundleWork, Writing
  <1>3. \A w \in Vintages : MorphologyOk(w)' /\ BundleOk(w)'
    BY <1>1, UntouchedKeep
  <1>4. Morphology' = Morphology /\ entry[Morphology].status = "done"
         /\ entry[Morphology].hash = revision
    BY <1>1, RowFields DEF Morphology, vintage
  <1>5. ClaimPart' /\ DerivePart' /\ BundlePart'
    BY <1>1, <1>4 DEF ClaimPart, DerivePart, BundlePart, InBundleWork, Writing
  <1> QED
    BY <1>1, <1>2, <1>3, <1>4, <1>5, StayKeeps

\* The claim takes the row out of "done": nothing is said of the bundle until the
\* morphology is recorded.
LEMMA ClaimMorphologyKeeps ==
  ASSUME VintageInv, ClaimMorphology
  PROVE  VintageInv'
  <1>1. /\ stage = "morphology" /\ stage' = "manifest"
        /\ entry' = [entry EXCEPT ![Morphology] = EntryRow("exporting", NoRevision)]
        /\ UNCHANGED <<raster, turn, owed, troubled, revision, reported, left>>
    BY DEF ClaimMorphology, product
  <1>2. /\ turn <= Len(VintageOrder) /\ VintageShape /\ troubled \in BOOLEAN
        /\ raster = [i \in VintageItems |-> raster[i]]
        /\ vintage \in Vintages /\ Lod2(vintage) = Morphology /\ Morphology \in VintageItems
        /\ \A i \in 1..Len(VintageOrder) : i < turn =>
             VintageOrder[i] \in Vintages /\ VintageOrder[i] # vintage
        /\ ~troubled => owed = {}
    BY <1>1, AtVintage DEF InBundleWork, Writing
  <1>3. /\ entry' = [j \in VintageItems |-> EntryRow(entry'[j].status, entry'[j].hash)]
        /\ entry'[Morphology].status = "exporting"
        /\ \A j \in VintageItems : j # Morphology => entry'[j] = entry[j]
    BY <1>1, <1>2, EntryWrite
  <1>4. \A w \in Vintages : w = vintage => MorphologyOk(w)' /\ BundleOk(w)'
    BY <1>2, <1>3 DEF MorphologyOk, BundleOk, Lod2
  <1>5. \A w \in Vintages : MorphologyOk(w)' /\ BundleOk(w)'
    BY <1>1, <1>2, <1>3, <1>4, OtherVintages
  <1>6. Morphology' = Morphology
    BY <1>1 DEF Morphology, vintage
  <1>7. ClaimPart' /\ DerivePart' /\ BundlePart'
    BY <1>1, <1>3, <1>6 DEF ClaimPart, DerivePart, BundlePart, InBundleWork, Writing
  <1>8. \A i \in 1..Len(VintageOrder) : i < turn =>
          entry'[Lod2(VintageOrder[i])] = entry[Lod2(VintageOrder[i])]
    BY <1>2, <1>3, ItemFacts
  <1> QED
    BY <1>1, <1>2, <1>3, <1>5, <1>7, <1>8, StayKeeps

\* A manifest changes no raster and no row.
LEMMA PublishManifestKeeps ==
  ASSUME VintageInv, PublishManifest
  PROVE  VintageInv'
  <1>1. /\ stage = "manifest" /\ stage' = IF toPublish' = {} THEN "raster" ELSE "manifest"
        /\ UNCHANGED <<raster, entry, turn, owed, troubled, revision, reported, left>>
    BY DEF PublishManifest, product
  <1>2. /\ turn <= Len(VintageOrder) /\ troubled \in BOOLEAN
        /\ raster = [i \in VintageItems |-> raster[i]]
        /\ entry = [i \in VintageItems |-> EntryRow(entry[i].status, entry[i].hash)]
        /\ ~troubled => owed = {}
    BY <1>1, AtVintage DEF InBundleWork, Writing
  <1>3. \A w \in Vintages : MorphologyOk(w)' /\ BundleOk(w)'
    BY <1>1, UntouchedKeep
  <1>4. Morphology' = Morphology /\ entry[Morphology].status = "exporting"
    BY <1>1 DEF Morphology, vintage, VintageInv, ClaimPart
  <1>5. ClaimPart' /\ DerivePart' /\ BundlePart'
    BY <1>1, <1>4 DEF ClaimPart, DerivePart, BundlePart, InBundleWork, Writing
  <1>6. stage' \in {"manifest"} \cup Writing
    BY <1>1 DEF Writing
  <1> QED
    BY <1>1, <1>2, <1>3, <1>5, <1>6, StayKeeps DEF Writing

\* The morphology is recorded: its bundle is owed.
LEMMA RecordMorphologyKeeps ==
  ASSUME VintageInv, RecordMorphology
  PROVE  VintageInv'
  <1>1. /\ stage = "record" /\ stage' = "derive" /\ owed' = owed \cup {vintage}
        /\ entry' = [entry EXCEPT ![Morphology] = EntryRow("done", revision)]
        /\ UNCHANGED <<raster, turn, troubled, revision, reported, left>>
    BY DEF RecordMorphology, product
  <1>2. /\ turn <= Len(VintageOrder) /\ VintageShape /\ troubled \in BOOLEAN
        /\ raster = [i \in VintageItems |-> raster[i]]
        /\ vintage \in Vintages /\ Lod2(vintage) = Morphology /\ Morphology \in VintageItems
        /\ \A i \in 1..Len(VintageOrder) : i < turn =>
             VintageOrder[i] \in Vintages /\ VintageOrder[i] # vintage
        /\ ~troubled => owed = {}
    BY <1>1, AtVintage DEF InBundleWork, Writing
  <1>3. /\ entry' = [j \in VintageItems |-> EntryRow(entry'[j].status, entry'[j].hash)]
        /\ entry'[Morphology].status = "done" /\ entry'[Morphology].hash = revision
        /\ \A j \in VintageItems : j # Morphology => entry'[j] = entry[j]
    <2>1. VintageShape /\ Morphology \in VintageItems
      BY <1>2
    <2>2. PICK h : h = revision /\ entry' = [entry EXCEPT ![Morphology] = EntryRow("done", h)]
      BY <1>1
    <2>3. /\ entry' = [j \in VintageItems |-> EntryRow(entry'[j].status, entry'[j].hash)]
          /\ entry'[Morphology].status = "done" /\ entry'[Morphology].hash = h
          /\ \A j \in VintageItems : j # Morphology => entry'[j] = entry[j]
      BY <2>1, <2>2, EntryWrite, ZenonT(30)
    <2> QED
      BY <2>2, <2>3
  <1>4. raster[Morphology] = revision
    BY <1>1 DEF VintageInv, ClaimPart
  <1>5. \A w \in Vintages : w = vintage => MorphologyOk(w)' /\ BundleOk(w)'
    BY <1>1, <1>2, <1>3, <1>4 DEF MorphologyOk, BundleOk, Lod2
  <1>6. \A w \in Vintages : MorphologyOk(w)' /\ BundleOk(w)'
    BY <1>1, <1>2, <1>3, <1>5, OtherVintages
  <1>7. Morphology' = Morphology
    BY <1>1 DEF Morphology, vintage
  <1>8. ClaimPart' /\ DerivePart' /\ BundlePart'
    BY <1>1, <1>3, <1>7 DEF ClaimPart, DerivePart, BundlePart, InBundleWork, Writing
  <1>9. \A i \in 1..Len(VintageOrder) : i < turn =>
          entry'[Lod2(VintageOrder[i])] = entry[Lod2(VintageOrder[i])]
    BY <1>2, <1>3, ItemFacts
  <1>10. ~troubled' => owed' = {vintage}
    BY <1>1, <1>2
  <1> QED
    BY <1>1, <1>2, <1>3, <1>6, <1>8, <1>9, <1>10, StayKeeps

\* A morphology that raises is not done, and the run has counted it.
LEMMA MorphologyRaisesKeeps ==
  ASSUME VintageInv, MorphologyRaises
  PROVE  VintageInv'
  <1>1. /\ stage \in {"manifest"} \cup Writing /\ stage' = "derive" /\ troubled' = TRUE
        /\ entry' = [entry EXCEPT ![Morphology] = EntryRow("failed", NoRevision)]
        /\ UNCHANGED <<raster, turn, owed, revision, reported, left>>
    BY DEF MorphologyRaises, product, Writing
  <1>2. /\ turn <= Len(VintageOrder) /\ VintageShape
        /\ raster = [i \in VintageItems |-> raster[i]]
        /\ vintage \in Vintages /\ Lod2(vintage) = Morphology /\ Morphology \in VintageItems
    BY <1>1, AtVintage DEF Writing
  <1>3. /\ entry' = [j \in VintageItems |-> EntryRow(entry'[j].status, entry'[j].hash)]
        /\ entry'[Morphology].status = "failed"
        /\ \A j \in VintageItems : j # Morphology => entry'[j] = entry[j]
    BY <1>1, <1>2, EntryWrite
  <1>4. \A w \in Vintages : w = vintage => MorphologyOk(w)' /\ BundleOk(w)'
    BY <1>2, <1>3 DEF MorphologyOk, BundleOk, Lod2
  <1>5. \A w \in Vintages : MorphologyOk(w)' /\ BundleOk(w)'
    BY <1>1, <1>2, <1>3, <1>4, OtherVintages
  <1>6. Morphology' = Morphology
    BY <1>1 DEF Morphology, vintage
  <1>7. ClaimPart' /\ DerivePart' /\ BundlePart'
    BY <1>1, <1>3, <1>6 DEF ClaimPart, DerivePart, BundlePart, InBundleWork, Writing
  <1>8. stage # "idle"
    BY <1>1 DEF Writing
  <1> QED
    BY <1>1, <1>2, <1>3, <1>5, <1>7, <1>8, StayKeeps

-----------------------------------------------------------------------------
(* The writes of a product, of the morphology and of the bundle.            *)

\* The part a bundle is at is one of those it is missing, and its own sources come
\* before it.
LEMMA AtBundle ==
  ASSUME VintageInv, InBundleWork
  PROVE  /\ Part \in toPublish /\ Part \in InBundle /\ toPublish \subseteq missing
         /\ missing \subseteq InBundle /\ InWork = Member(Part, vintage)
         /\ Member(Part, vintage) \in VintageItems
         /\ Part = "svf" => "combined_dsm" \notin toPublish
         /\ Part \in {"combined_dsm", "horizon_building"} => "building_dsm" \notin toPublish
         /\ entry[Morphology].status = "done" /\ entry[Morphology].hash = revision
         /\ raster[Morphology] = revision /\ Morphology # Member(Part, vintage)
         /\ BundlePart
  <1>1. /\ toPublish \subseteq missing /\ missing \subseteq InBundle /\ BundlePart
        /\ entry[Morphology] = EntryRow("done", revision) /\ raster[Morphology] = revision
        /\ toPublish # {}
    BY DEF VintageInv, BundlePart, InBundleWork
  <1>2. /\ Part \in toPublish /\ Part \in InBundle
        /\ Part = "svf" => "combined_dsm" \notin toPublish
        /\ Part \in {"combined_dsm", "horizon_building"} => "building_dsm" \notin toPublish
    BY <1>1, FirstOfBundle DEF Part
  <1>3. vintage \in Vintages /\ Lod2(vintage) = Morphology
    BY AtVintage DEF InBundleWork, Writing
  <1> QED
    BY <1>1, <1>2, <1>3, ItemFacts, RowFields DEF InWork, Member

\* The morphology is written over while its row is claimed; a product of the
\* bundle is computed from what goes back to the morphology of this code.
LEMMA WriteRasterKeeps ==
  ASSUME VintageInv, WriteRaster
  PROVE  VintageInv'
  <1>1. /\ stage = "raster" /\ stage' = "prov"
        /\ raster' = [raster EXCEPT ![InWork] = Computed(InWork)]
        /\ UNCHANGED <<entry, turn, toPublish, missing, copy, owed, troubled, revision, reported,
                       left>>
    BY DEF WriteRaster, process
  <1>2. /\ turn <= Len(VintageOrder) /\ VintageShape /\ troubled \in BOOLEAN
        /\ entry = [i \in VintageItems |-> EntryRow(entry[i].status, entry[i].hash)]
        /\ vintage \in Vintages /\ Lod2(vintage) = Morphology /\ Morphology \in VintageItems
    BY <1>1, AtVintage
  <1>3. Morphology' = Morphology /\ vintage' = vintage /\ Part' = Part
    BY <1>1 DEF Morphology, vintage, Part
  <1>4. ~troubled /\ owed # {} =>
          owed = {vintage} /\ (stage = "derive" \/ InBundleWork)
    BY DEF VintageInv, SoundPart
  <1>5. stage' = "prov" /\ (InBundleWork => InBundleWork')
    BY <1>1 DEF InBundleWork, Writing
  <1>6. stage' # "derive" /\ (owed' # {} /\ ~troubled' => owed' = {vintage} /\ InBundleWork')
    BY <1>1, <1>4, <1>5
  <1>7. CASE toPublish = {}
    <2>1. InWork = Morphology /\ Computed(InWork) = revision
      BY <1>7 DEF InWork, Computed, Morphology
    <2>2. /\ raster' = [j \in VintageItems |-> raster'[j]] /\ raster'[Morphology] = revision
          /\ \A j \in VintageItems : j # Morphology => raster'[j] = raster[j]
      BY <1>1, <1>2, <2>1, RasterWrite
    <2>3. entry[Morphology].status = "exporting"
      BY <1>1, <1>7 DEF VintageInv, ClaimPart, Writing
    <2>4. \A w \in Vintages : w = vintage => MorphologyOk(w)' /\ BundleOk(w)'
      BY <1>1, <1>2, <2>3 DEF MorphologyOk, BundleOk, Lod2
    <2>5. \A w \in Vintages : MorphologyOk(w)' /\ BundleOk(w)'
      BY <1>1, <1>2, <2>2, <2>4, OtherVintages
    <2>6. ClaimPart' /\ DerivePart' /\ BundlePart'
      BY <1>1, <1>3, <1>7, <2>2, <2>3 DEF ClaimPart, DerivePart, BundlePart, InBundleWork
    <2> QED
      BY <1>1, <1>2, <1>6, <2>2, <2>5, <2>6, StayKeeps DEF Writing
  <1>8. CASE toPublish # {}
    <2> DEFINE m == Member(Part, vintage)
    <2>1. InBundleWork
      BY <1>1, <1>8 DEF InBundleWork, Writing
    <2>2. /\ Part \in toPublish /\ Part \in InBundle /\ toPublish \subseteq missing
          /\ missing \subseteq InBundle /\ InWork = m /\ m \in VintageItems
          /\ Part = "svf" => "combined_dsm" \notin toPublish
          /\ Part \in {"combined_dsm", "horizon_building"} => "building_dsm" \notin toPublish
          /\ entry[Morphology].status = "done" /\ entry[Morphology].hash = revision
          /\ raster[Morphology] = revision /\ Morphology # m /\ BundlePart
      BY <2>1, AtBundle
    <2>3. /\ raster' = [j \in VintageItems |-> raster'[j]] /\ raster'[m] = Computed(m)
          /\ \A j \in VintageItems : j # m => raster'[j] = raster[j]
      BY <1>1, <1>2, <2>2, RasterWrite
    <2>4. ASSUME vintage \notin left \/ missing = InBundle PROVE Computed(m) = revision
      <3>1. \A p \in InBundle : p \notin toPublish => raster[Member(p, vintage)] = revision
        BY <1>1, <2>1, <2>2, <2>4 DEF BundlePart
      <3>2. m[1] = Part
        BY DEF Member
      <3>3. Part \in {"building_dsm", "combined_dsm", "horizon_building", "svf"}
        BY <2>2, BundlePlaces
      <3>4. CASE Part = "building_dsm"
        BY <2>2, <3>2, <3>4 DEF Computed
      <3>5. CASE Part = "svf"
        <4>1. raster[Member("combined_dsm", vintage)] = revision
          BY <2>2, <3>1, <3>5, BundlePlaces
        <4> QED
          BY <3>2, <3>5, <4>1 DEF Computed, Member
      <3>6. CASE Part \in {"combined_dsm", "horizon_building"}
        <4>1. raster[Member("building_dsm", vintage)] = revision
          BY <2>2, <3>1, <3>6, BundlePlaces
        <4> QED
          BY <3>2, <3>6, <4>1 DEF Computed, Member
      <3> QED
        BY <3>3, <3>4, <3>5, <3>6
    <2>5. \A p \in InBundle :
            /\ p # Part => raster'[Member(p, vintage)] = raster[Member(p, vintage)]
            /\ Member(p, vintage) \in VintageItems
      BY <1>2, <2>3, ItemFacts
    <2>6. raster'[Morphology] = raster[Morphology]
      BY <1>2, <2>2, <2>3
    <2> HIDE DEF m
    <2>7. MorphologyOk(vintage) /\ BundleOk(vintage)
      BY <1>2 DEF VintageInv
    <2>8. ASSUME NEW w \in Vintages, w = vintage PROVE MorphologyOk(w)' /\ BundleOk(w)'
      <3>1. MorphologyOk(w)'
        BY <1>1, <1>2, <2>6, <2>7, <2>8 DEF MorphologyOk, Lod2
      <3>2. ASSUME w \notin owed' \cup left', NEW p \in InBundle,
                   entry'[Member(p, w)].status = "done"
            PROVE  raster'[Member(p, w)] \in {NoRevision, entry'[Lod2(w)].hash}
        <4>1. entry'[Lod2(w)].hash = revision /\ entry[Lod2(w)].status = "done"
          BY <1>1, <1>2, <2>2, <2>8
        <4>2. CASE p = Part
          BY <1>1, <2>3, <2>4, <2>8, <3>2, <4>1, <4>2 DEF m
        <4>3. CASE p # Part
          <5>1. raster[Member(p, w)] \in {NoRevision, entry[Lod2(w)].hash}
            BY <1>1, <2>7, <2>8, <3>2, <4>1 DEF BundleOk
          <5> QED
            BY <1>1, <2>5, <2>8, <4>3, <5>1
        <4> QED
          BY <4>2, <4>3
      <3>3. BundleOk(w)'
        BY <3>2 DEF BundleOk, Member, Lod2
      <3> QED
        BY <3>1, <3>3
    <2>9. \A i \in VintageItems :
            i # Morphology /\ (\A p \in InBundle : i # Member(p, vintage)) =>
              raster'[i] = raster[i] /\ entry'[i] = entry[i]
      BY <1>1, <2>2, <2>3 DEF m
    <2>10. \A w \in Vintages : MorphologyOk(w)' /\ BundleOk(w)'
      BY <1>1, <1>2, <2>8, <2>9, OtherVintages
    <2>11. ClaimPart' /\ DerivePart'
      BY <1>1, <1>8 DEF ClaimPart, DerivePart
    <2>12. BundlePart'
      <3>1. ASSUME vintage \notin left \/ missing = InBundle
            PROVE  /\ \A p \in InBundle : p \notin toPublish => raster'[Member(p, vintage)] = revision
                   /\ raster'[Member(Part, vintage)] = revision
        <4>1. raster'[Member(Part, vintage)] = revision
          BY <2>3, <2>4, <3>1 DEF m
        <4>2. \A p \in InBundle : p \notin toPublish => raster[Member(p, vintage)] = revision
          BY <2>1, <2>2, <3>1 DEF BundlePart
        <4> QED
          BY <2>5, <4>1, <4>2
      <3>2. ASSUME NEW p \in InBundle
            PROVE  vintage \notin owed \cup left /\ copy[Member(p, vintage)].status = "done" =>
                     raster'[Member(p, vintage)] \in {NoRevision, revision}
        <4>1. vintage \notin owed \cup left /\ copy[Member(p, vintage)].status = "done" =>
                raster[Member(p, vintage)] \in {NoRevision, revision}
          BY <2>1, <2>2 DEF BundlePart
        <4> QED
          BY <2>5, <3>1, <4>1
      <3>3. \A p \in InBundle :
              /\ Member(p, vintage) \in DOMAIN copy
              /\ copy[Member(p, vintage)] =
                   EntryRow(copy[Member(p, vintage)].status, copy[Member(p, vintage)].hash)
        BY <2>1, <2>2 DEF BundlePart
      <3>4. DOMAIN copy = Bundled(vintage) /\ entry[Morphology] = EntryRow("done", revision)
             /\ (vintage \in owed => missing = InBundle)
        BY <2>1, <2>2 DEF BundlePart
      <3> QED
        BY <1>1, <1>3, <2>2, <2>6, <3>1, <3>2, <3>3, <3>4 DEF BundlePart, Member, Bundled
    <2> QED
      BY <1>1, <1>2, <1>6, <2>3, <2>10, <2>11, <2>12, StayKeeps DEF Writing
  <1> QED
    BY <1>7, <1>8

\* The provenance says nothing of the rasters.
LEMMA WriteProvKeeps ==
  ASSUME VintageInv, WriteProv
  PROVE  VintageInv'
  <1>1. /\ stage = "prov" /\ stage' = "seal"
        /\ UNCHANGED <<raster, entry, turn, toPublish, missing, copy, owed, troubled, revision,
                       reported, left>>
    BY DEF WriteProv, process
  <1>2. /\ turn <= Len(VintageOrder) /\ troubled \in BOOLEAN
        /\ raster = [i \in VintageItems |-> raster[i]]
        /\ entry = [i \in VintageItems |-> EntryRow(entry[i].status, entry[i].hash)]
    BY <1>1, AtVintage
  <1>3. Morphology' = Morphology /\ vintage' = vintage /\ Part' = Part
    BY <1>1 DEF Morphology, vintage, Part
  <1>4. \A w \in Vintages : MorphologyOk(w)' /\ BundleOk(w)'
    BY <1>1, UntouchedKeep
  <1>5. ~troubled /\ owed # {} =>
          owed = {vintage} /\ (stage = "derive" \/ InBundleWork)
    BY DEF VintageInv, SoundPart
  <1>6. InBundleWork <=> InBundleWork'
    BY <1>1 DEF InBundleWork, Writing
  <1>7. ClaimPart' /\ DerivePart'
    BY <1>1, <1>3 DEF VintageInv, ClaimPart, DerivePart, Writing
  <1>8. BundlePart'
    <2>1. SUFFICES ASSUME InBundleWork' PROVE BundlePart'
      BY DEF BundlePart
    <2>2. InBundleWork /\ BundlePart
      BY <1>6, <2>1 DEF VintageInv
    <2> QED
      BY <1>1, <1>3, <2>2 DEF BundlePart, Member, Bundled
  <1> QED
    BY <1>1, <1>2, <1>4, <1>5, <1>6, <1>7, <1>8, StayKeeps DEF Writing

\* The marker of the last product to be built leaves a whole bundle.
LEMMA SealKeeps ==
  ASSUME VintageInv, Seal
  PROVE  VintageInv'
  <1>1. /\ stage = "seal" /\ UNCHANGED <<raster, entry, turn, missing, copy, owed, troubled,
                                          revision, reported, left>>
        /\ \/ toPublish = {} /\ toPublish' = {} /\ stage' = "record"
           \/ toPublish # {} /\ toPublish = {Part} /\ toPublish' = missing /\ stage' = "rows"
           \/ /\ toPublish # {} /\ toPublish \ {Part} # {}
              /\ toPublish' = toPublish \ {Part} /\ stage' = "raster"
    BY DEF Seal
  <1>2. /\ turn <= Len(VintageOrder) /\ troubled \in BOOLEAN
        /\ raster = [i \in VintageItems |-> raster[i]]
        /\ entry = [i \in VintageItems |-> EntryRow(entry[i].status, entry[i].hash)]
    BY <1>1, AtVintage
  <1>3. Morphology' = Morphology /\ vintage' = vintage
    BY <1>1 DEF Morphology, vintage
  <1>4. \A w \in Vintages : MorphologyOk(w)' /\ BundleOk(w)'
    BY <1>1, UntouchedKeep
  <1>5. ~troubled /\ owed # {} =>
          owed = {vintage} /\ (stage = "derive" \/ InBundleWork)
    BY DEF VintageInv, SoundPart
  <1>6. CASE toPublish = {}
    <2>1. toPublish' = {} /\ stage' = "record" /\ ~InBundleWork /\ ~InBundleWork'
      BY <1>1, <1>6 DEF InBundleWork
    <2>2. entry[Morphology].status = "exporting" /\ raster[Morphology] = revision
      BY <1>1, <1>6 DEF VintageInv, ClaimPart, Writing
    <2>3. ClaimPart' /\ DerivePart' /\ BundlePart'
      BY <1>1, <1>3, <2>1, <2>2 DEF ClaimPart, DerivePart, BundlePart
    <2> QED
      BY <1>1, <1>2, <1>4, <1>5, <2>1, <2>3, StayKeeps
  <1>7. CASE toPublish # {}
    <2>1. InBundleWork
      BY <1>1, <1>7 DEF InBundleWork, Writing
    <2>2. /\ Part \in toPublish /\ Part \in InBundle /\ toPublish \subseteq missing
          /\ missing \subseteq InBundle /\ BundlePart
      BY <2>1, AtBundle
    <2>3. /\ toPublish' # {} /\ toPublish' \subseteq missing
          /\ \/ stage' = "rows" /\ toPublish = {Part}
             \/ stage' = "raster" /\ toPublish' = toPublish \ {Part}
      BY <1>1, <1>7, <2>2
    <2>4. InBundleWork' /\ stage' \in {"rows", "raster"}
      BY <2>3 DEF InBundleWork, Writing
    <2>5. ClaimPart' /\ DerivePart'
      BY <2>3, <2>4 DEF ClaimPart, DerivePart
    <2>6. ASSUME vintage \notin left \/ missing = InBundle, NEW p \in InBundle,
                 stage' = "rows" \/ p \notin toPublish'
          PROVE  raster[Member(p, vintage)] = revision
      <3>1. /\ p \notin toPublish => raster[Member(p, vintage)] = revision
            /\ raster[Member(Part, vintage)] = revision
        BY <1>1, <2>1, <2>2, <2>6 DEF BundlePart
      <3>2. p \notin toPublish \/ p = Part
        BY <2>3, <2>6
      <3> QED
        BY <3>1, <3>2
    <2>7. BundlePart'
      BY <1>1, <1>3, <2>1, <2>2, <2>3, <2>4, <2>6 DEF BundlePart, Member, Bundled
    <2> QED
      BY <1>1, <1>2, <1>4, <1>5, <2>4, <2>5, <2>7, StayKeeps DEF Writing
  <1> QED
    BY <1>6, <1>7

-----------------------------------------------------------------------------
(* The steps of the bundle.                                                 *)

\* A bundle that is not asked for is not owed.
LEMMA SkipBundleKeeps ==
  ASSUME VintageInv, SkipBundle
  PROVE  VintageInv'
  <1>1. /\ stage = "derive" /\ Asked = {} /\ NextVintage
        /\ UNCHANGED <<raster, entry, owed, troubled, revision, reported, left>>
    BY DEF SkipBundle, product
  <1>2. /\ turn <= Len(VintageOrder) /\ troubled \in BOOLEAN
        /\ raster = [i \in VintageItems |-> raster[i]]
        /\ entry = [i \in VintageItems |-> EntryRow(entry[i].status, entry[i].hash)]
        /\ Lod2(vintage) = Morphology
    BY <1>1, AtVintage
  <1>3. vintage \notin owed
    BY <1>1, BundlePlaces DEF Asked
  <1>4. \A w \in Vintages : MorphologyOk(w)' /\ BundleOk(w)'
    BY <1>1, UntouchedKeep
  <1>5. ASSUME ~troubled
        PROVE  owed = {} /\ entry[Morphology].status = "done" /\ entry[Morphology].hash = revision
    <2>1. SoundPart /\ turn \in 1..Len(VintageOrder)
      BY <1>2, TurnFacts DEF VintageInv
    <2>2. owed = {}
      BY <1>3, <1>5, <2>1 DEF SoundPart
    <2>3. Lod2(VintageOrder[turn]) = Morphology
      BY DEF Lod2, Morphology, vintage
    <2> QED
      BY <1>1, <1>5, <2>1, <2>2, <2>3 DEF SoundPart
  <1> QED
    BY <1>1, <1>2, <1>4, <1>5, NextKeeps

\* A vintage whose bundle cannot be derived is given up, and the run is troubled.
LEMMA RefuseBundleKeeps ==
  ASSUME VintageInv, RefuseBundle
  PROVE  VintageInv'
  <1>1. /\ stage = "derive" /\ NextVintage /\ troubled' = TRUE
        /\ UNCHANGED <<raster, entry, owed, revision, reported, left>>
    BY DEF RefuseBundle, product
  <1>2. /\ turn <= Len(VintageOrder)
        /\ raster = [i \in VintageItems |-> raster[i]]
        /\ entry = [i \in VintageItems |-> EntryRow(entry[i].status, entry[i].hash)]
    BY <1>1, AtVintage
  <1>3. \A w \in Vintages : MorphologyOk(w)' /\ BundleOk(w)'
    BY <1>1, UntouchedKeep
  <1> QED
    BY <1>1, <1>2, <1>3, NextKeeps

\* What is not asked for is done and there, and goes back to this morphology.
LEMMA StartBundleKeeps ==
  ASSUME VintageInv, StartBundle
  PROVE  VintageInv'
  <1>1. /\ stage = "derive" /\ Asked # {} /\ ~NeedsWork(entry, Morphology)
        /\ missing' = Asked /\ toPublish' = Asked /\ stage' = "raster"
        /\ copy' = [i \in Bundled(vintage) |-> entry[i]]
        /\ UNCHANGED <<raster, entry, turn, owed, troubled, revision, reported, left>>
    BY DEF StartBundle, product
  <1>2. /\ turn <= Len(VintageOrder) /\ troubled \in BOOLEAN /\ VintageShape
        /\ raster = [i \in VintageItems |-> raster[i]]
        /\ entry = [i \in VintageItems |-> EntryRow(entry[i].status, entry[i].hash)]
        /\ vintage \in Vintages /\ Lod2(vintage) = Morphology /\ Morphology \in VintageItems
    BY <1>1, AtVintage
  <1>3. Morphology' = Morphology /\ vintage' = vintage
    BY <1>1 DEF Morphology, vintage
  <1>4. \A w \in Vintages : MorphologyOk(w)' /\ BundleOk(w)'
    BY <1>1, UntouchedKeep
  <1>5. /\ entry[Morphology].status = "done" /\ raster[Morphology] # NoRevision
        /\ entry[Morphology].hash = revision
    BY <1>1 DEF NeedsWork, Resolves, VintageInv, DerivePart
  <1>6. MorphologyOk(vintage) /\ BundleOk(vintage)
    BY <1>2 DEF VintageInv
  <1>7. raster[Morphology] = revision /\ entry[Morphology] = EntryRow("done", revision)
    BY <1>2, <1>5, <1>6 DEF MorphologyOk
  <1>8. Asked \subseteq InBundle /\ (vintage \in owed => Asked = InBundle)
    BY DEF Asked
  <1>9. ASSUME vintage \notin left \/ Asked = InBundle, NEW p \in InBundle, p \notin Asked
        PROVE  raster[Member(p, vintage)] = revision
    <2>1. vintage \notin owed \cup left /\ ~NeedsWork(entry, Member(p, vintage))
      BY <1>8, <1>9 DEF Asked, Member
    <2>2. entry[Member(p, vintage)].status = "done" /\ raster[Member(p, vintage)] # NoRevision
      BY <2>1 DEF NeedsWork, Resolves
    <2> QED
      BY <1>2, <1>5, <1>6, <2>1, <2>2 DEF BundleOk
  <1>10. ASSUME NEW p \in InBundle
         PROVE  /\ Member(p, vintage) \in Bundled(vintage)
                /\ copy'[Member(p, vintage)] = entry[Member(p, vintage)]
                /\ entry[Member(p, vintage)] =
                     EntryRow(entry[Member(p, vintage)].status, entry[Member(p, vintage)].hash)
                /\ vintage \notin owed \cup left /\ entry[Member(p, vintage)].status = "done" =>
                     raster[Member(p, vintage)] \in {NoRevision, revision}
    <2>1. Member(p, vintage) \in Bundled(vintage)
      BY DEF Member, Bundled
    <2>2. Member(p, vintage) \in VintageItems
      BY <1>2, ItemFacts
    <2>3. vintage \notin owed \cup left /\ entry[Member(p, vintage)].status = "done" =>
            raster[Member(p, vintage)] \in {NoRevision, revision}
      BY <1>2, <1>5, <1>6 DEF BundleOk
    <2> QED
      BY <1>1, <1>2, <2>1, <2>2, <2>3
  <1>11. InBundleWork' /\ DOMAIN copy' = Bundled(vintage)
    BY <1>1 DEF InBundleWork, Writing
  <1>12. ClaimPart' /\ DerivePart'
    BY <1>1 DEF ClaimPart, DerivePart
  <1>13. BundlePart'
    BY <1>1, <1>3, <1>7, <1>8, <1>9, <1>10, <1>11 DEF BundlePart, Member, Bundled
  <1>14. ~troubled /\ owed # {} =>
          owed = {vintage} /\ (stage = "derive" \/ InBundleWork)
    BY DEF VintageInv, SoundPart
  <1> QED
    BY <1>1, <1>2, <1>4, <1>11, <1>12, <1>13, <1>14, StayKeeps DEF Writing

\* The last of the rows ends the debt when all four were built.
LEMMA RecordProductKeeps ==
  ASSUME VintageInv, RecordProduct
  PROVE  VintageInv'
  <1> DEFINE m == Member(Part, vintage)
  <1>1. InBundleWork
    <2>1. stage = "rows" /\ (toPublish = {Part} \/ toPublish \ {Part} # {})
      BY DEF RecordProduct
    <2> QED
      BY <2>1 DEF InBundleWork
  <1>2. /\ Part \in toPublish /\ Part \in InBundle /\ toPublish \subseteq missing
        /\ missing \subseteq InBundle /\ InWork = m /\ m \in VintageItems
        /\ entry[Morphology].status = "done" /\ entry[Morphology].hash = revision
        /\ raster[Morphology] = revision /\ Morphology # m /\ BundlePart
    BY <1>1, AtBundle
  <1>3. /\ stage = "rows" /\ entry' = [entry EXCEPT ![m] = EntryRow("done", prov[m])]
        /\ toPublish' = toPublish \ {Part}
        /\ UNCHANGED <<raster, missing, copy, troubled, revision, reported>>
        /\ \/ /\ toPublish = {Part} /\ NextVintage /\ owed' = owed \ {vintage}
              /\ left' = IF missing = InBundle THEN left \ {vintage} ELSE left
           \/ toPublish \ {Part} # {} /\ UNCHANGED <<turn, stage, owed, left>>
    BY <1>2 DEF RecordProduct, product
  <1>4. /\ turn <= Len(VintageOrder) /\ troubled \in BOOLEAN /\ VintageShape
        /\ raster = [i \in VintageItems |-> raster[i]] /\ stage # "idle"
        /\ vintage \in Vintages /\ Lod2(vintage) = Morphology /\ Morphology \in VintageItems
        /\ \A i \in 1..Len(VintageOrder) : i < turn =>
             VintageOrder[i] \in Vintages /\ VintageOrder[i] # vintage
    BY <1>3, AtVintage
  <1>5. /\ entry' = [j \in VintageItems |-> EntryRow(entry'[j].status, entry'[j].hash)]
        /\ \A j \in VintageItems : j # m => entry'[j] = entry[j]
    BY <1>2, <1>3, <1>4, EntryWrite
  <1>6. entry'[Morphology] = entry[Morphology]
    BY <1>2, <1>4, <1>5
  <1>7. vintage \notin left \/ missing = InBundle =>
          \A p \in InBundle : raster[Member(p, vintage)] = revision
    BY <1>1, <1>2, <1>3 DEF BundlePart
  <1>8. vintage \in owed => missing = InBundle
    BY <1>1, <1>2 DEF BundlePart
  <1>9. ASSUME vintage \notin owed' \cup left' PROVE vintage \notin left \/ missing = InBundle
    BY <1>3, <1>9
  <1>10. ASSUME NEW w \in Vintages, w = vintage PROVE MorphologyOk(w)' /\ BundleOk(w)'
    <2>1. MorphologyOk(w)'
      BY <1>2, <1>3, <1>4, <1>6, <1>10 DEF MorphologyOk, Lod2
    <2>2. BundleOk(w)'
      BY <1>2, <1>3, <1>4, <1>6, <1>7, <1>9, <1>10 DEF BundleOk, Member, Lod2
    <2> QED
      BY <2>1, <2>2
  <1>11. \A i \in VintageItems :
           i # Morphology /\ (\A p \in InBundle : i # Member(p, vintage)) =>
             raster'[i] = raster[i] /\ entry'[i] = entry[i]
    BY <1>2, <1>3, <1>5
  <1>12. \A w \in Vintages : w # vintage /\ w \in owed \cup left => w \in owed' \cup left'
    BY <1>3
  <1>13. \A w \in Vintages : MorphologyOk(w)' /\ BundleOk(w)'
    BY <1>4, <1>10, <1>11, <1>12, OtherVintages
  <1>14. \A i \in 1..Len(VintageOrder) : i < turn =>
           entry'[Lod2(VintageOrder[i])] = entry[Lod2(VintageOrder[i])]
    <2>1. TAKE i \in 1..Len(VintageOrder)
    <2>2. SUFFICES ASSUME i < turn
                   PROVE  entry'[Lod2(VintageOrder[i])] = entry[Lod2(VintageOrder[i])]
      OBVIOUS
    <2>3. Lod2(VintageOrder[i]) \in VintageItems /\ Lod2(VintageOrder[i]) # m
      BY <1>2, <1>4, <2>2, ItemFacts
    <2> QED
      BY <1>5, <2>3
  <1>15. ~troubled => (owed # {} => owed = {vintage})
    BY DEF VintageInv, SoundPart
  <1>16. CASE /\ toPublish = {Part} /\ NextVintage /\ owed' = owed \ {vintage}
    <2>1. ~troubled => owed' = {}
      BY <1>15, <1>16
    <2> QED
      BY <1>2, <1>3, <1>4, <1>5, <1>6, <1>13, <1>14, <1>16, <2>1, NextKeeps
  <1>17. CASE toPublish \ {Part} # {} /\ UNCHANGED <<turn, stage, owed, left>>
    <2>1. InBundleWork'
      BY <1>3, <1>17 DEF InBundleWork, Writing
    <2>2. Morphology' = Morphology /\ vintage' = vintage
      BY <1>17 DEF Morphology, vintage
    <2>3. ClaimPart' /\ DerivePart'
      BY <1>3, <1>17 DEF ClaimPart, DerivePart, Writing
    <2>4. BundlePart'
      BY <1>1, <1>2, <1>3, <1>6, <1>7, <1>17, <2>1, <2>2 DEF BundlePart, Member, Bundled
    <2> QED
      BY <1>3, <1>4, <1>5, <1>13, <1>14, <1>15, <1>17, <2>1, <2>2, <2>3, <2>4, StayKeeps
  <1> QED
    BY <1>3, <1>16, <1>17

\* The handler restores the rows it read, which were done over what the run has
\* rebuilt or left alone; the failure is counted.
LEMMA BundleRaisesKeeps ==
  ASSUME VintageInv, BundleRaises
  PROVE  VintageInv'
  <1> DEFINE bad == {p \in missing : NeedsWork(copy, <<p, vintage>>)}
  <1>1. /\ stage \in Writing \cup {"rows"} /\ InBundleWork /\ NextVintage /\ troubled' = TRUE
        /\ entry' = Marked(bad)
        /\ UNCHANGED <<raster, owed, revision, reported, left>>
    BY DEF BundleRaises, product, Writing, InBundleWork
  <1>2. /\ turn <= Len(VintageOrder) /\ VintageShape
        /\ raster = [i \in VintageItems |-> raster[i]] /\ stage # "idle"
        /\ entry = [i \in VintageItems |-> EntryRow(entry[i].status, entry[i].hash)]
        /\ vintage \in Vintages /\ Lod2(vintage) = Morphology /\ Morphology \in VintageItems
    BY <1>1, AtVintage DEF Writing
  <1>3. /\ entry[Morphology].status = "done" /\ entry[Morphology].hash = revision
        /\ raster[Morphology] = revision /\ BundlePart /\ missing \subseteq InBundle
    BY <1>1, AtBundle
  <1>4. MorphologyOk(vintage) /\ BundleOk(vintage)
    BY <1>2 DEF VintageInv
  <1>5. CASE bad = {}
    <2>1. entry' = entry
      BY <1>1, <1>5 DEF Marked
    <2>2. \A w \in Vintages : MorphologyOk(w)' /\ BundleOk(w)'
      BY <1>1, <2>1, UntouchedKeep
    <2> QED
      BY <1>1, <1>2, <2>1, <2>2, NextKeeps
  <1>6. CASE bad # {}
    <2>1. entry' = [i \in VintageItems |->
                      IF i \in bad \X {vintage} THEN EntryRow("failed", NoRevision)
                      ELSE IF i \in DOMAIN copy THEN copy[i] ELSE entry[i]]
      BY <1>1, <1>6 DEF Marked
    <2>2. /\ DOMAIN copy = Bundled(vintage) /\ bad \subseteq InBundle
          /\ \A p \in InBundle :
               /\ copy[Member(p, vintage)] =
                    EntryRow(copy[Member(p, vintage)].status, copy[Member(p, vintage)].hash)
               /\ vintage \notin owed \cup left /\ copy[Member(p, vintage)].status = "done" =>
                    raster[Member(p, vintage)] \in {NoRevision, revision}
      BY <1>1, <1>3 DEF BundlePart
    <2> HIDE DEF bad
    <2>3. \A i \in VintageItems : i \notin Bundled(vintage) => entry'[i] = entry[i]
      BY <2>1, <2>2 DEF Bundled
    <2>4. \A i \in Bundled(vintage) :
            i \in VintageItems => entry'[i] \in {EntryRow("failed", NoRevision), copy[i]}
      BY <2>1, <2>2
    <2>5. \A i \in Bundled(vintage) : \E p \in InBundle : i = Member(p, vintage)
      BY DEF Bundled, Member
    <2>6. \A i \in VintageItems : entry'[i] = EntryRow(entry'[i].status, entry'[i].hash)
      <3>1. TAKE i \in VintageItems
      <3>2. CASE i \notin Bundled(vintage)
        <4>1. entry[i] = EntryRow(entry[i].status, entry[i].hash)
          BY <1>2
        <4> QED
          BY <2>3, <3>2, <4>1
      <3>3. CASE i \in Bundled(vintage)
        <4>1. copy[i] = EntryRow(copy[i].status, copy[i].hash)
          BY <2>2, <2>5, <3>3
        <4>2. entry'[i] = EntryRow("failed", NoRevision) \/ entry'[i] = copy[i]
          BY <2>4, <3>3
        <4> QED
          BY <4>1, <4>2, RowFields
      <3> QED
        BY <3>2, <3>3
    <2>7. entry' = [i \in VintageItems |-> EntryRow(entry'[i].status, entry'[i].hash)]
      <3> DEFINE R == [i \in VintageItems |-> EntryRow(entry'[i].status, entry'[i].hash)]
      <3>1. entry' = R
        BY <2>1, <2>6
      <3> QED
        BY <3>1
    <2>8. Morphology \notin Bundled(vintage) /\ entry'[Morphology] = entry[Morphology]
      <3>1. Morphology \notin Bundled(vintage)
        BY <1>2, <2>5, ItemFacts
      <3> QED
        BY <1>2, <2>3, <3>1
    <2>9. ASSUME NEW w \in Vintages, w = vintage PROVE MorphologyOk(w)' /\ BundleOk(w)'
      <3>1. MorphologyOk(w)'
        BY <1>1, <1>2, <1>4, <2>8, <2>9 DEF MorphologyOk, Lod2
      <3>2. ASSUME w \notin owed' \cup left', NEW p \in InBundle,
                   entry'[Member(p, w)].status = "done"
            PROVE  raster'[Member(p, w)] \in {NoRevision, entry'[Lod2(w)].hash}
        <4>1. entry'[Lod2(w)].hash = revision
          BY <1>2, <1>3, <2>8, <2>9
        <4>2. Member(p, w) \in VintageItems /\ Member(p, w) \in Bundled(vintage)
          BY <2>9, ItemFacts DEF Member, Bundled
        <4>3. entry'[Member(p, w)] = copy[Member(p, w)]
          BY <2>4, <3>2, <4>2, RowFields
        <4>4. raster[Member(p, w)] \in {NoRevision, revision}
          BY <1>1, <2>2, <2>9, <3>2, <4>3
        <4> QED
          BY <1>1, <4>1, <4>4
      <3>3. BundleOk(w)'
        BY <3>2 DEF BundleOk, Member, Lod2
      <3> QED
        BY <3>1, <3>3
    <2>10. \A i \in VintageItems :
             i # Morphology /\ (\A p \in InBundle : i # Member(p, vintage)) =>
               raster'[i] = raster[i] /\ entry'[i] = entry[i]
      BY <1>1, <2>3, <2>5
    <2>11. \A w \in Vintages : MorphologyOk(w)' /\ BundleOk(w)'
      BY <1>1, <1>2, <2>9, <2>10, OtherVintages
    <2> QED
      BY <1>1, <1>2, <2>7, <2>11, NextKeeps
  <1> QED
    BY <1>5, <1>6

-----------------------------------------------------------------------------
(* The end of a run, and what happens between two.                          *)

\* A run that does not return 0 leaves behind what it still owed.
LEMMA DepartKeeps ==
  ASSUME VintageInv, stage # "idle", NEW result, Depart(result),
         UNCHANGED <<raster, entry, revision>>,
         result = "ok" => owed = {} /\ \A w \in Vintages \ left : BundleIsOf(w)
  PROVE  VintageInv'
  <1>1. VintageShape
    BY DEF VintageInv
  <1>2. /\ stage' = "idle" /\ turn' = 1 /\ owed' = {} /\ troubled' = FALSE /\ reported' = result
        /\ left' = IF result = "ok" THEN left ELSE left \cup owed
    BY DEF Depart
  <1>3. VintageShape'
    <2>1. Len(VintageOrder) \in Nat
      BY <1>1, TurnFacts
    <2>2. turn' \in 1..(Len(VintageOrder) + 1)
      BY <1>2, <2>1
    <2> QED
      BY <1>1, <1>2, <2>2 DEF VintageShape
  <1>4. owed \cup left \subseteq owed' \cup left'
    BY <1>2
  <1>5. \A w \in Vintages : MorphologyOk(w)' /\ BundleOk(w)'
    BY <1>4, UntouchedKeep
  <1>6. ClaimPart' /\ DerivePart' /\ BundlePart'
    BY <1>2 DEF ClaimPart, DerivePart, BundlePart, InBundleWork, Writing
  <1>7. SoundPart'
    <2>1. \A i \in 1..Len(VintageOrder) : ~(i < turn')
      BY <1>2
    <2> QED
      BY <1>2, <2>1 DEF SoundPart
  <1>8. ZeroBackfillIsCurrent'
    <2>1. SUFFICES ASSUME reported' = "ok", NEW w \in Vintages \ left' PROVE BundleIsOf(w)'
      BY DEF ZeroBackfillIsCurrent
    <2>2. BundleIsOf(w)
      BY <1>2, <2>1
    <2> QED
      BY <2>2 DEF BundleIsOf
  <1> QED
    BY <1>3, <1>5, <1>6, <1>7, <1>8 DEF VintageInv

\* The closing audit looks at no hash; that the morphologies are of this code
\* follows from a run without a failure.
LEMMA AuditBackfillKeeps ==
  ASSUME VintageInv, AuditBackfill
  PROVE  VintageInv'
  <1> DEFINE result == IF AllDone /\ ~troubled THEN "ok" ELSE "error"
  <1>1. /\ stage = "audit" /\ Depart(result) /\ UNCHANGED <<raster, entry, revision>>
    BY DEF AuditBackfill, product
  <1>2. /\ VintageShape /\ SoundPart /\ turn = Len(VintageOrder) + 1
        /\ Len(VintageOrder) \in Nat
    BY <1>1, TurnFacts DEF VintageInv, VintageShape
  <1>3. ASSUME result = "ok" PROVE owed = {} /\ \A w \in Vintages \ left : BundleIsOf(w)
    <2>1. AllDone /\ ~troubled
      BY <1>3
    <2>2. owed = {}
      BY <1>1, <1>2, <2>1 DEF SoundPart, InBundleWork, Writing
    <2>3. ASSUME NEW w \in Vintages \ left PROVE BundleIsOf(w)
      <3>1. PICK i \in 1..Len(VintageOrder) : w = VintageOrder[i]
        BY DEF Vintages
      <3>2. entry[Lod2(w)].status = "done" /\ entry[Lod2(w)].hash = revision
        BY <1>2, <2>1, <3>1 DEF SoundPart
      <3>3. \A j \in VintageItems : entry[j].status = "done" /\ raster[j] # NoRevision
        BY <2>1 DEF AllDone, NeedsWork, Resolves
      <3>4. MorphologyOk(w) /\ BundleOk(w)
        BY DEF VintageInv
      <3>5. raster[Lod2(w)] = revision
        BY <3>2, <3>3, <3>4, ItemFacts DEF MorphologyOk
      <3>6. \A p \in InBundle : raster[Member(p, w)] = revision
        BY <2>2, <2>3, <3>2, <3>3, <3>4, ItemFacts DEF BundleOk
      <3> QED
        BY <3>5, <3>6 DEF BundleIsOf, Lod2, Member
    <2> QED
      BY <2>2, <2>3
  <1> HIDE DEF result
  <1> QED
    BY <1>1, <1>3, DepartKeeps

\* A killed backfill may leave a vintage that owes its bundle.
LEMMA KillBackfillKeeps ==
  ASSUME VintageInv, KillBackfill
  PROVE  VintageInv'
  <1>1. stage # "idle" /\ Depart("none") /\ UNCHANGED <<raster, entry, revision>>
    BY DEF KillBackfill, product
  <1> QED
    BY <1>1, DepartKeeps

\* A raster that goes is none of any hash.
LEMMA LoseArtifactKeeps ==
  ASSUME VintageInv, LoseArtifact
  PROVE  VintageInv'
  <1>1. /\ stage = "idle" /\ reported' = "none"
        /\ UNCHANGED <<entry, stage, turn, owed, troubled, revision, left>>
        /\ \/ raster' = raster
           \/ \E i \in VintageItems : raster' = [raster EXCEPT ![i] = NoRevision]
    BY DEF LoseArtifact, process
  <1>2. VintageShape
    BY DEF VintageInv
  <1>3. /\ raster' = [j \in VintageItems |-> raster'[j]]
        /\ \A j \in VintageItems : raster'[j] \in {NoRevision, raster[j]}
    <2>1. CASE raster' = raster
      BY <1>2, <2>1 DEF VintageShape
    <2>2. ASSUME NEW i \in VintageItems, raster' = [raster EXCEPT ![i] = NoRevision]
          PROVE  /\ raster' = [j \in VintageItems |-> raster'[j]]
                 /\ \A j \in VintageItems : raster'[j] \in {NoRevision, raster[j]}
      <3>1. /\ raster' = [j \in VintageItems |-> raster'[j]] /\ raster'[i] = NoRevision
            /\ \A j \in VintageItems : j # i => raster'[j] = raster[j]
        BY <1>2, <2>2, RasterWrite
      <3> QED
        BY <3>1
    <2> QED
      BY <1>1, <2>1, <2>2
  <1>4. VintageShape'
    BY <1>1, <1>2, <1>3 DEF VintageShape
  <1>5. ASSUME NEW w \in Vintages PROVE MorphologyOk(w)' /\ BundleOk(w)'
    <2>1. /\ raster'[Lod2(w)] \in {NoRevision, raster[Lod2(w)]}
          /\ \A p \in InBundle : raster'[Member(p, w)] \in {NoRevision, raster[Member(p, w)]}
          /\ MorphologyOk(w) /\ BundleOk(w)
      BY <1>3, ItemFacts DEF VintageInv
    <2>2. MorphologyOk(w)'
      BY <1>1, <2>1 DEF MorphologyOk, Lod2
    <2>3. BundleOk(w)'
      BY <1>1, <2>1 DEF BundleOk, Lod2, Member
    <2> QED
      BY <2>2, <2>3
  <1>6. ClaimPart' /\ DerivePart' /\ BundlePart'
    BY <1>1 DEF ClaimPart, DerivePart, BundlePart, InBundleWork, Writing
  <1>7. SoundPart'
    BY <1>1, <1>2 DEF VintageInv, VintageShape, SoundPart, Lod2
  <1>8. ZeroBackfillIsCurrent'
    BY <1>1 DEF ZeroBackfillIsCurrent
  <1> QED
    BY <1>4, <1>5, <1>6, <1>7, <1>8 DEF VintageInv

-----------------------------------------------------------------------------

\* Nothing is stored and nothing is owed at the start.
LEMMA VintageInitInv ==
  ASSUME VintageInit
  PROVE  VintageInv
  <1>1. /\ raster = [i \in VintageItems |-> NoRevision]
        /\ entry = [i \in VintageItems |-> EntryRow("none", NoRevision)]
        /\ stage = "idle" /\ turn = 1 /\ owed = {} /\ troubled = FALSE /\ reported = "none"
    BY DEF VintageInit, NoEntry
  <1>2. VintageShape
    <2>1. Len(VintageOrder) \in Nat
      <3>1. VintageOrder \in Seq(DOMAIN ArchivesOf)
        BY VintageAssumption DEF VintageAssumption
      <3> QED
        BY <3>1
    <2>2. turn \in 1..(Len(VintageOrder) + 1)
      BY <1>1, <2>1
    <2>3. entry = [i \in VintageItems |-> EntryRow(entry[i].status, entry[i].hash)]
      <3>1. \A i \in VintageItems : entry[i] = EntryRow(entry[i].status, entry[i].hash)
        BY <1>1, RowFields
      <3> DEFINE R == [i \in VintageItems |-> EntryRow(entry[i].status, entry[i].hash)]
      <3>2. entry = R
        BY <1>1, <3>1
      <3> QED
        BY <3>2
    <2>4. raster = [i \in VintageItems |-> raster[i]]
      BY <1>1
    <2> QED
      BY <1>1, <2>2, <2>3, <2>4 DEF VintageShape
  <1>3. ASSUME NEW w \in Vintages PROVE MorphologyOk(w) /\ BundleOk(w)
    <2>1. entry[Lod2(w)].status = "none"
      BY <1>1, RowFields, ItemFacts
    <2> QED
      BY <2>1 DEF MorphologyOk, BundleOk
  <1>4. ClaimPart /\ DerivePart /\ BundlePart
    BY <1>1 DEF ClaimPart, DerivePart, BundlePart, InBundleWork, Writing
  <1>5. SoundPart
    <2>1. \A i \in 1..Len(VintageOrder) : ~(i < turn)
      BY <1>1
    <2> QED
      BY <1>1, <2>1 DEF SoundPart
  <1>6. ZeroBackfillIsCurrent
    BY <1>1 DEF ZeroBackfillIsCurrent
  <1> QED
    BY <1>2, <1>3, <1>4, <1>5, <1>6 DEF VintageInv

\* A step that changes nothing keeps the invariant.
LEMMA VintageStutters ==
  ASSUME VintageInv, UNCHANGED vintageVars
  PROVE  VintageInv'
  <1>1. UNCHANGED <<raster, entry, stage, turn, toPublish, missing, copy, owed, troubled, revision,
                    reported, left>>
    BY DEF vintageVars, product, process, counted
  <1>2. VintageShape'
    BY <1>1 DEF VintageInv, VintageShape
  <1>3. \A w \in Vintages : MorphologyOk(w)' /\ BundleOk(w)'
    BY <1>1, UntouchedKeep
  <1>4. Morphology' = Morphology /\ vintage' = vintage /\ Part' = Part
    BY <1>1 DEF Morphology, vintage, Part
  <1>5. ClaimPart' /\ DerivePart'
    BY <1>1, <1>4 DEF VintageInv, ClaimPart, DerivePart
  <1>6. BundlePart'
    <2>1. SUFFICES ASSUME InBundleWork' PROVE BundlePart'
      BY DEF BundlePart
    <2>2. InBundleWork /\ BundlePart
      BY <1>1, <2>1 DEF VintageInv, InBundleWork
    <2> QED
      BY <1>1, <1>4, <2>2 DEF BundlePart, Member, Bundled
  <1>7. SoundPart'
    <2>1. InBundleWork => InBundleWork'
      BY <1>1 DEF InBundleWork
    <2> QED
      BY <1>1, <1>4, <2>1 DEF VintageInv, SoundPart, Lod2
  <1>8. ZeroBackfillIsCurrent'
    BY <1>1 DEF VintageInv, ZeroBackfillIsCurrent, BundleIsOf
  <1> QED
    BY <1>2, <1>3, <1>5, <1>6, <1>7, <1>8 DEF VintageInv

\* Every step of a backfill keeps the invariant.
LEMMA VintageNextInv ==
  ASSUME VintageInv, [VintageNext]_vintageVars
  PROVE  VintageInv'
  <1>1. CASE UNCHANGED vintageVars
    BY <1>1, VintageStutters
  <1>2. CASE VintageNext
    BY <1>2, StartBackfillKeeps, SkipMorphologyKeeps, ClaimMorphologyKeeps, PublishManifestKeeps,
       WriteRasterKeeps, WriteProvKeeps, SealKeeps, RecordMorphologyKeeps, SkipBundleKeeps,
       RefuseBundleKeeps, StartBundleKeeps, RecordProductKeeps, MorphologyRaisesKeeps,
       BundleRaisesKeeps, AuditBackfillKeeps, KillBackfillKeeps, LoseArtifactKeeps
       DEF VintageNext
  <1> QED
    BY <1>1, <1>2

\* Whatever the vintages, their archives and the revisions of the code: a done
\* morphology row names its raster, and the done products of a vintage go back to
\* it unless the vintage is owed or was left behind.
THEOREM VintageInvariant == VintageSpec => []VintageInv
  BY VintageInitInv, VintageNextInv, PTL DEF VintageSpec

\* A backfill that returns 0 leaves, for every vintage that no failed run has left
\* behind, the morphology of its code and four products that go back to it.
THEOREM ZeroBackfillsAreCurrent == VintageSpec => []ZeroBackfillIsCurrent
  <1>1. VintageInv => ZeroBackfillIsCurrent
    BY DEF VintageInv
  <1> QED
    BY <1>1, VintageInvariant, PTL

=============================================================================
