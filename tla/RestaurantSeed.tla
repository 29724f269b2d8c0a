---------------------------- MODULE RestaurantSeed ----------------------------
(***************************************************************************)
(* The two scripts that fill the restaurant's tables: the seed of sample   *)
(* ingredients and dishes, and the migration from the files of the former  *)
(* program.  Each is a series of transactions, may be cut off between any  *)
(* two and run again, beside the requests of the API.  A transaction that  *)
(* is cut off leaves nothing, so it is its reads and then its commit.      *)
(*                                                                         *)
(* RestaurantMenu has the API's operations; here are those that change a   *)
(* name, each in one step.  ProductLinks has the seed's last transaction.  *)
(***************************************************************************)
EXTENDS Requests, Sequences

CONSTANTS
    SpelledNames,    \* of ingredients and of the samples' dishes, as written
    LowerCase,       \* name -> the same in lower case
    Template,        \* dish of the samples -> the ingredients it takes
    FileIngredients, FileDishes,   \* numbers in the former program -> name
    FileLines,       \* files of recipes: sequences of dish and ingredient
    MaxIds           \* bound on the rows ever inserted in a table

TemplateIngredients == UNION {Template[d] : d \in DOMAIN Template}
ASSUME SeedAssumption ==
    /\ LowerCase \in [SpelledNames -> SpelledNames]
    /\ \A S \in {DOMAIN Template, TemplateIngredients, DOMAIN FileIngredients, DOMAIN FileDishes} : IsFiniteSet(S)
    /\ \A L \in FileLines : L \in Seq(Nat \X Nat)
    /\ DOMAIN Template \cup TemplateIngredients \subseteq SpelledNames
    /\ \A d \in DOMAIN Template, e \in DOMAIN Template : LowerCase[d] = LowerCase[e] => d = e
    /\ \A t, u \in TemplateIngredients : LowerCase[t] = LowerCase[u] => t = u
    /\ MaxIds \in Nat

VARIABLES
    foods,       \* rows of restaurant_ingredients, id -> name
    plats,       \* rows of restaurant_plats, id -> name
    comps,       \* rows of restaurant_plat_ingredients: dish, ingredient
    lastFood, lastPlat,
    fromSeed,    \* history: ingredients and dishes the seed inserted, with the sample's name
    fromFile,    \* history: dishes and ingredients of the last migration, with their numbers
    migrated,    \* history: a migration has ended, none has begun since
    scriptAlone, \* history: no script has overlapped another
    uncrossed,       \* history: no request has overlapped a script
    sreq

seedDb == <<foods, plats, comps, lastFood, lastPlat>>
seedHistory == <<fromSeed, fromFile, migrated, scriptAlone, uncrossed>>
seedVars == <<seedDb, seedHistory, sreq>>

(* names: those read, in lower case; ids: name or number -> id; map: the   *)
(* ids of the dishes migrated.                                             *)
SIdle == [pc |-> "idle", names |-> {}, ids |-> <<>>, map |-> <<>>]

SeedInit ==
    /\ foods = <<>> /\ plats = <<>> /\ comps = {} /\ lastFood = 0 /\ lastPlat = 0
    /\ fromSeed = [food |-> <<>>, plat |-> <<>>]
    /\ fromFile = [food |-> <<>>, plat |-> <<>>, lines |-> <<>>]
    /\ migrated = FALSE /\ scriptAlone = TRUE /\ uncrossed = TRUE
    /\ sreq = [r \in Workers |-> SIdle]

SBecome(r, q) == sreq' = [sreq EXCEPT ![r] = q]
Merged(f, g) == [x \in DOMAIN f \cup DOMAIN g |-> IF x \in DOMAIN g THEN g[x] ELSE f[x]]
Lowered(table) == {LowerCase[table[k]] : k \in DOMAIN table}
(* The ids that the rows of a set take when they are inserted after last,  *)
(* in the order in which the script has them.                              *)
Numbering(S, last) ==
    CHOOSE f \in [S -> last + 1 .. last + Cardinality(S)] : \A x, y \in S : f[x] = f[y] => x = y
(* Those rows, with what each is made of: a sample or a number in a file,  *)
(* which the file has a name for.                                          *)
RowsAt(f) == [k \in {f[x] : x \in DOMAIN f} |-> CHOOSE x \in DOMAIN f : f[x] = k]
NamesOf(file, rows) == [k \in DOMAIN rows |-> file[rows[k]]]

-----------------------------------------------------------------------------
(* A script begins; a migration with its first transaction, which empties  *)
(* the tables.                                                             *)
StartSeed(r) ==
    /\ ~Busy(sreq, r)
    /\ SBecome(r, [SIdle EXCEPT !.pc = "seed ingredients", !.names = Lowered(foods)])
    /\ scriptAlone' = (scriptAlone /\ InProgress(sreq, r) = {})
    /\ UNCHANGED <<seedDb, fromSeed, fromFile, migrated, uncrossed>>

ClearSampleData(r) ==
    /\ ~Busy(sreq, r)
    /\ foods' = <<>> /\ plats' = <<>> /\ comps' = {}
    /\ SBecome(r, [SIdle EXCEPT !.pc = "migrate ingredients"])
    /\ scriptAlone' = (scriptAlone /\ InProgress(sreq, r) = {})
    /\ fromSeed' = [food |-> <<>>, plat |-> <<>>] /\ fromFile' = [food |-> <<>>, plat |-> <<>>, lines |-> <<>>]
    /\ migrated' = FALSE /\ UNCHANGED <<lastFood, lastPlat, uncrossed>>

(* seed_ingredients: a sample whose name was read takes the id of a row of *)
(* that name, in whatever case, if one is there still; others are inserted.*)
SeedIngredients(r) ==
    LET q == sreq[r]
        known == {t \in TemplateIngredients : LowerCase[t] \in q.names}
        there(t) == {i \in DOMAIN foods : LowerCase[foods[i]] = LowerCase[t]}
        kept == {t \in known : there(t) # {}}
    IN
    /\ q.pc = "seed ingredients"
    /\ \E f \in {Numbering(TemplateIngredients \ known, lastFood)}, g \in [kept -> DOMAIN foods] :
          /\ \A t \in kept : g[t] \in there(t)
          /\ foods' = Merged(foods, RowsAt(f))
          /\ fromSeed' = [fromSeed EXCEPT !.food = Merged(@, RowsAt(f))]
          /\ lastFood' = lastFood + Cardinality(DOMAIN f) /\ lastFood' <= MaxIds
          /\ SBecome(r, [SIdle EXCEPT !.pc = "read dishes", !.ids = Merged(f, g)])
    /\ UNCHANGED <<plats, comps, lastPlat, fromFile, migrated, scriptAlone, uncrossed>>

ReadPlats(r) ==
    /\ sreq[r].pc = "read dishes"
    /\ SBecome(r, [SIdle EXCEPT !.pc = "seed dishes", !.names = Lowered(plats), !.ids = sreq[r].ids])
    /\ UNCHANGED <<seedDb, seedHistory>>

(* The lines of the dishes inserted: of the ingredients that have an id. *)
SeedLines(f, ids) ==
    {<<f[x[1]], ids[x[2]]>> : x \in {y \in (DOMAIN f) \X (DOMAIN ids) : y[2] \in Template[y[1]]}}

(* seed_plats: the samples whose name was not read, each with its lines;   *)
(* an ingredient that is gone ends the script.                             *)
SeedPlats(r) ==
    LET q == sreq[r]
        new == {d \in DOMAIN Template : LowerCase[d] \notin q.names}
    IN
    /\ q.pc = "seed dishes" /\ SBecome(r, SIdle)
    /\ LET f == Numbering(new, lastPlat)
           lines == SeedLines(f, q.ids)
       IN IF {x[2] : x \in lines} \subseteq DOMAIN foods
          THEN /\ plats' = Merged(plats, RowsAt(f))
               /\ comps' = comps \cup lines
               /\ fromSeed' = [fromSeed EXCEPT !.plat = Merged(@, RowsAt(f))]
               /\ lastPlat' = lastPlat + Cardinality(new) /\ lastPlat' <= MaxIds
          ELSE UNCHANGED <<plats, comps, lastPlat, fromSeed>>
    /\ UNCHANGED <<foods, lastFood, fromFile, migrated, scriptAlone, uncrossed>>

-----------------------------------------------------------------------------
(* The migration inserts every row of its files, without a look at those   *)
(* that are there, and keeps the new ids in memory.                        *)
MigrateIngredients(r) ==
    /\ sreq[r].pc = "migrate ingredients"
    /\ LET f == Numbering(DOMAIN FileIngredients, lastFood) IN
          /\ foods' = Merged(foods, NamesOf(FileIngredients, RowsAt(f)))
          /\ fromFile' = [fromFile EXCEPT !.food = RowsAt(f)]
          /\ lastFood' = lastFood + Cardinality(DOMAIN f) /\ lastFood' <= MaxIds
          /\ SBecome(r, [SIdle EXCEPT !.pc = "migrate dishes", !.ids = f])
    /\ UNCHANGED <<plats, comps, lastPlat, fromSeed, migrated, scriptAlone, uncrossed>>

MigratePlats(r) ==
    /\ sreq[r].pc = "migrate dishes"
    /\ LET f == Numbering(DOMAIN FileDishes, lastPlat) IN
          /\ plats' = Merged(plats, NamesOf(FileDishes, RowsAt(f)))
          /\ fromFile' = [fromFile EXCEPT !.plat = RowsAt(f)]
          /\ lastPlat' = lastPlat + Cardinality(DOMAIN f) /\ lastPlat' <= MaxIds
          /\ SBecome(r, [SIdle EXCEPT !.pc = "migrate lines", !.ids = sreq[r].ids, !.map = f])
    /\ UNCHANGED <<foods, comps, lastFood, fromSeed, migrated, scriptAlone, uncrossed>>

(* migrate_compositions catches the error of a refused line, of a dish or  *)
(* ingredient that is gone or of a pair named twice, but PostgreSQL has    *)
(* ended the transaction: the COMMIT keeps none of the lines.              *)
MigrateCompositions(r) ==
    LET q == sreq[r] IN
    /\ q.pc = "migrate lines"
    /\ \E L \in FileLines :
          LET mapped == {k \in DOMAIN L : L[k][1] \in DOMAIN q.map /\ L[k][2] \in DOMAIN q.ids}
              line(k) == <<q.map[L[k][1]], q.ids[L[k][2]]>>
              refused == \/ \E k \in mapped : line(k)[1] \notin DOMAIN plats \/ line(k)[2] \notin DOMAIN foods
                         \/ \E j, k \in mapped : j # k /\ L[j] = L[k]
          IN /\ comps' = IF refused THEN comps ELSE comps \cup {line(k) : k \in mapped}
             /\ fromFile' = [fromFile EXCEPT !.lines = L]
    /\ migrated' = TRUE
    /\ SBecome(r, SIdle)
    /\ UNCHANGED <<foods, plats, lastFood, lastPlat, fromSeed, scriptAlone, uncrossed>>

-----------------------------------------------------------------------------
(* The API takes a name that no row has, letter for letter. *)
ApiStep ==
    /\ uncrossed' = (uncrossed /\ \A r \in Workers : ~Busy(sreq, r))
    /\ \E n \in SpelledNames \ (DOMAIN Template \cup {foods[i] : i \in DOMAIN foods}) :
          \/ /\ lastFood < MaxIds /\ lastFood' = lastFood + 1
             /\ foods' = Merged(foods, [k \in {lastFood'} |-> n])
          \/ /\ \E i \in DOMAIN foods : foods' = [foods EXCEPT ![i] = n]
             /\ UNCHANGED lastFood
    /\ UNCHANGED <<plats, comps, lastPlat, fromSeed, fromFile, migrated, scriptAlone, sreq>>

(* A script is cut off. *)
CutOff(r) == Busy(sreq, r) /\ SBecome(r, SIdle) /\ UNCHANGED <<seedDb, seedHistory>>

SeedNext ==
    \/ \E r \in Workers :
          \/ StartSeed(r) \/ ClearSampleData(r) \/ SeedIngredients(r) \/ ReadPlats(r) \/ SeedPlats(r)
          \/ MigrateIngredients(r) \/ MigratePlats(r) \/ MigrateCompositions(r) \/ CutOff(r)
    \/ ApiStep

-----------------------------------------------------------------------------
(* However often the seed is cut off and run again, it inserts a sample    *)
(* ingredient once unless it was renamed, and a sample dish once, with its *)
(* whole recipe, as long as it overlaps nothing.                           *)
SampleOnce ==
    scriptAlone /\ uncrossed =>
        /\ \A i, j \in DOMAIN fromSeed.food :
              fromSeed.food[i] = fromSeed.food[j] /\ foods[i] = foods[j] => i = j
        /\ \A d, e \in DOMAIN fromSeed.plat : fromSeed.plat[d] = fromSeed.plat[e] => d = e
        /\ \A d \in DOMAIN fromSeed.plat :
              Cardinality({x \in comps : x[1] = d}) = Cardinality(Template[fromSeed.plat[d]])

(* Once a migration has come to its end, whatever was cut off before, the  *)
(* dishes of the file have the recipes of the file, or none of them if the *)
(* file names a pair twice, as long as no two scripts overlap, whatever    *)
(* requests do meanwhile.                                                  *)
MigratedWhole ==
    scriptAlone /\ migrated =>
        LET L == fromFile.lines
            known == {k \in DOMAIN L : L[k][1] \in DOMAIN FileDishes /\ L[k][2] \in DOMAIN FileIngredients}
            once == \A j, k \in known : L[j] = L[k] => j = k
        IN {<<fromFile.plat[x[1]], fromFile.food[x[2]]>> :
               x \in {y \in comps : y[1] \in DOMAIN fromFile.plat}}
           = IF once THEN {L[k] : k \in known} ELSE {}

SeedConsistent == SampleOnce /\ MigratedWhole

SeedSpec == SeedInit /\ [][SeedNext]_seedVars
=============================================================================
