--------------------------- MODULE ExportJobProofs ---------------------------
(***************************************************************************)
(* A job that is killed and resumed neither loses nor repeats a match of a *)
(* book the index did not move under, for any number of calls, books,      *)
(* queries and matches, as long as its calls do not overlap                *)
(* (MCExportOverlap shows what happens if they do).                        *)
(*                                                                         *)
(* The argument is about three copies of one fact, which books are done:   *)
(* the checkpoint on disk, the one in memory, and the shards. A run never   *)
(* writes to an inode that is some book's shard (Apart), so a shard that   *)
(* held a book when it got its name does so for good; and the checkpoint   *)
(* on disk, if it can be read at all, is the one the active run has in     *)
(* memory (Disk).                                                          *)
(***************************************************************************)
EXTENDS ExportJob, OrdersProofs, FiniteSetTheorems, TLAPS

Readable == ckpt \notin {None, Torn}
Kept(c, b) == c.completed[b] # None

\* As many lines as are counted, and no line behind them.
UpTo(f, k) == \A n \in Positions : f[n] # None <=> n <= k

\* The matches up to a key, and nothing else.
Reached(f, b, q, v, a) ==
    /\ \A n \in Positions : f[n] # None =>
          \E k \in Found[v][q][b] : k <= a /\ f[n] = Line(q, v, k)
    /\ \A k \in Found[v][q][b] : k <= a =>
          \E n \in Positions : f[n] = Line(q, v, k)

\* What a shard is to hold of a book a checkpoint c records; moved are the
\* books the index moved under.
Holds(f, b, c, moved) ==
    /\ UpTo(f, c.completed[b])
    /\ InOrder(f, c.query)
    /\ b \in moved \/ Whole(f, b, c.query, c.fp)

\* What the .partial of a book holds after n lines, with the cursor at a.
Streamed(f, b, c, n, a, stage, moved) ==
    /\ UpTo(f, n)
    /\ InOrder(f, c.query)
    /\ \A m \in Positions : f[m] # None => f[m].key <= a
    /\ \/ b \in moved
       \/ /\ Reached(f, b, c.query, c.fp, a)
          /\ stage = "swept" => \A k \in Found[c.fp][c.query][b] : k <= a

Writing(r, b) == phase[r] = "sweeping" /\ work[r][b] \in {"open", "swept"}
Untouched(r, b) == phase[r] = "idle" \/ (phase[r] = "sweeping" /\ work[r][b] = "todo")
Reports(r) == phase[r] \in {"sweeping", "assembling", "done"}

\* Each line moves the cursor on by one key at least.
Behind == \A r \in Runs, b \in Books : pos[r][b] <= after[r][b]

OneActive == \A q, r \in Runs : phase[q] \in Active /\ phase[r] \in Active => q = r

\* No stream writes to a shard, and no inode is used for a second time.
Apart ==
    \A b \in Books :
        /\ tmp[b] # None => tmp[b] # shard[b]
        /\ \A r \in Runs : Untouched(r, b) =>
              shard[b] # r /\ tmp[b] # r /\ pos[r][b] = 0 /\ after[r][b] = 0

\* What is still to be swept is swept in the index of the checkpoint, unless it moved.
Settled ==
    \A r \in Runs, b \in Books :
        phase[r] = "sweeping" /\ work[r][b] \in {"todo", "open"} =>
            b \in shaken \/ mem[r].fp = version

\* A stream has written the matches up to its cursor to the .partial file.
Streams ==
    \A r \in Runs, b \in Books : Writing(r, b) =>
        /\ tmp[b] # None /\ fd[r][b] = tmp[b]
        /\ Streamed(content[b][tmp[b]], b, mem[r], pos[r][b], after[r][b], work[r][b], shaken)

\* What a run has recorded is there; what it still works on is not recorded.
Memory ==
    \A r \in Runs, b \in Books :
        /\ Reports(r) /\ Kept(mem[r], b) => \E f \in File : Holds(f, b, mem[r], shaken)
        /\ phase[r] \in Active /\ Kept(mem[r], b) =>
              shard[b] # None /\ Holds(content[b][shard[b]], b, mem[r], shaken)
        /\ Reports(r) /\ work[r][b] \in {"reused", "kept"} => Kept(mem[r], b)
        /\ phase[r] = "sweeping" /\ work[r][b] \in {"todo", "open", "swept"} => ~Kept(mem[r], b)
        /\ phase[r] \in {"assembling", "done"} => work[r][b] \in {"reused", "kept", "failed"}

\* The same of the checkpoint on disk, which is that of the active run.
Disk ==
    Readable =>
        /\ \A b \in Books : Kept(ckpt, b) =>
              shard[b] # None /\ Holds(content[b][shard[b]], b, ckpt, shaken)
        /\ \A r \in Runs : phase[r] \in Active => ckpt = mem[r]

\* What was copied is what was recorded, and at the end all of that was copied.
Output ==
    \A r \in Runs, b \in Books :
        /\ phase[r] \in {"idle", "sweeping"} => out[r][b] = None
        /\ Reports(r) /\ out[r][b] # None => Kept(mem[r], b) /\ Holds(out[r][b], b, mem[r], shaken)
        /\ phase[r] = "done" /\ mem[r].completed[b] \notin {None, 0} => out[r][b] # None

IInv == TypeOK /\ Behind /\ OneActive /\ Apart /\ Settled /\ Streams /\ Memory /\ Disk /\ Output

-----------------------------------------------------------------------------
Phases == {"idle", "sweeping", "assembling", "done", "refused", "dead"}
Stages == {"reused", "todo", "open", "swept", "kept", "failed"}

(* The constants, as the proofs use them: None is no number, and what is    *)
(* found are keys.                                                         *)
LEMMA Constants ==
    /\ None \notin Nat /\ None \notin Row /\ None \notin Runs
    /\ \A v \in Versions, q \in Queries, b \in Books : Found[v][q][b] \in SUBSET Keys
    /\ MaxKey \in Nat /\ PageSize \in Nat /\ MaxVersion \in Nat /\ 1 \in Versions
    /\ \A k \in Keys : k \in Nat /\ 1 <= k /\ k <= MaxKey
    /\ Positions = 1..MaxKey
  BY ExportAssumption DEF Versions, Runs, Keys, Positions

(* A line is a row, and tells what it is of.                                *)
LEMMA LineType ==
    ASSUME NEW q \in Queries, NEW v \in Versions, NEW k \in Keys
    PROVE  /\ Line(q, v, k) \in Row /\ Line(q, v, k) # None
           /\ Line(q, v, k).query = q /\ Line(q, v, k).at = v /\ Line(q, v, k).key = k
  BY Constants DEF Line, Row

LEMMA FreshType ==
    ASSUME NEW q \in Queries, NEW v \in Versions
    PROVE  Fresh(q, v) \in Checkpoints
  BY DEF Fresh, Checkpoints, Counts

LEMMA LoadedType == ASSUME TypeOK, NEW r \in Runs PROVE Loaded(r) \in Checkpoints
  <1>1. mem[r].query \in Queries
    BY DEF TypeOK, Checkpoints
  <1> QED
    BY <1>1, FreshType DEF Loaded, TypeOK

LEMMA UnlinkedType ==
    ASSUME TypeOK, NEW b \in Books, NEW inode
    PROVE  Unlinked(b, inode) \in [Runs -> File]
  BY DEF Unlinked, Empty, File, TypeOK

LEMMA RecordedType ==
    ASSUME TypeOK, NEW r \in Runs, NEW b \in Books
    PROVE  Recorded(r, b) \in Checkpoints
  <1>1. [mem[r].completed EXCEPT ![b] = pos[r][b]] \in Counts
    BY DEF TypeOK, Checkpoints, Counts
  <1> QED
    BY <1>1 DEF Recorded, TypeOK, Checkpoints

LEMMA KilledType ==
    ASSUME TypeOK, Behind, Killed
    PROVE  /\ phase' \in [Runs -> Phases]
           /\ mem' \in [Runs -> Checkpoints]
           /\ work' \in [Runs -> [Books -> Stages]]
           /\ pos' \in [Runs -> [Books -> 0..MaxKey]]
           /\ after' \in [Runs -> [Books -> 0..MaxKey]]
           /\ fd' \in [Runs -> [Books -> Runs \union {None}]]
           /\ out' \in [Runs -> [Books -> File \union {None}]]
           /\ Behind'
  <1>1. \A r \in Runs : Fresh(mem[r].query, 1) \in Checkpoints
    BY Constants, FreshType DEF TypeOK, Checkpoints
  <1>2. mem' \in [Runs -> Checkpoints]
    BY <1>1 DEF Killed, TypeOK
  <1>3. Behind'
    BY DEF Killed, Behind
  <1> QED
    BY <1>2, <1>3, Constants DEF Killed, TypeOK, Phases, Stages

LEMMA Overwritten ==
    ASSUME NEW S, NEW T, NEW f \in [S -> T], NEW i, NEW v, i \in S => v \in T
    PROVE  [f EXCEPT ![i] = v] \in [S -> T]
  OBVIOUS

-----------------------------------------------------------------------------
(* A set of numbers from a..b has at most as many members.                  *)
LEMMA AtMost ==
    ASSUME NEW a \in Nat, NEW b \in Nat, a <= b, NEW S \in SUBSET ((a + 1)..b)
    PROVE  IsFiniteSet(S) /\ Cardinality(S) \in Nat /\ Cardinality(S) <= b - a
  <1>1. IsFiniteSet((a + 1)..b) /\ Cardinality((a + 1)..b) = b - a
    <2>1. /\ IsFiniteSet((a + 1)..b)
          /\ Cardinality((a + 1)..b) = IF a + 1 > b THEN 0 ELSE b - (a + 1) + 1
      BY FS_Interval
    <2> QED
      BY <2>1
  <1> QED
    BY <1>1, FS_Subset, FS_CardinalityType

LEMMA LessIs == ASSUME NEW S, NEW x \in S, NEW y \in S PROVE <<x, y>> \in Less(S) <=> x < y
  BY DEF Less

\* What a page after a key a is to be of what is found, and where it leaves the cursor.
Paged(found, a, page, rest, next) ==
    /\ page \in SUBSET Keys /\ IsFiniteSet(page)
    /\ next \in 0..MaxKey /\ a <= next
    /\ Cardinality(page) \in Nat /\ Cardinality(page) <= next - a
    /\ \A k \in page : k \in found /\ a < k /\ k <= next
    /\ \A k \in found : k <= next => k <= a \/ k \in page
    /\ page = rest => \A k \in found : k <= next

(* A page is the next matches after the cursor, none left out, and the      *)
(* cursor moves to its last.                                               *)
LEMMA PageOf ==
    ASSUME NEW found \in SUBSET Keys, NEW a \in 0..MaxKey, NEW left, NEW page, NEW next,
           left = {k \in found : k > a},
           page = Top(Less(left), PageSize, left),
           next = IF page = {} THEN a ELSE Latest(Less(page), page)
    PROVE  Paged(found, a, page, left, next)
  <1>1. \A k \in found : k \in Nat /\ 1 <= k /\ k <= MaxKey
    BY Constants
  <1>2. left \in SUBSET Nat /\ left \in SUBSET ((a + 1)..MaxKey) /\ a \in Nat /\ a <= MaxKey
    BY <1>1, Constants
  <1>3. IsFiniteSet(left)
    BY <1>2, AtMost, Constants
  <1>4. StrictOrder(Less(left), left)
    BY <1>2, LessOrders
  <1>5. /\ page \in SUBSET left
        /\ \A x \in page, y \in left \ page : <<x, y>> \in Less(left)
    <2> DEFINE R == Less(left)
    <2> HIDE DEF R
    <2>1. page = Top(R, PageSize, left) /\ StrictOrder(R, left) /\ PageSize \in Nat
      BY <1>4, Constants DEF R
    <2>2. page \in SUBSET left /\ \A x \in page, y \in left \ page : <<x, y>> \in R
      BY <1>3, <2>1, TopOf
    <2> QED
      BY <2>2 DEF R
  <1>6. \A x \in page, y \in left \ page : x < y
    <2>1. ASSUME NEW x \in page, NEW y \in left \ page PROVE x < y
      <3>1. x \in left /\ y \in left /\ <<x, y>> \in Less(left)
        BY <1>5
      <3> QED
        BY <3>1, LessIs
    <2> QED
      BY <2>1
  <1>7. page \in SUBSET Nat /\ IsFiniteSet(page)
    BY <1>2, <1>3, <1>5, FS_Subset
  <1>8. CASE page = {}
    <2>1. IsFiniteSet({}) /\ Cardinality({}) = 0
      BY FS_EmptySet
    <2>2. next = a /\ IsFiniteSet(page) /\ Cardinality(page) = 0 /\ page \in SUBSET Keys
      BY <1>8, <2>1
    <2>3. page = left => \A k \in found : k <= a
      BY <1>1, <1>2, <1>8
    <2>4. next \in 0..MaxKey /\ a <= next /\ Cardinality(page) <= next - a
      BY <1>2, <2>2
    <2>5. \A k \in found : k <= next => k <= a \/ k \in page
      BY <2>2
    <2>6. \A k \in page : k \in found /\ a < k /\ k <= next
      BY <1>8
    <2> HIDE <1>8
    <2> QED
      BY <2>2, <2>3, <2>4, <2>5, <2>6 DEF Paged
  <1>9. CASE page # {}
    <2>1. StrictOrder(Less(page), page)
      BY <1>7, LessOrders
    <2>2. next = Latest(Less(page), page)
      BY <1>9
    <2>3. /\ Latest(Less(page), page) \in page
          /\ \A y \in page : \/ y = Latest(Less(page), page)
                            \/ <<y, Latest(Less(page), page)>> \in Less(page)
      <3> DEFINE R == Less(page)
      <3>1. StrictOrder(R, page) /\ IsFiniteSet(page) /\ page # {}
        BY <1>7, <1>9, <2>1
      <3> HIDE DEF R
      <3>2. Latest(R, page) \in page /\ \A y \in page : y = Latest(R, page) \/ <<y, Latest(R, page)>> \in R
        BY ONLY <3>1, EndsOf
      <3> QED
        BY <3>2 DEF R
    <2>4. \A y \in page : y <= next
      <3>1. \A y \in page : y = next \/ y < next
        BY <2>2, <2>3, LessIs
      <3> QED
        BY <1>7, <2>2, <2>3, <3>1
    <2>5. next \in Nat /\ next \in 0..MaxKey /\ next \in page /\ a < next
      BY <1>1, <1>2, <1>5, <2>2, <2>3
    <2>6. \A k \in page : k \in found /\ a < k /\ k <= next
      BY <1>5, <2>4
    <2>7. page \in SUBSET ((a + 1)..next)
      BY <1>7, <1>2, <2>5, <2>6
    <2>8. Cardinality(page) \in Nat /\ Cardinality(page) <= next - a
      <3>1. a \in Nat /\ next \in Nat /\ a <= next
        BY <1>2, <2>5
      <3> QED
        BY <2>7, <3>1, AtMost
    <2>9. ASSUME NEW k \in found, k <= next PROVE k <= a \/ k \in page
      <3> SUFFICES ASSUME ~(k <= a), k \notin page PROVE FALSE
        OBVIOUS
      <3>1. k \in left
        BY <1>1, <1>2
      <3>2. next < k
        BY <1>6, <2>5, <3>1
      <3> QED
        BY <1>1, <2>5, <2>9, <3>2
    <2>10. page = left => \A k \in found : k <= next
      <3> SUFFICES ASSUME page = left, NEW k \in found PROVE k <= next
        OBVIOUS
      <3>1. k > a => k \in page
        OBVIOUS
      <3>2. k > a \/ k <= a
        BY <1>1, <1>2
      <3> QED
        BY <1>1, <1>2, <2>4, <2>5, <3>1, <3>2
    <2>11. page \in SUBSET Keys
      BY <2>6
    <2> QED
      BY <1>2, <1>7, <2>5, <2>6, <2>8, <2>9, <2>10, <2>11 DEF Paged
  <1> QED
    BY <1>8, <1>9

(* Lines written behind those of a file: as many more, of the keys given,    *)
(* in their order.                                                         *)
LEMMA WrittenLines ==
    ASSUME TypeOK, NEW f \in File, NEW n \in 0..MaxKey, NEW q \in Queries,
           NEW keys \in SUBSET Keys, IsFiniteSet(keys), n + Cardinality(keys) <= MaxKey
    PROVE  /\ Written(f, n, keys, q) \in File
           /\ UpTo(f, n) =>
                /\ UpTo(Written(f, n, keys, q), n + Cardinality(keys))
                /\ \A m \in Positions : f[m] # None => Written(f, n, keys, q)[m] = f[m]
                /\ \A m \in Positions : m > n /\ Written(f, n, keys, q)[m] # None =>
                      \E k \in keys : Written(f, n, keys, q)[m] = Line(q, version, k)
                /\ \A k \in keys : \E m \in Positions :
                      Written(f, n, keys, q)[m] = Line(q, version, k)
                /\ \A l, m \in Positions :
                      n < l /\ l < m /\ m <= n + Cardinality(keys) =>
                      Written(f, n, keys, q)[l].key < Written(f, n, keys, q)[m].key
  <1> DEFINE size == Cardinality(keys)
             asc == Ascending(keys)
             g == Written(f, n, keys, q)
  <1>1. keys \in SUBSET Nat /\ version \in Versions
    BY Constants DEF TypeOK
  <1>2. /\ size \in Nat /\ asc \in [1..size -> keys]
        /\ \A l, m \in 1..size : l < m => asc[l] < asc[m]
        /\ \A k \in keys : \E m \in 1..size : asc[m] = k
    BY <1>1, AscendingSorts
  <1>3. /\ n \in Nat /\ n + size <= MaxKey /\ MaxKey \in Nat /\ Positions = 1..MaxKey
    BY Constants
  <1>4. \A m \in Positions : g[m] = IF n < m /\ m <= n + size THEN Line(q, version, asc[m - n]) ELSE f[m]
    BY DEF Written
  <1>5. DOMAIN g = Positions /\ g = [m \in Positions |-> g[m]]
    BY DEF Written
  <1> HIDE DEF size, asc, g
  <1>6. ASSUME NEW m \in Positions, n < m, m <= n + size
        PROVE  /\ m - n \in 1..size /\ asc[m - n] \in keys
               /\ g[m] = Line(q, version, asc[m - n])
               /\ g[m] \in Row /\ g[m] # None /\ g[m].key = asc[m - n]
    <2>1. m - n \in 1..size
      BY <1>2, <1>3, <1>6
    <2>2. asc[m - n] \in keys /\ asc[m - n] \in Keys
      BY <1>2, <2>1
    <2>3. g[m] = Line(q, version, asc[m - n])
      BY <1>4, <1>6
    <2>4. \A k \in Keys : /\ Line(q, version, k) \in Row /\ Line(q, version, k) # None
                         /\ Line(q, version, k).key = k
      BY <1>1, LineType
    <2> QED
      BY <2>1, <2>2, <2>3, <2>4
  <1>7. g \in File
    <2>1. \A m \in Positions : g[m] \in Row \union {None}
      BY <1>4, <1>6 DEF File
    <2> QED
      BY <1>5, <2>1 DEF File
  <1>8. ASSUME UpTo(f, n)
        PROVE  /\ UpTo(g, n + size)
               /\ \A m \in Positions : f[m] # None => g[m] = f[m]
               /\ \A m \in Positions : m > n /\ g[m] # None =>
                     \E k \in keys : g[m] = Line(q, version, k)
               /\ \A k \in keys : \E m \in Positions : g[m] = Line(q, version, k)
               /\ \A l, m \in Positions :
                     n < l /\ l < m /\ m <= n + size => g[l].key < g[m].key
    <2>1. \A m \in Positions : f[m] # None <=> m <= n
      BY <1>8 DEF UpTo
    <2>2. \A m \in Positions : m \in Nat
      BY <1>3
    <2>3. UpTo(g, n + size)
      <3> SUFFICES ASSUME NEW m \in Positions PROVE g[m] # None <=> m <= n + size
        BY DEF UpTo
      <3>1. CASE n < m /\ m <= n + size
        BY <1>6, <3>1
      <3>2. CASE m <= n
        BY <1>2, <1>3, <1>4, <2>1, <2>2, <3>2
      <3>3. CASE n + size < m
        BY <1>2, <1>3, <1>4, <2>1, <2>2, <3>3
      <3> QED
        BY <1>2, <1>3, <2>2, <3>1, <3>2, <3>3
    <2>4. \A m \in Positions : f[m] # None => g[m] = f[m]
      BY <1>2, <1>3, <1>4, <2>1, <2>2
    <2>5. ASSUME NEW m \in Positions, m > n, g[m] # None
          PROVE  \E k \in keys : g[m] = Line(q, version, k)
      <3>1. m <= n + size
        BY <2>3, <2>5 DEF UpTo
      <3> QED
        BY <1>6, <2>2, <1>3, <2>5, <3>1
    <2>6. ASSUME NEW k \in keys PROVE \E m \in Positions : g[m] = Line(q, version, k)
      <3>1. PICK i \in 1..size : asc[i] = k
        BY <1>2
      <3>2. n + i \in Positions /\ n < n + i /\ n + i <= n + size /\ (n + i) - n = i
        BY <1>2, <1>3
      <3>3. g[n + i] = Line(q, version, asc[(n + i) - n])
        BY <1>6, <3>2
      <3> QED
        BY <3>1, <3>2, <3>3
    <2>7. ASSUME NEW l \in Positions, NEW m \in Positions, n < l, l < m, m <= n + size
          PROVE  g[l].key < g[m].key
      <3>1. l <= n + size /\ n < m /\ l - n < m - n
        BY <1>2, <1>3, <2>2, <2>7
      <3>2. l - n \in 1..size /\ m - n \in 1..size
        BY <1>6, <2>7, <3>1
      <3>3. g[l].key = asc[l - n] /\ g[m].key = asc[m - n]
        BY <1>6, <2>7, <3>1
      <3> QED
        BY <1>2, <3>1, <3>2, <3>3
    <2> QED
      BY <2>3, <2>4, <2>5, <2>6, <2>7
  <1> QED
    BY <1>7, <1>8 DEF g, size

\* What the paging loop does to a stream.
Turn(r, b) ==
    LET page == Page(r, b)
        next == IF page = {} THEN after[r][b] ELSE Latest(Less(page), page)
    IN  /\ page \in SUBSET Keys /\ IsFiniteSet(page)
        /\ Paged(Found[version][mem[r].query][b], after[r][b], page, Left(r, b), next)
        /\ pos[r][b] + Cardinality(page) \in 0..MaxKey
        /\ pos[r][b] + Cardinality(page) <= next
        /\ mem[r].query \in Queries /\ version \in Versions

LEMMA TurnOf ==
    ASSUME TypeOK, Behind, NEW r \in Runs, NEW b \in Books
    PROVE  Turn(r, b)
  <1> DEFINE page == Page(r, b)
             a == after[r][b]
             found == Found[version][mem[r].query][b]
             next == IF page = {} THEN a ELSE Latest(Less(page), page)
  <1>1. mem[r].query \in Queries /\ version \in Versions
    BY DEF TypeOK, Checkpoints
  <1>2. found \in SUBSET Keys /\ a \in 0..MaxKey /\ a \in Nat
    BY <1>1, Constants DEF TypeOK
  <1>3. pos[r][b] \in Nat /\ pos[r][b] <= a
    BY Constants DEF TypeOK, Behind
  <1>4. /\ Left(r, b) = {k \in found : k > a}
        /\ page = Top(Less(Left(r, b)), PageSize, Left(r, b))
    BY DEF Left, Page
  <1>5. Paged(found, a, page, Left(r, b), next)
    <2> HIDE DEF page, a, found
    <2> QED
      BY <1>2, <1>4, PageOf
  <1> HIDE DEF found, a, page, next
  <1>6. /\ page \in SUBSET Keys /\ IsFiniteSet(page)
        /\ next \in 0..MaxKey /\ Cardinality(page) \in Nat /\ Cardinality(page) <= next - a
    BY <1>5 DEF Paged
  <1>7. /\ pos[r][b] + Cardinality(page) <= next
        /\ pos[r][b] + Cardinality(page) \in 0..MaxKey
    BY <1>2, <1>3, <1>6, Constants
  <1> QED
    BY <1>1, <1>5, <1>6, <1>7 DEF Turn, found, a, page, next

-----------------------------------------------------------------------------
LEMMA InitType == Init => TypeOK /\ Behind
  <1> SUFFICES ASSUME Init PROVE TypeOK /\ Behind
    OBVIOUS
  <1>1. Empty \in File /\ 1 \in Versions /\ \A q \in Queries : Fresh(q, 1) \in Checkpoints
    BY Constants, FreshType DEF Empty, File
  <1>2. content \in [Books -> [Runs -> File]] /\ mem \in [Runs -> Checkpoints]
    <2>1. {Fresh(q, 1) : q \in Queries} \in SUBSET Checkpoints
      BY <1>1
    <2>2. mem \in [Runs -> {Fresh(q, 1) : q \in Queries}]
      BY DEF Init
    <2> QED
      BY <1>1, <2>1, <2>2 DEF Init
  <1>3. /\ pos \in [Runs -> [Books -> 0..MaxKey]] /\ after \in [Runs -> [Books -> 0..MaxKey]]
        /\ version \in Versions /\ Behind
    BY <1>1, Constants DEF Init, Behind
  <1>4. /\ fd \in [Runs -> [Books -> Runs \union {None}]]
        /\ out \in [Runs -> [Books -> File \union {None}]]
        /\ work \in [Runs -> [Books -> Stages]]
    BY DEF Init, Stages
  <1>5. /\ ckpt = None /\ shaken = {}
        /\ shard \in [Books -> Runs \union {None}] /\ tmp \in [Books -> Runs \union {None}]
        /\ phase \in [Runs -> Phases]
    BY DEF Init, Phases
  <1> QED
    BY <1>2, <1>3, <1>4, <1>5 DEF TypeOK, Phases, Stages

LEMMA TypeStep == TypeOK /\ Behind /\ [Next]_vars => TypeOK' /\ Behind'
  <1> SUFFICES ASSUME TypeOK, Behind, [Next]_vars PROVE TypeOK' /\ Behind'
    OBVIOUS
  <1> USE Constants DEF TypeOK, disk, place
  <1>0. ASSUME UNCHANGED place PROVE Behind'
    BY <1>0 DEF Behind
  <1>1. ASSUME NEW r \in Runs, StartRun(r) PROVE TypeOK' /\ Behind'
    <2> DEFINE keep == Reusable(Loaded(r))
    <2>1. Loaded(r) \in Checkpoints /\ mem[r].query \in Queries
      BY LoadedType DEF Checkpoints
    <2>2. [query |-> mem[r].query, fp |-> version, completed |-> [b \in Books |->
                IF b \in keep THEN Loaded(r).completed[b] ELSE None]] \in Checkpoints
      BY <2>1 DEF Checkpoints, Counts
    <2>3. [b \in Books |-> IF b \in keep THEN content[b] ELSE Unlinked(b, shard[b])]
             \in [Books -> [Runs -> File]]
      BY UnlinkedType
    <2>4. mem' \in [Runs -> Checkpoints] /\ content' \in [Books -> [Runs -> File]]
      BY <1>1, <2>2, <2>3 DEF StartRun, Resume
    <2>5. /\ phase' \in [Runs -> Phases] /\ work' \in [Runs -> [Books -> Stages]]
          /\ shard' \in [Books -> Runs \union {None}]
      BY <1>1 DEF StartRun, Resume, Phases, Stages
    <2>6. UNCHANGED <<ckpt, tmp, version, pos, after, fd, out, shaken>>
      BY <1>1 DEF StartRun, Resume
    <2> QED
      BY <1>0, <2>4, <2>5, <2>6 DEF Phases, Stages
  <1>2. ASSUME NEW r \in Runs, Refuse(r) \/ BeginAssembly(r) PROVE TypeOK' /\ Behind'
    BY <1>0, <1>2 DEF Refuse, BeginAssembly
  <1>3. ASSUME NEW r \in Runs, NEW b \in Books, OpenBook(r, b) PROVE TypeOK' /\ Behind'
    <2>1. Empty \in File
      BY DEF Empty, File
    <2>2. PICK inode \in Runs :
             /\ tmp' = [tmp EXCEPT ![b] = inode]
             /\ fd' = [fd EXCEPT ![r][b] = inode]
             /\ content' = [content EXCEPT ![b][inode] = Empty]
      BY <1>3 DEF OpenBook
    <2>3. /\ tmp' \in [Books -> Runs \union {None}]
          /\ fd' \in [Runs -> [Books -> Runs \union {None}]]
          /\ content' \in [Books -> [Runs -> File]]
      BY <2>1, <2>2
    <2> QED
      BY <1>0, <1>3, <2>3 DEF OpenBook
  <1>4. ASSUME NEW r \in Runs, NEW b \in Books, Batch(r, b) PROVE TypeOK' /\ Behind'
    <2> DEFINE page == Page(r, b)
               next == IF page = {} THEN after[r][b] ELSE Latest(Less(page), page)
               wrote == Written(content[b][fd[r][b]], pos[r][b], page, mem[r].query)
               last == pos[r][b] + Cardinality(page)
    <2>1. /\ page \in SUBSET Keys /\ IsFiniteSet(page) /\ next \in 0..MaxKey
          /\ last \in 0..MaxKey /\ last <= next /\ mem[r].query \in Queries
      BY TurnOf DEF Turn, Paged
    <2>2. /\ content' = [content EXCEPT ![b][fd[r][b]] = wrote]
          /\ pos' = [pos EXCEPT ![r][b] = last]
          /\ after' = [after EXCEPT ![r][b] = next]
      BY <1>4 DEF Batch
    <2>3. work' \in [Runs -> [Books -> Stages]]
      BY <1>4 DEF Batch, Stages
    <2>4. UNCHANGED <<ckpt, shard, tmp, version, phase, mem, fd, out, shaken>>
      BY <1>4 DEF Batch
    <2> HIDE DEF page, next, last
    <2>5. fd[r][b] \in Runs => wrote \in File
      <3> SUFFICES ASSUME fd[r][b] \in Runs PROVE wrote \in File
        OBVIOUS
      <3>1. content[b][fd[r][b]] \in File /\ pos[r][b] \in 0..MaxKey
        OBVIOUS
      <3>2. pos[r][b] + Cardinality(page) <= MaxKey
        BY <2>1 DEF last
      <3> QED
        BY <2>1, <3>1, <3>2, WrittenLines
    <2> HIDE DEF wrote
    <2>6. content' \in [Books -> [Runs -> File]]
      <3>1. [content[b] EXCEPT ![fd[r][b]] = wrote] \in [Runs -> File]
        BY <2>5, Overwritten
      <3> QED
        BY <2>2, <3>1
    <2>7. /\ pos' \in [Runs -> [Books -> 0..MaxKey]] /\ after' \in [Runs -> [Books -> 0..MaxKey]]
          /\ Behind'
      BY <2>1, <2>2 DEF Behind
    <2> QED
      BY <2>3, <2>4, <2>6, <2>7 DEF Stages
  <1>5. ASSUME NEW r \in Runs, NEW b \in Books, KeepBook(r, b) PROVE TypeOK' /\ Behind'
    <2>1. Recorded(r, b) \in Checkpoints
      BY RecordedType
    <2>2. /\ shard' \in [Books -> Runs \union {None}]
          /\ tmp' \in [Books -> Runs \union {None}]
      BY <1>5 DEF KeepBook, Rename
    <2>3. /\ mem' \in [Runs -> Checkpoints]
          /\ ckpt' \in Checkpoints \union {None, Torn}
      BY <1>5, <2>1 DEF KeepBook
    <2>4. work' \in [Runs -> [Books -> Stages]]
      <3>1. PICK s \in {"kept", "failed"} : work' = [work EXCEPT ![r][b] = s]
        BY <1>5 DEF KeepBook
      <3> QED
        BY <3>1 DEF Stages
    <2>5. UNCHANGED <<content, version, phase, pos, after, fd, out, shaken>>
      BY <1>5 DEF KeepBook
    <2> QED
      BY <1>0, <2>2, <2>3, <2>4, <2>5 DEF Stages
  <1>6. ASSUME NEW r \in Runs, NEW b \in Books, FailBook(r, b) PROVE TypeOK' /\ Behind'
    BY <1>0, <1>6, UnlinkedType DEF FailBook
  <1>7. ASSUME NEW r \in Runs, NEW b \in Books, Assemble(r, b) PROVE TypeOK' /\ Behind'
    <2>1. content[b][shard[b]] \in File
      BY <1>7 DEF Assemble, Uncopied
    <2> QED
      BY <1>0, <1>7, <2>1 DEF Assemble
  <1>8. ASSUME NEW r \in Runs, Finish(r) PROVE TypeOK' /\ Behind'
    <2>1. Behind'
      BY <1>8 DEF Finish, Behind
    <2> QED
      BY <1>8, <2>1 DEF Finish
  <1>9. ASSUME NEW r \in Runs, NEW b \in Books, CrashKeeping(r, b) PROVE TypeOK' /\ Behind'
    BY <1>9, KilledType DEF CrashKeeping, Rename, Phases, Stages
  <1>10. CASE Crash
    BY <1>10, KilledType DEF Crash, Phases, Stages
  <1>11. CASE MoveIndex
    BY <1>0, <1>11 DEF MoveIndex, Versions
  <1>12. CASE UNCHANGED vars
    BY <1>0, <1>12 DEF vars
  <1> QED
    BY <1>1, <1>2, <1>3, <1>4, <1>5, <1>6, <1>7, <1>8, <1>9, <1>10, <1>11, <1>12 DEF Next, Step

(* Every variable keeps its type, whether or not the calls overlap: no file  *)
(* has more lines than there are keys, although a sweep may go on in another *)
(* index.                                                                  *)
THEOREM TypeCorrect == Spec => []TypeOK
  <1>1. Spec => [](TypeOK /\ Behind)
    BY InitType, TypeStep, PTL DEF Spec
  <1> QED
    BY <1>1, PTL

-----------------------------------------------------------------------------
(* Checkpoints are told apart by their query, their index, and by what they *)
(* say of a book.                                                          *)
LEMMA SameCheckpoint ==
    ASSUME NEW c \in Checkpoints, NEW d \in Checkpoints,
           c.query = d.query, c.fp = d.fp, \A b \in Books : c.completed[b] = d.completed[b]
    PROVE  c = d
  <1>1. c.completed \in Counts /\ d.completed \in Counts
    BY DEF Checkpoints
  <1>2. c.completed = d.completed
    BY <1>1 DEF Counts
  <1>3. /\ c = [query |-> c.query, fp |-> c.fp, completed |-> c.completed]
        /\ d = [query |-> d.query, fp |-> d.fp, completed |-> d.completed]
    BY DEF Checkpoints
  <1> QED
    BY <1>2, <1>3

(* A book is told by its count, the query and the index alone; and what a    *)
(* shard holds it holds also when the index has moved under more books.     *)
LEMMA HoldsAlike ==
    ASSUME NEW f, NEW b, NEW c, NEW d, NEW s, NEW t,
           c.query = d.query, c.fp = d.fp, c.completed[b] = d.completed[b], s \subseteq t,
           Holds(f, b, c, s)
    PROVE  Holds(f, b, d, t)
  BY DEF Holds

LEMMA StreamedAlike ==
    ASSUME NEW f, NEW b, NEW c, NEW n, NEW a, NEW w, NEW s, NEW t, s \subseteq t,
           Streamed(f, b, c, n, a, w, s)
    PROVE  Streamed(f, b, c, n, a, w, t)
  BY DEF Streamed

(* A new .partial holds the matches before the first key: none.              *)
LEMMA EmptyStreamed ==
    ASSUME NEW c \in Checkpoints, NEW b \in Books, NEW s
    PROVE  Streamed(Empty, b, c, 0, 0, "open", s)
  <1>1. \A n \in Positions : Empty[n] = None /\ n \in Nat /\ ~(n <= 0)
    BY Constants DEF Empty
  <1>2. \A k \in Found[c.fp][c.query][b] : ~(k <= 0)
    BY Constants DEF Checkpoints
  <1> QED
    BY <1>1, <1>2 DEF Streamed, UpTo, InOrder, Reached

(* A page added to a stream is a longer stream, if it is of the index of the *)
(* checkpoint; and it has come to the end where no match was left.          *)
LEMMA TurnStreamed ==
    ASSUME TypeOK, Behind, NEW r \in Runs, NEW b \in Books, NEW f \in File, NEW s,
           Streamed(f, b, mem[r], pos[r][b], after[r][b], "open", s),
           b \in s \/ mem[r].fp = version,
           NEW page, page = Page(r, b),
           NEW next, next = IF page = {} THEN after[r][b] ELSE Latest(Less(page), page),
           NEW stage, stage = IF page = Left(r, b) THEN "swept" ELSE "open"
    PROVE  Streamed(Written(f, pos[r][b], page, mem[r].query), b, mem[r],
                    pos[r][b] + Cardinality(page), next, stage, s)
  <1> DEFINE q == mem[r].query
             n == pos[r][b]
             a == after[r][b]
             last == n + Cardinality(page)
             g == Written(f, n, page, q)
             found == Found[version][q][b]
  <1>1. /\ page \in SUBSET Keys /\ IsFiniteSet(page)
        /\ Paged(found, a, page, Left(r, b), next)
        /\ last \in 0..MaxKey /\ last <= next
        /\ q \in Queries /\ version \in Versions
    BY TurnOf DEF Turn
  <1>2. /\ next \in 0..MaxKey /\ a <= next /\ Cardinality(page) \in Nat
        /\ \A k \in page : k \in found /\ a < k /\ k <= next
        /\ \A k \in found : k <= next => k <= a \/ k \in page
        /\ page = Left(r, b) => \A k \in found : k <= next
    BY <1>1 DEF Paged
  <1>3. /\ UpTo(f, n) /\ InOrder(f, q) /\ \A m \in Positions : f[m] # None => f[m].key <= a
        /\ b \in s \/ Reached(f, b, q, mem[r].fp, a)
    BY DEF Streamed
  <1>4. n \in 0..MaxKey /\ n \in Nat /\ a \in Nat /\ next \in Nat /\ last <= MaxKey /\ last \in Nat
    BY <1>1, <1>2, Constants DEF TypeOK
  <1>5. /\ g \in File
        /\ UpTo(g, last)
        /\ \A m \in Positions : f[m] # None => g[m] = f[m]
        /\ \A m \in Positions : m > n /\ g[m] # None => \E k \in page : g[m] = Line(q, version, k)
        /\ \A k \in page : \E m \in Positions : g[m] = Line(q, version, k)
        /\ \A l, m \in Positions : n < l /\ l < m /\ m <= last => g[l].key < g[m].key
    BY <1>1, <1>3, <1>4, WrittenLines
  <1>6. Positions = 1..MaxKey /\ MaxKey \in Nat /\ found \in SUBSET Keys
    BY <1>1, Constants
  <1>7. \A k \in found : /\ k \in Nat
                         /\ Line(q, version, k).query = q /\ Line(q, version, k).key = k
                         /\ Line(q, version, k) # None
    <2>1. ASSUME NEW k \in found
          PROVE  /\ k \in Nat /\ Line(q, version, k).query = q
                 /\ Line(q, version, k).key = k /\ Line(q, version, k) # None
      <3>1. k \in Keys /\ k \in Nat
        BY <1>6, Constants
      <3> QED
        BY <1>1, <3>1, LineType
    <2> QED
      BY <2>1
  <1> HIDE DEF g, last, found, n, a, q
  \* A line is an old one, or one of the page.
  <1>8. ASSUME NEW m \in Positions, g[m] # None
        PROVE  \/ m <= n /\ g[m] = f[m] /\ f[m] # None
               \/ m > n /\ \E k \in page : k \in found /\ g[m] = Line(q, version, k)
    <2>1. CASE m <= n
      BY <1>3, <1>5, <2>1 DEF UpTo
    <2>2. CASE ~(m <= n)
      <3>1. m > n
        BY <1>4, <1>6, <2>2
      <3> QED
        BY <1>2, <1>5, <1>8, <3>1
    <2> QED
      BY <2>1, <2>2
  <1>9. ASSUME NEW m \in Positions, g[m] # None
        PROVE  /\ g[m].query = q /\ g[m].key <= next
               /\ m <= n => g[m].key <= a /\ g[m].key \in Nat
               /\ m > n => a < g[m].key /\ g[m].key \in Nat
    <2>1. CASE m <= n /\ g[m] = f[m] /\ f[m] # None
      <3>1. f[m].query = q /\ f[m].key <= a
        BY <1>3, <2>1 DEF InOrder
      <3>2. f[m] \in Row /\ f[m].key \in Keys /\ f[m].key \in Nat
        BY <2>1, Constants DEF File, Row
      <3>3. ~(m > n)
        BY <1>4, <1>6, <2>1
      <3> QED
        BY <1>2, <1>4, <2>1, <3>1, <3>2, <3>3
    <2>2. CASE m > n /\ \E k \in page : k \in found /\ g[m] = Line(q, version, k)
      <3>1. ~(m <= n)
        BY <1>4, <1>6, <2>2
      <3> QED
        BY <1>2, <1>7, <2>2, <3>1
    <2> QED
      BY <1>8, <1>9, <2>1, <2>2
  <1>10. InOrder(g, q)
    <2> SUFFICES ASSUME NEW m \in Positions, g[m] # None, NEW l \in 1..(m - 1)
                 PROVE  g[l] # None /\ g[l].key < g[m].key
      BY <1>9 DEF InOrder
    <2>1. l \in Positions /\ l < m /\ l \in Nat /\ m \in Nat
      BY <1>6
    <2>2. m <= last /\ g[l] # None
      BY <1>4, <1>5, <2>1 DEF UpTo
    <2>3. CASE n < l
      BY <1>5, <2>1, <2>2, <2>3
    <2>4. CASE l <= n /\ n < m
      <3>1. g[l].key <= a /\ a < g[m].key /\ g[l].key \in Nat /\ g[m].key \in Nat
        BY <1>9, <2>1, <2>2, <2>4
      <3> QED
        BY <1>4, <2>2, <3>1
    <2>5. CASE m <= n
      <3>1. f[m] # None /\ g[m] = f[m]
        BY <1>4, <1>8, <2>1, <2>5
      <3>2. f[l] # None /\ f[l].key < f[m].key
        BY <1>3, <3>1 DEF InOrder
      <3> QED
        BY <1>5, <2>1, <3>1, <3>2
    <2> QED
      BY <1>4, <2>1, <2>3, <2>4, <2>5
  <1>11. ASSUME b \notin s
         PROVE  /\ Reached(g, b, q, mem[r].fp, next)
                /\ stage = "swept" => \A k \in found : k <= next
    <2>1. mem[r].fp = version /\ Reached(f, b, q, version, a)
      BY <1>3, <1>11
    <2>2. ASSUME NEW m \in Positions, g[m] # None
          PROVE  \E k \in found : k <= next /\ g[m] = Line(q, version, k)
      <3>1. CASE m <= n /\ g[m] = f[m] /\ f[m] # None
        <4>1. PICK k \in found : k <= a /\ f[m] = Line(q, version, k)
          BY <2>1, <3>1 DEF Reached, found
        <4>2. k <= next
          BY <1>2, <1>4, <1>7, <4>1
        <4> QED
          BY <3>1, <4>1, <4>2
      <3>2. CASE m > n /\ \E k \in page : k \in found /\ g[m] = Line(q, version, k)
        BY <1>2, <3>2
      <3> QED
        BY <1>8, <2>2, <3>1, <3>2
    <2>3. ASSUME NEW k \in found, k <= next
          PROVE  \E m \in Positions : g[m] = Line(q, version, k)
      <3>1. CASE k <= a
        <4>1. PICK m \in Positions : f[m] = Line(q, version, k)
          BY <2>1, <3>1 DEF Reached, found
        <4> QED
          BY <1>5, <1>7, <4>1
      <3>2. CASE k \in page
        BY <1>5, <3>2
      <3> QED
        BY <1>2, <2>3, <3>1, <3>2
    <2>4. stage = "swept" => page = Left(r, b)
      OBVIOUS
    <2> QED
      BY <1>2, <2>1, <2>2, <2>3, <2>4 DEF Reached, found
  <1>12. \A m \in Positions : g[m] # None => g[m].key <= next
    BY <1>9
  <1>13. \/ b \in s
         \/ /\ Reached(g, b, q, mem[r].fp, next)
            /\ stage = "swept" => \A k \in Found[mem[r].fp][q][b] : k <= next
    BY <1>11 DEF found
  <1>14. UpTo(g, last)
    BY <1>5
  <1>15. Streamed(g, b, mem[r], last, next, stage, s)
    BY <1>10, <1>12, <1>13, <1>14 DEF Streamed, q
  <1> QED
    BY <1>15 DEF g, last, n, q

(* A file swept to its end holds the book.                                   *)
LEMMA SweptHolds ==
    ASSUME NEW f \in File, NEW b \in Books, NEW c \in Checkpoints, NEW d, NEW n, NEW a, NEW s,
           Streamed(f, b, c, n, a, "swept", s),
           d.query = c.query, d.fp = c.fp, d.completed[b] = n
    PROVE  Holds(f, b, d, s)
  <1> SUFFICES ASSUME b \notin s PROVE Whole(f, b, c.query, c.fp)
    BY DEF Streamed, Holds
  <1> DEFINE found == Found[c.fp][c.query][b]
  <1>1. /\ \A n_1 \in Positions : f[n_1] # None => \E k \in found : f[n_1] = Line(c.query, c.fp, k)
        /\ \A k \in found : \E n_1 \in Positions : f[n_1] = Line(c.query, c.fp, k)
    BY DEF Streamed, Reached
  <1>2. \A k \in found : Line(c.query, c.fp, k) # None
    <2>1. c.query \in Queries /\ c.fp \in Versions /\ found \in SUBSET Keys
      BY Constants DEF Checkpoints
    <2> QED
      BY <2>1, LineType
  <1> QED
    BY <1>1, <1>2 DEF Whole

(* What is at hand when a run may start: with ~Overlap, no run is active.   *)
LEMMA StartAlone ==
    ASSUME ~Overlap, NEW r \in Runs, MayStart(r)
    PROVE  phase[r] = "idle" /\ \A q \in Runs : phase[q] \notin Active
  BY DEF MayStart

(* The initial state satisfies every conjunct: nothing is on disk and no run *)
(* has begun.                                                              *)
LEMMA InitInv == Init => IInv
  <1> SUFFICES ASSUME Init PROVE IInv
    OBVIOUS
  <1>1. TypeOK /\ Behind
    BY InitType
  <1>2. OneActive /\ Streams /\ Output /\ Settled
    BY DEF Init, OneActive, Streams, Output, Settled, Active, Writing, Reports
  <1>3. Apart
    BY Constants DEF Init, Apart, Untouched, Runs
  <1>4. Memory
    BY DEF Init, Memory, Active, Reports, Kept
  <1>5. Disk
    BY DEF Init, Disk, Readable
  <1> QED
    BY <1>1, <1>2, <1>3, <1>4, <1>5 DEF IInv

(* Starting resumes from what the checkpoint says, so memory and disk agree *)
(* from the first step on; the books it keeps lose nothing.                *)
LEMMA StartRunStep ==
    ASSUME ~Overlap, IInv, TypeOK', Behind', NEW r \in Runs, StartRun(r)
    PROVE  IInv'
  <1> DEFINE keep == Reusable(Loaded(r))
  <1> USE DEF IInv, TypeOK
  <1>1. phase[r] = "idle" /\ \A q \in Runs : phase[q] \notin Active
    BY StartAlone DEF StartRun
  <1>2. /\ \A q \in Runs : phase'[q] = IF q = r THEN "sweeping" ELSE phase[q]
        /\ \A q \in Runs \ {r} : mem'[q] = mem[q] /\ work'[q] = work[q]
        /\ \A b \in Books : work'[r][b] = IF b \in keep THEN "reused" ELSE "todo"
        /\ mem'[r].fp = version /\ mem'[r].query = mem[r].query
        /\ \A b \in Books :
              mem'[r].completed[b] = IF b \in keep THEN Loaded(r).completed[b] ELSE None
        /\ \A b \in Books : b \in keep => shard'[b] = shard[b] /\ content'[b] = content[b]
        /\ \A b \in Books : shard'[b] \in {shard[b], None}
        /\ UNCHANGED <<ckpt, tmp, version, pos, after, fd, out, shaken>>
    BY DEF StartRun, Resume, place
  <1>3. Loaded(r).query = mem[r].query /\ Loaded(r).fp = version
    BY DEF StartRun, Resumable
  <1>4. \A b \in keep : b \in Books /\ Readable /\ Loaded(r) = ckpt /\ Kept(ckpt, b)
    BY DEF Reusable, Loaded, Fresh, Readable, Kept
  <1>5. Readable => Loaded(r) = ckpt /\ \A b \in Books : Kept(ckpt, b) => b \in keep
    BY DEF Reusable, Loaded, Readable, Kept, Disk
  <1> HIDE DEF keep
  <1>6. OneActive'
    BY <1>1, <1>2 DEF OneActive, Active
  <1>7. Apart'
    BY <1>1, <1>2, Constants DEF Apart, Untouched, Active
  <1>8. Streams' /\ Settled'
    <2>1. \A q \in Runs, b \in Books : ~Writing(q, b)'
      BY <1>1, <1>2 DEF Writing, Active
    <2>2. \A q \in Runs : phase'[q] = "sweeping" => q = r
      BY <1>1, <1>2 DEF Active
    <2> QED
      BY <1>2, <2>1, <2>2 DEF Streams, Settled
  <1>9. ASSUME NEW b \in keep
        PROVE  /\ shard[b] # None /\ Kept(mem'[r], b)
               /\ Holds(content'[b][shard'[b]], b, mem'[r], shaken)
               /\ content'[b][shard'[b]] \in File
    <2>1. shard[b] # None /\ Holds(content[b][shard[b]], b, ckpt, shaken) /\ b \in Books
      BY <1>4 DEF Disk
    <2>2. /\ mem'[r].completed[b] = ckpt.completed[b]
          /\ mem'[r].query = ckpt.query /\ mem'[r].fp = ckpt.fp
      BY <1>2, <1>3, <1>4
    <2>3. Holds(content[b][shard[b]], b, mem'[r], shaken)
      BY <2>1, <2>2, HoldsAlike
    <2> QED
      BY <1>2, <1>4, <2>1, <2>2, <2>3 DEF Kept
  <1>10. \A b \in Books : /\ Kept(mem'[r], b) <=> b \in keep
                          /\ b \in keep => work'[r][b] = "reused"
                          /\ b \notin keep => work'[r][b] = "todo"
    BY <1>2, <1>9 DEF Kept
  <1>11. Memory'
    <2>1. ASSUME NEW q \in Runs, q # r
          PROVE  /\ mem'[q] = mem[q] /\ work'[q] = work[q] /\ phase'[q] = phase[q]
                 /\ phase[q] \notin Active
      BY <1>1, <1>2, <2>1
    <2>2. ASSUME NEW b \in Books
          PROVE  /\ Kept(mem'[r], b) =>
                      /\ \E f \in File : Holds(f, b, mem'[r], shaken')
                      /\ shard'[b] # None /\ Holds(content'[b][shard'[b]], b, mem'[r], shaken')
                 /\ \/ work'[r][b] = "reused" /\ Kept(mem'[r], b)
                    \/ work'[r][b] = "todo" /\ ~Kept(mem'[r], b)
      BY <1>2, <1>9, <1>10
    <2>3. phase'[r] = "sweeping"
      BY <1>2
    <2> QED
      BY <1>2, <2>1, <2>2, <2>3 DEF Memory, Reports, Active
  <1>12. Disk'
    <2> SUFFICES ASSUME Readable PROVE Disk'
      BY <1>2 DEF Disk, Readable
    <2>1. mem'[r] = ckpt
      <3>1. ckpt \in Checkpoints /\ mem'[r] \in Checkpoints
        BY DEF Readable
      <3>2. /\ mem'[r].query = ckpt.query /\ mem'[r].fp = ckpt.fp
            /\ \A b \in Books : mem'[r].completed[b] = ckpt.completed[b]
        BY <1>2, <1>3, <1>5 DEF Kept
      <3> QED
        BY <3>1, <3>2, SameCheckpoint
    <2>2. \A b \in Books : Kept(ckpt, b) =>
             shard'[b] # None /\ Holds(content'[b][shard'[b]], b, ckpt', shaken')
      BY <1>2, <1>5, <1>9, <2>1
    <2> QED
      BY <1>1, <1>2, <2>1, <2>2 DEF Disk, Readable
  <1>13. Output'
    BY <1>1, <1>2 DEF Output, Active, Reports
  <1> QED
    BY <1>6, <1>7, <1>8, <1>11, <1>12, <1>13

LEMMA BeginAssemblyStep ==
    ASSUME IInv, TypeOK', Behind', NEW r \in Runs, BeginAssembly(r) \/ Refuse(r)
    PROVE  IInv'
  <1> USE DEF IInv, TypeOK, disk, place
  <1>1. CASE Refuse(r)
    <2>1. phase[r] = "idle"
      BY <1>1 DEF Refuse, MayStart
    <2>2. /\ \A q \in Runs : phase'[q] = IF q = r THEN "refused" ELSE phase[q]
          /\ UNCHANGED <<ckpt, shard, tmp, content, version, mem, work, pos, after, fd, out, shaken>>
      BY <1>1 DEF Refuse
    <2>3. OneActive' /\ Disk'
      BY <2>1, <2>2 DEF OneActive, Disk, Active, Readable
    <2>4. Memory'
      BY <2>1, <2>2 DEF Memory, Active, Reports
    <2>5. Apart' /\ Settled'
      BY <2>1, <2>2 DEF Apart, Untouched, Settled
    <2>6. Streams'
      BY <2>1, <2>2 DEF Streams, Writing
    <2>7. Output'
      BY <2>1, <2>2 DEF Output, Reports
    <2> QED
      BY <2>3, <2>4, <2>5, <2>6, <2>7
  <1>2. CASE BeginAssembly(r)
    <2>1. phase[r] = "sweeping" /\ \A b \in Books : work[r][b] \in {"reused", "kept", "failed"}
      BY <1>2 DEF BeginAssembly
    <2>2. /\ \A q \in Runs : phase'[q] = IF q = r THEN "assembling" ELSE phase[q]
          /\ UNCHANGED <<ckpt, shard, tmp, content, version, mem, work, pos, after, fd, out, shaken>>
      BY <1>2 DEF BeginAssembly
    <2>3. OneActive' /\ Apart' /\ Settled' /\ Disk'
      BY <2>1, <2>2 DEF OneActive, Apart, Settled, Disk, Active, Untouched, Readable
    <2>4. Streams' /\ Output'
      BY <2>1, <2>2 DEF Streams, Output, Reports, Writing
    <2>5. Memory'
      BY <2>1, <2>2 DEF Memory, Active, Reports
    <2> QED
      BY <2>3, <2>4, <2>5
  <1> QED
    BY <1>1, <1>2

(* A step of the sweep that leaves the shards alone, and moves books only   *)
(* forward: all but the streams and the streams' inodes is as before.       *)
LEMMA Undisturbed ==
    ASSUME IInv, TypeOK', Behind', UNCHANGED <<ckpt, shard, version, phase, mem, out, shaken>>,
           \A c \in Books : shard[c] # None => content'[c][shard[c]] = content[c][shard[c]],
           \A q \in Runs, c \in Books :
              \/ work'[q][c] = work[q][c]
              \/ /\ phase[q] = "sweeping" /\ work[q][c] \in {"todo", "open", "swept"}
                 /\ \/ work'[q][c] \in {"swept", "failed"}
                    \/ work'[q][c] = "open" /\ work[q][c] = "todo"
    PROVE  OneActive' /\ Settled' /\ Memory' /\ Disk' /\ Output'
  <1> USE DEF IInv
  <1>1. OneActive' /\ Output'
    BY DEF OneActive, Output, Active, Reports
  <1>2. Settled'
    BY DEF Settled
  <1>3. Memory'
    BY DEF Memory, Active, Reports
  <1>4. Disk'
    BY DEF Disk, Active, Readable
  <1> QED
    BY <1>1, <1>2, <1>3, <1>4

(* A book is opened on an inode that is no shard: its own .partial, or a new *)
(* one under this run's name, which no shard has before the run opens it.   *)
LEMMA OpenBookStep ==
    ASSUME IInv, TypeOK', Behind', NEW r \in Runs, NEW b \in Books, OpenBook(r, b)
    PROVE  IInv'
  <1> USE DEF IInv, TypeOK
  <1>1. phase[r] = "sweeping" /\ work[r][b] = "todo"
    BY DEF OpenBook
  <1>2. PICK inode \in Runs :
           /\ inode = IF tmp[b] = None THEN r ELSE tmp[b]
           /\ tmp' = [tmp EXCEPT ![b] = inode]
           /\ fd' = [fd EXCEPT ![r][b] = inode]
           /\ content' = [content EXCEPT ![b][inode] = Empty]
    BY DEF OpenBook
  <1>3. UNCHANGED <<ckpt, shard, version, phase, mem, pos, after, out, shaken>>
    BY DEF OpenBook, place
  <1>4. \A q \in Runs, c \in Books :
           work'[q][c] = IF q = r /\ c = b THEN "open" ELSE work[q][c]
    BY DEF OpenBook
  <1>5. inode # shard[b] /\ pos[r][b] = 0 /\ after[r][b] = 0 /\ shard[b] # r
    BY <1>1, <1>2 DEF Apart, Untouched
  <1>6. /\ \A c \in Books \ {b} : content'[c] = content[c] /\ tmp'[c] = tmp[c]
        /\ \A q \in Runs \ {inode} : content'[b][q] = content[b][q]
        /\ tmp'[b] = inode /\ content'[b][inode] = Empty /\ fd'[r][b] = inode
        /\ \A q \in Runs, c \in Books : fd'[q][c] = IF q = r /\ c = b THEN inode ELSE fd[q][c]
    BY <1>2
  <1>7. inode # None
    BY Constants
  <1>8. Apart'
    BY <1>1, <1>3, <1>4, <1>2, <1>5, <1>6 DEF Apart, Untouched
  <1>9. \A q \in Runs, c \in Books : Writing(q, c)' =>
           q = r /\ (c = b \/ (c # b /\ Writing(q, c)))
    BY <1>1, <1>3, <1>4 DEF OneActive, Active, Writing
  <1>10. Streams'
    <2> SUFFICES ASSUME NEW c \in Books, Writing(r, c)'
                 PROVE  /\ tmp'[c] # None /\ fd'[r][c] = tmp'[c]
                        /\ Streamed(content'[c][tmp'[c]], c, mem'[r], pos'[r][c], after'[r][c],
                                    work'[r][c], shaken')
      BY <1>9 DEF Streams
    <2>1. CASE c = b
      <3>1. Streamed(Empty, b, mem[r], 0, 0, "open", shaken)
        BY EmptyStreamed
      <3> QED
        BY <1>3, <1>4, <1>5, <1>6, <1>7, <2>1, <3>1
    <2>2. CASE c # b
      BY <1>3, <1>4, <1>6, <1>9, <2>2 DEF Streams
    <2> QED
      BY <2>1, <2>2
  <1>11. \A c \in Books : shard[c] # None => content'[c][shard[c]] = content[c][shard[c]]
    BY <1>5, <1>6
  <1>12. \A q \in Runs, c \in Books :
            \/ work'[q][c] = work[q][c]
            \/ /\ phase[q] = "sweeping" /\ work[q][c] \in {"todo", "open", "swept"}
               /\ \/ work'[q][c] \in {"swept", "failed"}
                  \/ work'[q][c] = "open" /\ work[q][c] = "todo"
    BY <1>1, <1>4
  <1> QED
    BY <1>3, <1>8, <1>10, <1>11, <1>12, Undisturbed

(* A batch appends to the lines the stream has written, on an inode that is *)
(* no shard.                                                               *)
LEMMA BatchStep ==
    ASSUME IInv, TypeOK', Behind', NEW r \in Runs, NEW b \in Books, Batch(r, b)
    PROVE  IInv'
  <1> DEFINE page == Page(r, b)
             next == IF page = {} THEN after[r][b] ELSE Latest(Less(page), page)
             stage == IF page = Left(r, b) THEN "swept" ELSE "open"
             last == pos[r][b] + Cardinality(page)
             lines == Written(content[b][tmp[b]], pos[r][b], page, mem[r].query)
  <1> USE DEF IInv, TypeOK
  <1>1. phase[r] = "sweeping" /\ work[r][b] = "open" /\ Writing(r, b)
    BY DEF Batch, Writing
  <1>2. /\ tmp[b] \in Runs /\ fd[r][b] = tmp[b] /\ tmp[b] # shard[b]
        /\ Streamed(content[b][tmp[b]], b, mem[r], pos[r][b], after[r][b], "open", shaken)
    BY <1>1 DEF Streams, Apart
  <1>3. /\ content' = [content EXCEPT ![b][tmp[b]] = lines]
        /\ pos' = [pos EXCEPT ![r][b] = last]
        /\ after' = [after EXCEPT ![r][b] = next]
        /\ work' = [work EXCEPT ![r][b] = stage]
        /\ UNCHANGED <<ckpt, shard, tmp, version, phase, mem, fd, out, shaken>>
    BY <1>2 DEF Batch
  <1>4. Streamed(lines, b, mem[r], last, next, stage, shaken)
    <2>1. b \in shaken \/ mem[r].fp = version
      BY <1>1 DEF Settled
    <2>2. content[b][tmp[b]] \in File
      BY <1>2
    <2> HIDE DEF page, next, stage
    <2>3. /\ page = Page(r, b)
          /\ next = IF page = {} THEN after[r][b] ELSE Latest(Less(page), page)
          /\ stage = IF page = Left(r, b) THEN "swept" ELSE "open"
      BY DEF page, next, stage
    <2> QED
      BY <1>2, <2>1, <2>2, <2>3, TurnStreamed
  <1>5. stage \in {"open", "swept"}
    OBVIOUS
  <1> HIDE DEF page, next, stage, last, lines
  <1>6. /\ \A c \in Books \ {b} : content'[c] = content[c]
        /\ \A q \in Runs \ {tmp[b]} : content'[b][q] = content[b][q]
        /\ content'[b][tmp[b]] = lines
        /\ \A q \in Runs, c \in Books :
              /\ pos'[q][c] = IF q = r /\ c = b THEN last ELSE pos[q][c]
              /\ after'[q][c] = IF q = r /\ c = b THEN next ELSE after[q][c]
              /\ work'[q][c] = IF q = r /\ c = b THEN stage ELSE work[q][c]
    BY <1>2, <1>3
  <1>7. Apart'
    BY <1>1, <1>3, <1>5, <1>6 DEF Apart, Untouched
  <1>8. ASSUME NEW q \in Runs, NEW c \in Books, Writing(q, c)'
        PROVE  q = r /\ Writing(q, c)
    <2>1. phase[q] = "sweeping" /\ work'[q][c] \in {"open", "swept"}
      BY <1>3, <1>8 DEF Writing
    <2>2. q = r
      BY <1>1, <2>1 DEF OneActive, Active
    <2> QED
      BY <1>1, <1>6, <2>1, <2>2 DEF Writing
  <1>9. Streams'
    <2> SUFFICES ASSUME NEW c \in Books, Writing(r, c)'
                 PROVE  /\ tmp'[c] # None /\ fd'[r][c] = tmp'[c]
                        /\ Streamed(content'[c][tmp'[c]], c, mem'[r], pos'[r][c], after'[r][c],
                                    work'[r][c], shaken')
      BY <1>8 DEF Streams
    <2>1. CASE c = b
      BY <1>2, <1>3, <1>4, <1>6, <2>1, Constants
    <2>2. CASE c # b
      BY <1>3, <1>6, <1>8, <2>2 DEF Streams
    <2> QED
      BY <2>1, <2>2
  <1>10. ASSUME NEW c \in Books, shard[c] # None
         PROVE  content'[c][shard[c]] = content[c][shard[c]]
    <2>1. shard[c] \in Runs /\ (c = b => shard[c] # tmp[b])
      BY <1>2, <1>10
    <2> QED
      BY <1>6, <2>1
  <1>11. \A q \in Runs, c \in Books :
            \/ work'[q][c] = work[q][c]
            \/ /\ phase[q] = "sweeping" /\ work[q][c] \in {"todo", "open", "swept"}
               /\ \/ work'[q][c] \in {"swept", "failed"}
                  \/ work'[q][c] = "open" /\ work[q][c] = "todo"
    BY <1>1, <1>5, <1>6
  <1> QED
    BY <1>3, <1>7, <1>9, <1>10, <1>11, Undisturbed

(* A failure removes the .partial, which is no shard.                       *)
LEMMA FailBookStep ==
    ASSUME IInv, TypeOK', Behind', NEW r \in Runs, NEW b \in Books, FailBook(r, b)
    PROVE  IInv'
  <1> USE DEF IInv, TypeOK
  <1>1. phase[r] = "sweeping" /\ work[r][b] \in {"open", "swept"} /\ Writing(r, b)
    BY DEF FailBook, Writing
  <1>2. tmp[b] \in Runs /\ tmp[b] # shard[b]
    BY <1>1 DEF Streams, Apart
  <1>3. UNCHANGED <<ckpt, shard, version, phase, mem, pos, after, fd, out, shaken>>
    BY DEF FailBook, place
  <1>4. /\ \A q \in Runs, c \in Books :
              work'[q][c] = IF q = r /\ c = b THEN "failed" ELSE work[q][c]
        /\ \A c \in Books : tmp'[c] = IF c = b THEN None ELSE tmp[c]
        /\ \A c \in Books \ {b} : content'[c] = content[c]
        /\ \A q \in Runs \ {tmp[b]} : content'[b][q] = content[b][q]
    BY DEF FailBook, Unlinked
  <1>5. Apart'
    BY <1>1, <1>3, <1>4, Constants DEF Apart, Untouched
  <1>6. \A q \in Runs, c \in Books : Writing(q, c)' => q = r /\ c # b /\ Writing(q, c)
    BY <1>1, <1>3, <1>4 DEF OneActive, Active, Writing
  <1>7. Streams'
    BY <1>3, <1>4, <1>6 DEF Streams
  <1>8. ASSUME NEW c \in Books, shard[c] # None
        PROVE  content'[c][shard[c]] = content[c][shard[c]]
    <2>1. shard[c] \in Runs /\ (c = b => shard[c] # tmp[b])
      BY <1>2, <1>8
    <2> QED
      BY <1>4, <2>1
  <1>9. \A q \in Runs, c \in Books :
            \/ work'[q][c] = work[q][c]
            \/ /\ phase[q] = "sweeping" /\ work[q][c] \in {"todo", "open", "swept"}
               /\ \/ work'[q][c] \in {"swept", "failed"}
                  \/ work'[q][c] = "open" /\ work[q][c] = "todo"
    BY <1>1, <1>4
  <1> QED
    BY <1>3, <1>5, <1>7, <1>8, <1>9, Undisturbed

(* Keeping a book turns the whole .partial into the shard, and memory and   *)
(* disk record the same count.                                             *)
LEMMA KeepBookStep ==
    ASSUME IInv, TypeOK', Behind', NEW r \in Runs, NEW b \in Books, KeepBook(r, b)
    PROVE  IInv'
  <1> USE DEF IInv, TypeOK
  <1>1. phase[r] = "sweeping" /\ work[r][b] = "swept" /\ Writing(r, b)
    BY DEF KeepBook, Writing
  <1>2. /\ tmp[b] \in Runs /\ tmp[b] # None /\ content[b][tmp[b]] \in File
        /\ Streamed(content[b][tmp[b]], b, mem[r], pos[r][b], after[r][b], "swept", shaken)
        /\ pos[r][b] # None
    BY <1>1, Constants DEF Streams
  <1>3. UNCHANGED <<content, version, phase, pos, after, fd, out, shaken>>
    BY DEF KeepBook, place
  <1>4. /\ \A c \in Books : shard'[c] = IF c = b THEN tmp[b] ELSE shard[c]
        /\ \A c \in Books : tmp'[c] = IF c = b THEN None ELSE tmp[c]
    BY DEF KeepBook, Rename
  <1>5. /\ mem' = [mem EXCEPT ![r] = Recorded(r, b)]
        /\ \A q \in Runs \ {r} : mem'[q] = mem[q]
        /\ mem'[r] = Recorded(r, b)
        /\ mem'[r].fp = mem[r].fp /\ mem'[r].query = mem[r].query
        /\ \A c \in Books : mem'[r].completed[c] = IF c = b THEN pos[r][b] ELSE mem[r].completed[c]
    BY <1>2 DEF KeepBook, Recorded, Checkpoints, Counts
  <1>6. /\ ckpt' = mem'[r] \/ ckpt' = Torn
        /\ work'[r][b] = "kept" \/ work'[r][b] = "failed"
        /\ \A q \in Runs, c \in Books : q # r \/ c # b => work'[q][c] = work[q][c]
    BY <1>5 DEF KeepBook
  <1>7. \A q \in Runs : phase[q] \in Active => q = r
    BY <1>1 DEF OneActive, Active
  <1>8. OneActive'
    BY <1>3 DEF OneActive
  <1>9. Apart'
    BY <1>1, <1>3, <1>4, <1>6, Constants DEF Apart, Untouched
  <1>10. ASSUME NEW q \in Runs, NEW c \in Books, Writing(q, c)'
         PROVE  q = r /\ c # b /\ Writing(q, c)
    <2>1. phase[q] = "sweeping" /\ work'[q][c] \in {"open", "swept"}
      BY <1>3, <1>10 DEF Writing
    <2>2. q = r
      BY <1>7, <2>1 DEF Active
    <2> QED
      BY <1>6, <2>1, <2>2 DEF Writing
  <1>11. Streams'
    <2> SUFFICES ASSUME NEW c \in Books, c # b, Writing(r, c)'
                 PROVE  /\ tmp'[c] # None /\ fd'[r][c] = tmp'[c]
                        /\ Streamed(content'[c][tmp'[c]], c, mem'[r], pos'[r][c], after'[r][c],
                                    work'[r][c], shaken')
      BY <1>10 DEF Streams
    <2>1. /\ tmp[c] # None /\ fd[r][c] = tmp[c]
          /\ Streamed(content[c][tmp[c]], c, mem[r], pos[r][c], after[r][c], work[r][c], shaken)
      BY <1>10 DEF Streams
    <2>2. Streamed(content[c][tmp[c]], c, mem'[r], pos[r][c], after[r][c], work[r][c], shaken)
      BY <1>5, <2>1 DEF Streamed
    <2> QED
      BY <1>3, <1>4, <1>6, <2>1, <2>2
  <1>12. Settled'
    <2> SUFFICES ASSUME NEW q \in Runs, NEW c \in Books,
                        phase'[q] = "sweeping", work'[q][c] \in {"todo", "open"}
                 PROVE  c \in shaken' \/ mem'[q].fp = version'
      BY DEF Settled
    <2>1. q = r /\ c # b /\ phase[q] = "sweeping" /\ work[q][c] \in {"todo", "open"}
      BY <1>3, <1>6, <1>7 DEF Active
    <2> QED
      BY <1>3, <1>5, <2>1 DEF Settled
  <1>13. ASSUME NEW c \in Books, Kept(mem'[r], c)
         PROVE  /\ shard'[c] # None /\ content'[c][shard'[c]] \in File
                /\ Holds(content'[c][shard'[c]], c, mem'[r], shaken')
    <2>1. CASE c = b
      <3>1. mem'[r].query = mem[r].query /\ mem'[r].fp = mem[r].fp /\ mem'[r].completed[b] = pos[r][b]
        BY <1>5
      <3>2. mem[r] \in Checkpoints
        OBVIOUS
      <3>3. Holds(content[b][tmp[b]], b, mem'[r], shaken)
        BY <1>2, <3>1, <3>2, SweptHolds
      <3> QED
        BY <1>2, <1>3, <1>4, <2>1, <3>3
    <2>2. CASE c # b
      <3>1. Kept(mem[r], c) /\ mem'[r].completed[c] = mem[r].completed[c]
        BY <1>5, <1>13, <2>2 DEF Kept
      <3>2. shard'[c] = shard[c] /\ content'[c] = content[c] /\ shaken' = shaken
        BY <1>3, <1>4, <2>2
      <3>3. shard[c] # None /\ Holds(content[c][shard[c]], c, mem[r], shaken)
        BY <1>1, <3>1 DEF Memory, Active
      <3>4. Holds(content[c][shard[c]], c, mem'[r], shaken)
        BY <1>5, <3>1, <3>3, HoldsAlike
      <3> QED
        BY <3>2, <3>3, <3>4
    <2> QED
      BY <2>1, <2>2
  <1>14. Memory'
    <2> SUFFICES ASSUME NEW q \in Runs, NEW c \in Books
                 PROVE  /\ Reports(q)' /\ Kept(mem'[q], c) =>
                              \E f \in File : Holds(f, c, mem'[q], shaken')
                        /\ phase'[q] \in Active /\ Kept(mem'[q], c) =>
                              shard'[c] # None /\ Holds(content'[c][shard'[c]], c, mem'[q], shaken')
                        /\ Reports(q)' /\ work'[q][c] \in {"reused", "kept"} => Kept(mem'[q], c)
                        /\ phase'[q] = "sweeping" /\ work'[q][c] \in {"todo", "open", "swept"}
                              => ~Kept(mem'[q], c)
                        /\ phase'[q] \in {"assembling", "done"} =>
                              work'[q][c] \in {"reused", "kept", "failed"}
      BY DEF Memory
    <2>1. CASE q # r
      <3>1. /\ phase[q] \notin Active /\ phase'[q] = phase[q] /\ mem'[q] = mem[q]
            /\ work'[q][c] = work[q][c] /\ shaken' = shaken
        BY <1>3, <1>5, <1>6, <1>7, <2>1
      <3> QED
        BY <3>1 DEF Memory, Active, Reports
    <2>2. CASE q = r
      <3>1. c # b => work'[q][c] = work[q][c] /\ (Kept(mem'[q], c) <=> Kept(mem[q], c))
        BY <1>5, <1>6, <2>2 DEF Kept
      <3>2. c = b => work'[q][c] \in {"kept", "failed"} /\ Kept(mem'[q], c)
        BY <1>2, <1>5, <1>6, <2>2 DEF Kept
      <3>3. phase'[q] = "sweeping" /\ phase[q] = "sweeping" /\ Reports(q)
        BY <1>1, <1>3, <2>2 DEF Reports
      <3>4. work[q][c] \in {"reused", "kept"} => Kept(mem[q], c)
        BY <3>3 DEF Memory
      <3>5. work[q][c] \in {"todo", "open", "swept"} => ~Kept(mem[q], c)
        BY <3>3 DEF Memory
      <3> QED
        BY <1>13, <2>2, <3>1, <3>2, <3>3, <3>4, <3>5
    <2> QED
      BY <2>1, <2>2
  <1>15. Disk'
    <2> SUFFICES ASSUME Readable' PROVE Disk'
      BY DEF Disk
    <2>1. ckpt' = mem'[r]
      BY <1>6 DEF Readable
    <2> QED
      BY <1>3, <1>7, <1>13, <2>1 DEF Disk
  <1>16. Output'
    <2> SUFFICES ASSUME NEW q \in Runs, NEW c \in Books
                 PROVE  /\ phase'[q] \in {"idle", "sweeping"} => out'[q][c] = None
                        /\ Reports(q)' /\ out'[q][c] # None =>
                              Kept(mem'[q], c) /\ Holds(out'[q][c], c, mem'[q], shaken')
                        /\ phase'[q] = "done" /\ mem'[q].completed[c] \notin {None, 0} =>
                              out'[q][c] # None
      BY DEF Output
    <2>1. phase'[q] = phase[q] /\ out'[q][c] = out[q][c] /\ shaken' = shaken
      BY <1>3
    <2>2. CASE q = r
      BY <1>1, <2>1, <2>2 DEF Output
    <2>3. CASE q # r
      BY <1>5, <2>1, <2>3 DEF Output, Reports
    <2> QED
      BY <2>2, <2>3
  <1> QED
    BY <1>8, <1>9, <1>11, <1>12, <1>14, <1>15, <1>16

(* A shard is copied as it is, and holds what is recorded of the book.       *)
LEMMA AssembleStep ==
    ASSUME IInv, TypeOK', Behind', NEW r \in Runs, NEW b \in Books, Assemble(r, b)
    PROVE  IInv'
  <1> USE DEF IInv, TypeOK, disk, place
  <1>1. /\ phase[r] = "assembling" /\ Kept(mem[r], b)
        /\ Holds(content[b][shard[b]], b, mem[r], shaken)
    BY DEF Assemble, Uncopied, Memory, Active, Kept
  <1>2. UNCHANGED <<ckpt, shard, tmp, content, version, phase, mem, work, pos, after, fd, shaken>>
    BY DEF Assemble
  <1>3. \A q \in Runs, c \in Books :
           out'[q][c] = IF q = r /\ c = b THEN content[b][shard[b]] ELSE out[q][c]
    BY DEF Assemble
  <1>4. OneActive' /\ Disk' /\ Settled'
    BY <1>2 DEF OneActive, Disk, Settled, Active, Readable
  <1>5. Apart' /\ Streams'
    BY <1>2 DEF Apart, Streams, Untouched, Writing
  <1>6. Memory'
    BY <1>2 DEF Memory, Active, Reports
  <1>7. Output'
    <2> SUFFICES ASSUME NEW q \in Runs, NEW c \in Books
                 PROVE  /\ phase[q] \in {"idle", "sweeping"} => out'[q][c] = None
                        /\ Reports(q) /\ out'[q][c] # None =>
                              Kept(mem[q], c) /\ Holds(out'[q][c], c, mem[q], shaken)
                        /\ phase[q] = "done" /\ mem[q].completed[c] \notin {None, 0} =>
                              out'[q][c] # None
      BY <1>2 DEF Output, Reports
    <2>1. CASE q = r /\ c = b
      BY <1>1, <1>3, <2>1
    <2>2. CASE ~(q = r /\ c = b)
      BY <1>3, <2>2 DEF Output
    <2> QED
      BY <2>1, <2>2
  <1> QED
    BY <1>4, <1>5, <1>6, <1>7

(* The call returns when nothing recorded is left to copy.                  *)
LEMMA FinishStep ==
    ASSUME IInv, TypeOK', Behind', NEW r \in Runs, Finish(r)
    PROVE  IInv'
  <1> USE DEF IInv, TypeOK, disk
  <1>1. phase[r] = "assembling" /\ Uncopied(r) = {}
    BY DEF Finish
  <1>2. /\ \A q \in Runs : phase'[q] = IF q = r THEN "done" ELSE phase[q]
        /\ \A q \in Runs \ {r} : pos'[q] = pos[q] /\ after'[q] = after[q] /\ fd'[q] = fd[q]
        /\ UNCHANGED <<ckpt, shard, tmp, content, version, mem, work, out, shaken>>
    BY DEF Finish
  <1>3. OneActive' /\ Disk' /\ Settled'
    BY <1>1, <1>2 DEF OneActive, Disk, Settled, Active, Readable
  <1>4. Apart'
    <2>1. \A q \in Runs, b \in Books : Untouched(q, b)' => q # r /\ Untouched(q, b)
      BY <1>2 DEF Untouched
    <2> QED
      BY <1>2, <2>1 DEF Apart
  <1>5. Streams'
    <2>1. \A q \in Runs, b \in Books : Writing(q, b)' => q # r /\ Writing(q, b)
      BY <1>2 DEF Writing
    <2> QED
      BY <1>2, <2>1 DEF Streams
  <1>6. Memory'
    BY <1>1, <1>2 DEF Memory, Active, Reports
  <1>7. Output'
    <2>1. \A b \in Books : mem[r].completed[b] \notin {None, 0} => out[r][b] # None
      BY <1>1 DEF Uncopied, Memory, Active, Kept
    <2> QED
      BY <1>1, <1>2, <2>1 DEF Output, Reports
  <1> QED
    BY <1>3, <1>4, <1>5, <1>6, <1>7

(* A crash takes the memory of the active run and leaves the disk, or loses *)
(* the checkpoint.  The rename it may fall behind gives a whole .partial to *)
(* a book the checkpoint does not record.                                  *)
LEMMA CrashStep ==
    ASSUME IInv, TypeOK', Behind', Killed, ckpt' \in {ckpt, Torn},
           UNCHANGED <<content, version, shaken>>,
           \/ UNCHANGED <<shard, tmp>>
           \/ \E r \in Runs, b \in Books :
                 phase[r] = "sweeping" /\ work[r][b] = "swept" /\ Rename(b)
    PROVE  IInv'
  <1> USE DEF IInv, TypeOK
  <1>1. /\ \A r \in Runs : phase'[r] = IF phase[r] \in Active THEN "dead" ELSE phase[r]
        /\ \A r \in Runs : phase[r] \notin Active =>
              /\ mem'[r] = mem[r] /\ work'[r] = work[r] /\ out'[r] = out[r]
              /\ pos'[r] = pos[r] /\ after'[r] = after[r]
    BY DEF Killed
  <1>2. \A r \in Runs : /\ phase'[r] \notin Active
                        /\ Reports(r)' => phase[r] = "done" /\ phase'[r] = "done"
                        /\ phase'[r] = "idle" => phase[r] = "idle"
    BY <1>1 DEF Active, Reports, Writing
  <1>3. \A c \in Books : \/ shard'[c] = shard[c] /\ tmp'[c] = tmp[c]
                         \/ shard'[c] = tmp[c] /\ tmp'[c] = None
    BY DEF Rename
  <1>4. Readable' => /\ Readable /\ ckpt' = ckpt
                     /\ \A c \in Books : Kept(ckpt, c) => shard'[c] = shard[c]
    <2> SUFFICES ASSUME Readable' PROVE Readable /\ ckpt' = ckpt
                     /\ \A c \in Books : Kept(ckpt, c) => shard'[c] = shard[c]
      OBVIOUS
    <2>1. Readable /\ ckpt' = ckpt
      BY DEF Readable
    <2>2. ASSUME NEW r \in Runs, NEW b \in Books,
                 phase[r] = "sweeping", work[r][b] = "swept", Rename(b)
          PROVE  \A c \in Books : Kept(ckpt, c) => shard'[c] = shard[c]
      <3>1. ckpt = mem[r] /\ ~Kept(mem[r], b)
        BY <2>1, <2>2 DEF Disk, Memory, Active
      <3> QED
        BY <2>2, <3>1 DEF Rename
    <2> QED
      BY <2>1, <2>2
  <1>5. OneActive' /\ Streams' /\ Settled'
    BY <1>2 DEF OneActive, Streams, Settled, Writing, Active
  <1>6. Apart'
    <2> SUFFICES ASSUME NEW c \in Books
                 PROVE  /\ tmp'[c] # None => tmp'[c] # shard'[c]
                        /\ \A r \in Runs : Untouched(r, c)' =>
                              /\ shard'[c] # r /\ tmp'[c] # r
                              /\ pos'[r][c] = 0 /\ after'[r][c] = 0
      BY DEF Apart
    <2>1. \A r \in Runs : Untouched(r, c)' =>
             Untouched(r, c) /\ pos'[r] = pos[r] /\ after'[r] = after[r]
      BY <1>1, <1>2 DEF Untouched, Active
    <2> QED
      BY <1>3, <2>1, Constants DEF Apart
  <1>7. Memory'
    BY <1>1, <1>2 DEF Memory, Active, Reports
  <1>8. Disk'
    BY <1>2, <1>4 DEF Disk
  <1>9. Output'
    BY <1>1, <1>2 DEF Output, Reports, Active
  <1> QED
    BY <1>5, <1>6, <1>7, <1>8, <1>9

(* What was read under one index stays so; the books a run had still to     *)
(* sweep when the index moved are remembered in shaken.                    *)
LEMMA MoveIndexStep ==
    ASSUME IInv, TypeOK', Behind', MoveIndex
    PROVE  IInv'
  <1> USE DEF IInv, disk, place
  <1>1. /\ UNCHANGED <<ckpt, shard, tmp, content, phase, mem, work, pos, after, fd, out>>
        /\ shaken \subseteq shaken'
        /\ \A r \in Runs, b \in Books :
              phase[r] = "sweeping" /\ work[r][b] \in {"todo", "open"} => b \in shaken'
    BY DEF MoveIndex
  <1>2. \A f, b, c : Holds(f, b, c, shaken) => Holds(f, b, c, shaken')
    BY <1>1, HoldsAlike
  <1>3. \A f, b, c, n, a, w : Streamed(f, b, c, n, a, w, shaken) => Streamed(f, b, c, n, a, w, shaken')
    BY <1>1, StreamedAlike
  <1>4. OneActive' /\ Settled'
    BY <1>1 DEF OneActive, Settled, Active
  <1>5. Apart' /\ Streams'
    BY <1>1, <1>3 DEF Apart, Streams, Untouched, Writing
  <1>6. Disk'
    BY <1>1, <1>2 DEF Disk, Active, Readable
  <1>7. Memory' /\ Output'
    BY <1>1, <1>2 DEF Memory, Output, Active, Reports
  <1> QED
    BY <1>4, <1>5, <1>6, <1>7

LEMMA InvStep == ASSUME ~Overlap PROVE IInv /\ [Next]_vars => IInv'
  <1> SUFFICES ASSUME IInv, [Next]_vars PROVE IInv'
    OBVIOUS
  <1>0. TypeOK' /\ Behind'
    BY TypeStep DEF IInv
  <1>1. ASSUME NEW r \in Runs, StartRun(r) PROVE IInv'
    BY <1>0, <1>1, StartRunStep
  <1>2. ASSUME NEW r \in Runs, Refuse(r) \/ BeginAssembly(r) PROVE IInv'
    BY <1>0, <1>2, BeginAssemblyStep
  <1>3. ASSUME NEW r \in Runs, NEW b \in Books, OpenBook(r, b) PROVE IInv'
    BY <1>0, <1>3, OpenBookStep
  <1>4. ASSUME NEW r \in Runs, NEW b \in Books, Batch(r, b) PROVE IInv'
    BY <1>0, <1>4, BatchStep
  <1>5. ASSUME NEW r \in Runs, NEW b \in Books, KeepBook(r, b) PROVE IInv'
    BY <1>0, <1>5, KeepBookStep
  <1>6. ASSUME NEW r \in Runs, NEW b \in Books, FailBook(r, b) PROVE IInv'
    BY <1>0, <1>6, FailBookStep
  <1>7. ASSUME NEW r \in Runs, NEW b \in Books, Assemble(r, b) PROVE IInv'
    BY <1>0, <1>7, AssembleStep
  <1>8. ASSUME NEW r \in Runs, Finish(r) PROVE IInv'
    BY <1>0, <1>8, FinishStep
  <1>9. ASSUME NEW r \in Runs, NEW b \in Books, CrashKeeping(r, b) PROVE IInv'
    BY <1>0, <1>9, CrashStep DEF CrashKeeping
  <1>10. CASE Crash
    BY <1>0, <1>10, CrashStep DEF Crash, disk
  <1>11. CASE MoveIndex
    BY <1>0, <1>11, MoveIndexStep
  <1>12. CASE UNCHANGED vars
    <2>1. UNCHANGED <<ckpt, shard, tmp, content, version, phase, mem, work, pos, after, fd, out, shaken>>
      BY <1>12 DEF vars
    <2>2. OneActive' /\ Disk' /\ Apart' /\ Streams' /\ Settled'
      BY <2>1 DEF IInv, OneActive, Disk, Apart, Streams, Settled, Untouched, Writing, Readable
    <2>3. Memory' /\ Output'
      BY <2>1 DEF IInv, Memory, Output, Reports
    <2> QED
      BY <1>0, <2>2, <2>3 DEF IInv
  <1> QED
    BY <1>1, <1>2, <1>3, <1>4, <1>5, <1>6, <1>7, <1>8, <1>9, <1>10, <1>11, <1>12 DEF Next, Step

LEMMA Inductive == ASSUME ~Overlap PROVE Spec => []IInv
  BY InitInv, InvStep, PTL DEF Spec

-----------------------------------------------------------------------------
(* If one call for the job is active at a time, a book that a checkpoint    *)
(* which can be read records, and whose shard is there, has as many lines   *)
(* as recorded, of the checkpoint's query and in order, after any number of *)
(* crashes and failures; and all the matches of the checkpoint's index,     *)
(* unless the index moved before the book was swept to its end              *)
(* (exportResults.ts, Resumability).                                        *)
THEOREM ShardsStayWhole == ASSUME ~Overlap PROVE Spec => []ShardsWhole
  <1>1. IInv => ShardsWhole
    BY DEF IInv, Disk, Readable, Kept, ShardsWhole, Reusable, Holds, UpTo
  <1> QED
    BY <1>1, Inductive, PTL

\* The lines counted in a file that ends after k are k.
LEMMA Counted ==
    ASSUME NEW f, NEW k \in 0..MaxKey, UpTo(f, k)
    PROVE  Cardinality({n \in Positions : f[n] # None}) = k
  <1>1. k \in Nat /\ k <= MaxKey
    BY Constants
  <1>2. {n \in Positions : f[n] # None} = 1..k
    BY <1>1, Constants DEF UpTo
  <1>3. Cardinality(1..k) = k
    <2>1. Cardinality(1..k) = IF 1 > k THEN 0 ELSE k - 1 + 1
      BY <1>1, FS_Interval
    <2> QED
      BY <1>1, <2>1
  <1> QED
    BY <1>2, <1>3

(* What a call that returned exported of a book it has recorded.             *)
LEMMA CopiedHolds ==
    ASSUME IInv, NEW r \in Runs, NEW b \in Books, phase[r] = "done", Kept(mem[r], b)
    PROVE  Holds(Copied(r, b), b, mem[r], shaken)
  <1>1. CASE out[r][b] # None
    BY <1>1 DEF IInv, Output, Reports, Copied
  <1>2. CASE out[r][b] = None
    <2>1. mem[r].completed[b] = 0
      BY <1>2 DEF IInv, Output, Kept
    <2>2. PICK f \in File : Holds(f, b, mem[r], shaken)
      BY DEF IInv, Memory, Reports
    <2>3. \A n \in Positions : f[n] = None
      BY <2>1, <2>2, Constants DEF Holds, UpTo
    <2>4. Copied(r, b) = Empty /\ f = Empty
      BY <1>2, <2>3 DEF Copied, Empty, File
    <2> QED
      BY <2>2, <2>4
  <1> QED
    BY <1>1, <1>2

(* And of a book it has not: nothing.                                       *)
LEMMA NothingCopied ==
    ASSUME IInv, NEW r \in Runs, NEW b \in Books, phase[r] = "done", ~Kept(mem[r], b)
    PROVE  work[r][b] = "failed" /\ Copied(r, b) = Empty /\ UpTo(Empty, 0)
  <1>1. out[r][b] = None /\ work[r][b] = "failed"
    BY DEF IInv, Output, Memory, Reports
  <1>2. UpTo(Empty, 0)
    BY Constants DEF UpTo, Empty
  <1> QED
    BY <1>1, <1>2 DEF Copied

(* If one call for the job is active at a time, a call that returns has     *)
(* exported of every book it does not name as failed lines of its query, in *)
(* order and as many as it counts; and each match of the index it names     *)
(* once, unless that moved before the book was swept to its end.            *)
THEOREM ResultsAreHonest == ASSUME ~Overlap PROVE Spec => []ResultsHonest
  <1>1. ASSUME IInv, NEW r \in Runs, NEW b \in Books, phase[r] = "done"
        PROVE  /\ work[r][b] # "failed" =>
                     /\ InOrder(Copied(r, b), mem[r].query)
                     /\ b \in shaken \/ Whole(Copied(r, b), b, mem[r].query, mem[r].fp)
               /\ RowsCopied(r, b) = IF mem[r].completed[b] = None THEN 0 ELSE mem[r].completed[b]
    <2>1. CASE Kept(mem[r], b)
      <3>1. Holds(Copied(r, b), b, mem[r], shaken)
        BY <1>1, <2>1, CopiedHolds
      <3>2. mem[r].completed[b] \in 0..MaxKey
        BY <2>1, <1>1 DEF IInv, TypeOK, Checkpoints, Counts, Kept
      <3>3. RowsCopied(r, b) = mem[r].completed[b]
        BY <3>1, <3>2, Counted DEF Holds, RowsCopied
      <3> QED
        BY <2>1, <3>1, <3>3 DEF Holds, Kept
    <2>2. CASE ~Kept(mem[r], b)
      <3>1. work[r][b] = "failed" /\ Copied(r, b) = Empty /\ UpTo(Empty, 0)
        BY <1>1, <2>2, NothingCopied
      <3>2. 0 \in 0..MaxKey
        BY Constants
      <3>3. RowsCopied(r, b) = 0
        BY <3>1, <3>2, Counted DEF RowsCopied
      <3> QED
        BY <2>2, <3>1, <3>3 DEF Kept
    <2> QED
      BY <2>1, <2>2
  <1>2. IInv => ResultsHonest
    BY <1>1 DEF ResultsHonest, ResultsWhole
  <1> QED
    BY <1>2, Inductive, PTL

(* If one call for the job is active at a time, the lines of a results.jsonl *)
(* are all of the query of the call, with whatever queries the job was      *)
(* called before; and those of a book are of the index the result names,    *)
(* unless that moved before the book was swept to its end.                  *)
THEOREM ResultsStayUnmixed == ASSUME ~Overlap PROVE Spec => []ResultsUnmixed
  <1>1. ASSUME IInv, NEW r \in Runs, NEW b \in Books, NEW n \in Positions, phase[r] = "done",
               Copied(r, b)[n] # None
        PROVE  /\ Copied(r, b)[n].query = mem[r].query
               /\ b \in shaken \/ Copied(r, b)[n].at = mem[r].fp
    <2>1. Kept(mem[r], b)
      <3>1. Empty[n] = None
        BY DEF Empty
      <3> QED
        BY <1>1, <3>1, NothingCopied
    <2>2. Holds(Copied(r, b), b, mem[r], shaken)
      BY <1>1, <2>1, CopiedHolds
    <2>3. Copied(r, b)[n].query = mem[r].query
      BY <1>1, <2>2 DEF Holds, InOrder
    <2>4. ASSUME b \notin shaken PROVE Copied(r, b)[n].at = mem[r].fp
      <3> DEFINE f == Copied(r, b)
                 q == mem[r].query
                 v == mem[r].fp
      <3>1. Whole(f, b, q, v) /\ q \in Queries /\ v \in Versions /\ f[n] # None
        BY <1>1, <2>2, <2>4 DEF Holds, IInv, TypeOK, Checkpoints
      <3> HIDE DEF f, q, v
      <3>2. PICK k \in Found[v][q][b] : f[n] = Line(q, v, k)
        <4>1. f[n] \in {f[m] : m \in {m \in Positions : f[m] # None}}
          BY <3>1
        <4> QED
          BY <3>1, <4>1 DEF Whole
      <3>3. f[n].at = v
        BY <3>2 DEF Line
      <3> QED
        BY <3>3 DEF f, v
    <2> QED
      BY <2>3, <2>4
  <1>2. IInv => ResultsUnmixed
    BY <1>1 DEF ResultsUnmixed
  <1> QED
    BY <1>2, Inductive, PTL

(* If one call for the job is active at a time, no step from a checkpoint    *)
(* that can be read to one that can be read forgets a completed book, or    *)
(* makes the job one of another query or index. A kill that tears the file  *)
(* while it is written is no such step, nor is the first one after it.      *)
THEOREM CheckpointOnlyGrows == ASSUME ~Overlap PROVE Spec => CheckpointGrows
  <1> DEFINE Same == /\ Reusable(ckpt) \subseteq Reusable(ckpt)'
                     /\ ckpt'.query = ckpt.query /\ ckpt'.fp = ckpt.fp
             Grows == ckpt \notin {None, Torn} /\ ckpt' \notin {None, Torn} => Same
  <1>1. ASSUME IInv, Next, Readable, Readable' PROVE Same
    <2>1. \/ \E r \in Runs : StartRun(r)
          \/ \E r \in Runs, b \in Books : KeepBook(r, b)
          \/ \E r \in Runs, b \in Books : CrashKeeping(r, b)
          \/ UNCHANGED <<ckpt, shard>>
      <3>1. ASSUME NEW r \in Runs, Step(r)
            PROVE  (\E b \in Books : KeepBook(r, b)) \/ UNCHANGED <<ckpt, shard>>
        BY <3>1 DEF Step, OpenBook, Batch, FailBook, BeginAssembly, Assemble, Finish, disk
      <3>2. (\E r \in Runs : Refuse(r)) \/ Crash \/ MoveIndex => UNCHANGED <<ckpt, shard>>
        BY DEF Refuse, Crash, MoveIndex, disk
      <3> QED
        BY <1>1, <3>1, <3>2 DEF Next
    <2>2. ASSUME NEW r \in Runs, StartRun(r) PROVE Same
      <3>1. Loaded(r) = ckpt
        BY <1>1 DEF Loaded, Readable
      <3>2. /\ ckpt' = ckpt
            /\ \A b \in Reusable(ckpt) : shard'[b] = shard[b]
        BY <2>2, <3>1 DEF StartRun, Resume, Reusable
      <3> QED
        BY <3>2 DEF Reusable
    <2>3. ASSUME NEW r \in Runs, NEW b \in Books, KeepBook(r, b)
          PROVE  Same
      <3>1. ckpt = mem[r] /\ ckpt' = Recorded(r, b) /\ tmp[b] # None /\ pos[r][b] # None
        BY <1>1, <2>3, Constants DEF KeepBook, Rename, IInv, TypeOK, Disk, Active, Readable
      <3>2. /\ \A c \in Books : ckpt.completed[c] # None => ckpt'.completed[c] # None
            /\ \A c \in Books : shard[c] # None => shard'[c] # None
            /\ ckpt'.query = ckpt.query /\ ckpt'.fp = ckpt.fp
        BY <1>1, <2>3, <3>1 DEF KeepBook, Rename, Recorded, IInv, TypeOK, Checkpoints, Counts
      <3> QED
        BY <3>2 DEF Reusable
    <2>4. ASSUME NEW r \in Runs, NEW b \in Books, CrashKeeping(r, b)
          PROVE  Same
      <3>1. ckpt' = ckpt /\ \A c \in Books : shard[c] # None => shard'[c] # None
        BY <1>1, <2>4 DEF CrashKeeping, Rename, IInv, TypeOK, Readable
      <3> QED
        BY <3>1 DEF Reusable
    <2> QED
      BY <2>1, <2>2, <2>3, <2>4 DEF Reusable
  <1>2. IInv /\ [Next]_vars => [Grows]_vars
    BY <1>1 DEF Readable
  <1> QED
    BY <1>2, Inductive, PTL DEF Spec, CheckpointGrows
=============================================================================
