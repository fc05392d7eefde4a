-------------------------- MODULE FileBlocks_proof --------------------------
(***************************************************************************)
(* What is proved of the blocks of files: for every size of a block, every *)
(* number of direct slots and inodes, every disk with a block or more and  *)
(* every file that the indirect block can address, the image mkxxx makes,  *)
(* whether the disk is large enough or not, and any calls, lookups and     *)
(* restarts after it satisfy all the properties that FileBlocks states.    *)
(*                                                                         *)
(* The argument.  Every number of a block belongs to an owner: a slot of   *)
(* an inode or a word of the file's indirect block.  No two owners hold    *)
(* the same block, and what nobody holds is free or lost (Apart).  A loop  *)
(* is followed round by round: if every round keeps a fact, the call does  *)
(* (RoundsKeep).  A round of file_write gives a free block to one owner,   *)
(* or loses it into a copy (WalkKeeps, AttachKeeps), and stores into one   *)
(* block that is not the indirect block (StoreKeeps).  As positions of     *)
(* different blocks have different owners, a store changes the word at the *)
(* probe exactly when the call was asked to, went on past its count, or    *)
(* reached a block that is not the position's (StoreHolds).  A restart     *)
(* forgets the slots, but the image's blocks were given to nobody else.    *)
(***************************************************************************)
EXTENDS FileBlocks, WellFoundedInduction, TLAPS

------------------------------------------------------------------------------
(* Natural numbers, and what is defined along them *)

(* A non-empty set of natural numbers has a least element. *)
LEMMA LeastLemma ==
  ASSUME NEW T \in SUBSET Nat, T # {}
  PROVE  \E m \in T : \A k \in T : ~(k < m)
<1>1. \E m \in T : \A k \in T : ~(<<k, m>> \in OpToRel(<, Nat))
  BY NatLessThanWellFounded, WFMin
<1> QED
  BY <1>1 DEF OpToRel

(* Min is that element (get_blk, which takes the first set bit). *)
LEMMA MinLemma ==
  ASSUME NEW T \in SUBSET Nat, T # {}
  PROVE  Min(T) \in T /\ \A k \in T : Min(T) <= k
<1>1. PICK m \in T : \A k \in T : ~(k < m)
  BY LeastLemma
<1>2. \A k \in T : m <= k
  BY <1>1
<1> QED
  BY <1>2 DEF Min

(* A set of natural numbers that holds 0, and with each number the next,   *)
(* holds them all.                                                         *)
LEMMA AllNaturals ==
  ASSUME NEW T, 0 \in T, \A k \in Nat : k \in T => k + 1 \in T
  PROVE  Nat \subseteq T
<1> SUFFICES ASSUME Nat \ T # {} PROVE FALSE
  OBVIOUS
<1>1. PICK m \in Nat \ T : \A k \in Nat \ T : ~(k < m)
  BY LeastLemma
<1>2. m - 1 \in Nat /\ m - 1 < m /\ (m - 1) + 1 = m
  BY <1>1
<1>3. m - 1 \in T
  BY <1>1, <1>2
<1> QED
  BY <1>1, <1>2, <1>3

(* What comes of rounds 1 to n: D[k] is where round k may lead, step what  *)
(* a round makes of what was before it.                                    *)
IsRounds(f, n, base, step) ==
  f = [k \in 0 .. n |-> IF k = 0 THEN base ELSE step[<<k, f[k - 1]>>]]

(* There is a function that keeps what was after every round. *)
LEMMA RoundsExist ==
  ASSUME NEW n \in Nat, NEW base, NEW step
  PROVE  \E f : IsRounds(f, n, base, step)
<1> DEFINE T == {m \in Nat : \E f : IsRounds(f, m, base, step)}
<1>1. 0 \in T
  <2>1. PICK f : f = [k \in 0 .. 0 |-> base]
    OBVIOUS
  <2>2. IsRounds(f, 0, base, step)
    BY <2>1 DEF IsRounds
  <2> QED
    BY <2>2
<1>2. ASSUME NEW m \in Nat, m \in T PROVE m + 1 \in T
  <2>1. PICK f : IsRounds(f, m, base, step)
    BY <1>2
  <2>2. PICK g : g = [k \in 0 .. m + 1 |-> IF k = m + 1 THEN step[<<k, f[m]>>] ELSE f[k]]
    OBVIOUS
  <2>3. ASSUME NEW k \in 0 .. m + 1
        PROVE  g[k] = IF k = 0 THEN base ELSE step[<<k, g[k - 1]>>]
    <3>1. CASE k = m + 1
      BY <2>1, <2>2, <3>1 DEF IsRounds
    <3>2. CASE k # m + 1 /\ k # 0
      <4>1. k \in 0 .. m /\ k - 1 \in 0 .. m /\ k - 1 \in 0 .. m + 1 /\ k - 1 # m + 1
        BY <3>2
      <4>2. f[k] = step[<<k, f[k - 1]>>]
        BY <2>1, <3>2, <4>1 DEF IsRounds
      <4> QED
        BY <2>2, <3>2, <4>1, <4>2
    <3>3. CASE k = 0
      <4>1. 0 \in 0 .. m /\ k # m + 1
        BY <3>3
      <4> QED
        BY <2>1, <2>2, <3>3, <4>1 DEF IsRounds
    <3> QED
      BY <3>1, <3>2, <3>3
  <2>4. g = [k \in 0 .. m + 1 |-> IF k = 0 THEN base ELSE step[<<k, g[k - 1]>>]]
    BY <2>2, <2>3
  <2>5. IsRounds(g, m + 1, base, step)
    BY <2>4 DEF IsRounds
  <2> QED
    BY <2>5
<1> QED
  <2> HIDE DEF T
  <2>1. n \in T
    BY <1>1, <1>2, AllNaturals
  <2> QED
    BY <2>1 DEF T

(* What every round keeps, the last one leaves. *)
LEMMA RoundsKeep ==
  ASSUME NEW n \in Nat, NEW base, NEW D, NEW f,
         f[0] \in D[0],
         \A k \in 1 .. n : f[k - 1] \in D[k - 1] => f[k] \in D[k]
  PROVE  \A k \in 0 .. n : f[k] \in D[k]
<1> DEFINE T == {m \in Nat : m \in 0 .. n => f[m] \in D[m]}
<1>1. 0 \in T
  OBVIOUS
<1>2. ASSUME NEW m \in Nat, m \in T PROVE m + 1 \in T
  <2>1. CASE m + 1 \in 0 .. n
    <3>1. m + 1 \in 1 .. n /\ (m + 1) - 1 = m /\ m \in 0 .. n
      BY <2>1
    <3> QED
      BY <1>2, <3>1
  <2> QED
    BY <2>1
<1> QED
  <2> HIDE DEF T
  <2>1. Nat \subseteq T
    BY <1>1, <1>2, AllNaturals
  <2> QED
    BY <2>1 DEF T

(* Rounds that lead from D[k - 1] into D[k] can be made, one by one. *)
LEMMA RoundsFound ==
  ASSUME NEW n \in Nat, NEW base, NEW D, NEW step, base \in D[0],
         \A k \in 1 .. n : \A x \in D[k - 1] : step[<<k, x>>] \in D[k]
  PROVE  \E f : IsRounds(f, n, base, step) /\ \A k \in 0 .. n : f[k] \in D[k]
<1>1. PICK f : IsRounds(f, n, base, step)
  BY RoundsExist
<1>2. f[0] = base /\ \A k \in 1 .. n : f[k] = step[<<k, f[k - 1]>>]
  BY <1>1 DEF IsRounds
<1>3. f[0] \in D[0]
  BY <1>2
<1>4. \A k \in 1 .. n : f[k - 1] \in D[k - 1] => f[k] \in D[k]
  BY <1>2
<1>5. \A k \in 0 .. n : f[k] \in D[k]
  BY <1>3, <1>4, RoundsKeep
<1> QED
  BY <1>1, <1>5

(* Division with remainder. *)
LEMMA DivMod ==
  ASSUME NEW a \in Int, NEW n \in Int, n > 0
  PROVE  a = n * (a \div n) + (a % n)
BY Z3

(* Quotient and remainder of naturals are naturals, the remainder is below *)
(* the divisor.                                                            *)
LEMMA DivModRange ==
  ASSUME NEW a \in Nat, NEW n \in Nat, n > 0
  PROVE  a \div n \in Nat /\ a % n \in 0 .. n - 1 /\ a = n * (a \div n) + (a % n)
<1>1. a \div n \in Nat /\ a % n \in 0 .. n - 1
  OBVIOUS
<1>2. a = n * (a \div n) + (a % n)
  BY DivMod
<1> QED
  BY <1>1, <1>2

(* They are the only such pair. *)
LEMMA DivModUnique ==
  ASSUME NEW a \in Nat, NEW n \in Nat, n > 0, NEW q \in Nat, NEW r \in 0 .. n - 1, a = n * q + r
  PROVE  q = a \div n /\ r = a % n
OBVIOUS

(* What lies in the same block, *)
LEMMA SameBlock ==
  ASSUME NEW p \in Nat, NEW u \in Nat, NEW n \in Nat, n > 0,
         u >= p, u - p < n - (p % n)
  PROVE  u \div n = p \div n /\ u % n = (p % n) + (u - p)
<1>1. p \div n \in Nat /\ p % n \in 0 .. n - 1 /\ p = n * (p \div n) + (p % n)
  BY DivModRange
<1> DEFINE q == p \div n
           r == (p % n) + (u - p)
<1>2. q \in Nat /\ r \in 0 .. n - 1
  BY <1>1
<1>3. u = n * q + r
  BY <1>1
<1> HIDE DEF q, r
<1>4. q = u \div n /\ r = u % n
  BY <1>2, <1>3, DivModUnique
<1> QED
  BY <1>4 DEF q, r

(* and how far it lies apart. *)
LEMMA InBlock ==
  ASSUME NEW p \in Nat, NEW u \in Nat, NEW n \in Nat, n > 0, u \div n = p \div n
  PROVE  u - p = (u % n) - (p % n)
<1>1. p \div n \in Nat /\ p % n \in 0 .. n - 1 /\ p = n * (p \div n) + (p % n)
  BY DivModRange
<1>2. u \div n \in Nat /\ u % n \in 0 .. n - 1 /\ u = n * (u \div n) + (u % n)
  BY DivModRange
<1> QED
  BY <1>1, <1>2

(* A position below n blocks lies in one of the n blocks. *)
LEMMA BlockBound ==
  ASSUME NEW p \in Nat, NEW n \in Nat, n > 0, NEW m \in Nat, p < n * m
  PROVE  p \div n < m
<1>1. p \div n \in Nat /\ p % n \in 0 .. n - 1 /\ p = n * (p \div n) + (p % n)
  BY DivModRange
<1> SUFFICES ASSUME p \div n >= m PROVE FALSE
  BY <1>1
<1>2. n * (p \div n) >= n * m
  BY <1>1
<1> QED
  BY <1>1, <1>2

------------------------------------------------------------------------------
(* Who holds which block *)

(* A block is held by a slot of an inode, or by a word of the indirect     *)
(* block that the image has for the file (no other inode has one).         *)
Owner == (Ino \X Slot) \cup ({NIno} \X (0 .. Blk - 1))

(* The number every owner holds, 0 if none: ind is the indirect block. *)
Numbers(ino, dsk, ind) ==
  [o \in Owner |-> IF o[1] # NIno THEN ino[o[1]][o[2]] ELSE IF ind = 0 THEN 0 ELSE dsk[ind][o[2]]]

(* No block of B is held twice, none that is held is lost, and what is     *)
(* neither held nor lost is free.                                          *)
Apart(num, free, gone, B) ==
  /\ \A o, p \in Owner : num[o] = num[p] /\ num[o] # 0 => o = p
  /\ \A o \in Owner : num[o] \notin gone
  /\ gone \subseteq B
  /\ free = B \ (gone \cup {num[o] : o \in Owner})

(* A word of a block: a number of a block, or the name in the directory. *)
Word == Block \cup {0, TheFile}

(* What the assumptions say of the numbers, *)
LEMMA Sizes ==
  /\ NIno \in Nat /\ NIno > 1 /\ Direct \in Nat /\ Direct > 0 /\ Blk \in Nat /\ Blk > 0
  /\ TheFile = 1 /\ Root = 0
  /\ MaxWord \in Nat /\ MaxCount \in Nat /\ MaxWord <= Blk * (Direct + Blk)
BY DiskImageAssumption, BlocksAssumption DEF Root, TheFile

(* and of the sets. *)
LEMMA Members ==
  /\ Block \subseteq Nat /\ 0 \notin Block /\ Word \subseteq Nat /\ Value \subseteq Word
  /\ Root \in Ino /\ TheFile \in Ino /\ TheFile # Root
  /\ Direct \in Slot /\ 0 \in Slot /\ Direct # 0
BY DiskImageAssumption, BlocksAssumption DEF Ino, Slot, Root, TheFile, Word

(* The two kinds of owners do not meet. *)
LEMMA Owners ==
  /\ \A f \in Ino, k \in Slot : <<f, k>> \in Owner /\ f # NIno
  /\ \A i \in 0 .. Blk - 1 : <<NIno, i>> \in Owner
  /\ \A o \in Owner : \/ o[1] \in Ino /\ o[2] \in Slot /\ o = <<o[1], o[2]>> /\ o[1] # NIno
                      \/ o[1] = NIno /\ o[2] \in 0 .. Blk - 1 /\ o = <<o[1], o[2]>>
BY Sizes DEF Owner, Ino

(* Numbers, kind by kind. *)
LEMMA NumbersAre ==
  ASSUME NEW ino, NEW dsk, NEW ind
  PROVE  /\ \A f \in Ino, k \in Slot : Numbers(ino, dsk, ind)[<<f, k>>] = ino[f][k]
         /\ \A i \in 0 .. Blk - 1 :
              Numbers(ino, dsk, ind)[<<NIno, i>>] = IF ind = 0 THEN 0 ELSE dsk[ind][i]
BY Owners DEF Numbers

(* A free block comes to an owner that had none, *)
LEMMA TakeHeld ==
  ASSUME NEW B, 0 \notin B, NEW num, NEW free, NEW gone,
         Apart(num, free, gone, B), NEW o \in Owner, num[o] = 0, NEW b \in free,
         NEW new, \A p \in Owner : new[p] = IF p = o THEN b ELSE num[p]
  PROVE  Apart(new, free \ {b}, gone, B)
<1>1. b \in B /\ b \notin gone /\ b # 0 /\ \A p \in Owner : num[p] # b
  BY DEF Apart
<1>2. \A p, q \in Owner : new[p] = new[q] /\ new[p] # 0 => p = q
  BY <1>1 DEF Apart
<1>3. \A p \in Owner : new[p] \notin gone
  BY <1>1 DEF Apart
<1>4. free \ {b} = B \ (gone \cup {new[p] : p \in Owner})
  <2>1. ASSUME NEW c \in B, c \notin gone, c # b, \A p \in Owner : num[p] # c
        PROVE  \A p \in Owner : new[p] # c
    BY <2>1
  <2>2. ASSUME NEW c \in B, c \notin gone, \A p \in Owner : new[p] # c
        PROVE  c # b /\ \A p \in Owner : num[p] # c
    <3>1. c # b
      BY <2>2
    <3>2. ASSUME NEW p \in Owner PROVE num[p] # c
      <4>1. CASE p = o
        <5>1. c # 0
          BY <2>2
        <5> QED
          BY <4>1, <5>1
      <4>2. CASE p # o
        BY <2>2, <4>2
      <4> QED
        BY <4>1, <4>2
    <3> QED
      BY <3>1, <3>2
  <2> QED
    BY <2>1, <2>2 DEF Apart
<1> QED
  BY <1>2, <1>3, <1>4 DEF Apart

(* or its number goes where nobody keeps it. *)
LEMMA TakeLost ==
  ASSUME NEW B, NEW num, NEW free, NEW gone, Apart(num, free, gone, B), NEW b \in free
  PROVE  Apart(num, free \ {b}, gone \cup {b}, B)
BY DEF Apart

(* Every number held is that of a block, or 0. *)
LEMMA NumbersType ==
  ASSUME NEW B, NEW ino \in [Ino -> [Slot -> B \cup {0}]], NEW dsk, NEW ind,
         ind # 0 => \A i \in 0 .. Blk - 1 : dsk[ind][i] \in B \cup {0}
  PROVE  Numbers(ino, dsk, ind) \in [Owner -> B \cup {0}]
<1>1. ASSUME NEW o \in Owner PROVE Numbers(ino, dsk, ind)[o] \in B \cup {0}
  BY Owners DEF Numbers
<1> QED
  BY <1>1 DEF Numbers

(* Writing one slot changes the number of one owner. *)
LEMMA NumbersSlot ==
  ASSUME NEW ino, NEW dsk, NEW ind, NEW f \in Ino, NEW k \in Slot, NEW new,
         \A g \in Ino, l \in Slot : g # f \/ l # k => new[g][l] = ino[g][l]
  PROVE  \A o \in Owner :
           Numbers(new, dsk, ind)[o] = IF o = <<f, k>> THEN new[f][k] ELSE Numbers(ino, dsk, ind)[o]
<1> SUFFICES ASSUME NEW o \in Owner
             PROVE  Numbers(new, dsk, ind)[o]
                      = IF o = <<f, k>> THEN new[f][k] ELSE Numbers(ino, dsk, ind)[o]
  OBVIOUS
<1>1. CASE o[1] \in Ino /\ o[2] \in Slot /\ o = <<o[1], o[2]>> /\ o[1] # NIno
  BY <1>1 DEF Numbers
<1>2. CASE o[1] = NIno /\ o[2] \in 0 .. Blk - 1 /\ o = <<o[1], o[2]>>
  <2>1. o # <<f, k>>
    BY <1>2, Owners
  <2> QED
    BY <1>2, <2>1 DEF Numbers
<1> QED
  BY <1>1, <1>2, Owners

------------------------------------------------------------------------------
(* A sound image *)

(* The records the image builder works on, for the blocks B of a disk. *)
Images(B) ==
  [inode : [Ino -> [Slot -> B \cup {0}]], size : [Ino -> Nat], bitmap : SUBSET B,
   inodes : SUBSET Ino, disk : [B -> [0 .. Blk - 1 -> Word]], failed : BOOLEAN]

(* Blocks are held apart, those of the root directory and of the file, the *)
(* only inode that may have an indirect block.                             *)
ImageApart(img, B) ==
  /\ Apart(Numbers(img.inode, img.disk, img.inode[TheFile][Direct]), img.bitmap, {}, B)
  /\ \A f \in Ino \ {TheFile} : img.inode[f][Direct] = 0
  /\ img.inode[TheFile][Direct] # 0 =>
       \A i \in 0 .. Blk - 1 : img.disk[img.inode[TheFile][Direct]][i] \in B \cup {0}

(* The directory holds the name, the file the text it was given, as far as *)
(* it fits.                                                                *)
ImageHolds(img, text) ==
  /\ img.size[Root] = Blk
  /\ img.inode[Root][0] # 0 /\ img.disk[img.inode[Root][0]][0] = TheFile
  /\ img.size[TheFile] <= Len(text)
  /\ \A u \in 0 .. img.size[TheFile] - 1 :
       /\ NumberAt(img, TheFile, u \div Blk) # 0
       /\ img.disk[NumberAt(img, TheFile, u \div Blk)][u % Blk] = text[u + 1]

(* The image of this behaviour is sound. It never changes. *)
ImageOK ==
  /\ Blocks \subseteq Block /\ image \in Images(Blocks)
  /\ content \in Seq(Value)
  /\ ImageApart(image, Blocks) /\ ImageHolds(image, content)

(* The indirect block of the file, as on the disk. *)
Indirect == image.inode[TheFile][Direct]

------------------------------------------------------------------------------
(* A call of file_write *)

(* The records of a file_write in progress. *)
Calls ==
  [inode : [Ino -> [Slot -> Blocks \cup {0}]], bitmap : SUBSET Blocks,
   disk : [Blocks -> [0 .. Blk - 1 -> Word]], pos : Nat,
   at : [kind : {"wild", "slot", "copy"}, n : Nat], failed : BOOLEAN, wild : BOOLEAN,
   data : {<<>>}, astray : SUBSET Place, lost : SUBSET Blocks]

(* Blocks stay apart, the image's own blocks stay where they are, nothing  *)
(* is written into its indirect block, and diskno does not lead there.     *)
DiskApart(ino, free, dsk, gone) ==
  /\ Apart(Numbers(ino, dsk, Indirect), free, gone, Blocks)
  /\ \A f \in Ino, k \in Slot : image.inode[f][k] # 0 => ino[f][k] = image.inode[f][k]
  /\ Indirect # 0 => dsk[Indirect] = image.disk[Indirect]

(* So it is for the copies a call in progress works on; diskno is a direct *)
(* slot, or a copied word that does not name the indirect block.           *)
CallApart(s) ==
  /\ DiskApart(s.inode, s.bitmap, s.disk, s.lost)
  /\ s.at.kind = "slot" => s.at.n \in 0 .. Direct - 1
  /\ s.at.kind = "copy" /\ Indirect # 0 => s.at.n # Indirect

(* A block, or 0, is a number. *)
LEMMA NumberIn ==
  ASSUME NEW B, B \subseteq Nat, NEW b \in B \cup {0}
  PROVE  b \in Nat
OBVIOUS

(* The fields of a sound image. *)
LEMMA ImageFacts ==
  ASSUME ImageOK
  PROVE  /\ Blocks \subseteq Nat /\ 0 \notin Blocks
         /\ image.inode \in [Ino -> [Slot -> Blocks \cup {0}]]
         /\ image.disk \in [Blocks -> [0 .. Blk - 1 -> Word]]
         /\ image.size \in [Ino -> Nat] /\ image.bitmap \subseteq Blocks
         /\ Indirect \in Blocks \cup {0} /\ Indirect \in Nat
         /\ Indirect # 0 => \A i \in 0 .. Blk - 1 : image.disk[Indirect][i] \in Blocks \cup {0}
<1>1. /\ Blocks \subseteq Nat /\ 0 \notin Blocks
      /\ image.inode \in [Ino -> [Slot -> Blocks \cup {0}]]
      /\ image.disk \in [Blocks -> [0 .. Blk - 1 -> Word]]
      /\ image.size \in [Ino -> Nat] /\ image.bitmap \subseteq Blocks
  BY Members DEF ImageOK, Images
<1>2. Indirect \in Blocks \cup {0} /\ Indirect \in Nat
  <2>1. image.inode[TheFile] \in [Slot -> Blocks \cup {0}]
    BY <1>1, Members
  <2>2. image.inode[TheFile][Direct] \in Blocks \cup {0}
    BY <2>1, Members
  <2> QED
    BY <1>1, <2>2, NumberIn DEF Indirect
<1>3. Indirect # 0 => \A i \in 0 .. Blk - 1 : image.disk[Indirect][i] \in Blocks \cup {0}
  BY DEF ImageOK, ImageApart, Indirect
<1> QED
  BY <1>1, <1>2, <1>3

(* Some slot of the file is filled with a free block. *)
LEMMA FillSlot ==
  ASSUME ImageOK, NEW ino, NEW free, NEW dsk, NEW gone, DiskApart(ino, free, dsk, gone),
         NEW k \in Slot, ino[TheFile][k] = 0, NEW b \in free, NEW new,
         \A f \in Ino, l \in Slot :
           new[f][l] = IF f = TheFile /\ l = k THEN b ELSE ino[f][l]
  PROVE  DiskApart(new, free \ {b}, dsk, gone)
<1> DEFINE num == Numbers(ino, dsk, Indirect)
<1>1. TheFile \in Ino
  BY Members
<1>4. <<TheFile, k>> \in Owner /\ num[<<TheFile, k>>] = 0
  BY <1>1, Owners, NumbersAre
<1>5. \A o \in Owner :
        Numbers(new, dsk, Indirect)[o] = IF o = <<TheFile, k>> THEN b ELSE num[o]
  <2>1. new[TheFile][k] = b /\ \A f \in Ino, l \in Slot : f # TheFile \/ l # k => new[f][l] = ino[f][l]
    BY <1>1
  <2> QED
    BY <1>1, <2>1, NumbersSlot
<1>6. Apart(Numbers(new, dsk, Indirect), free \ {b}, gone, Blocks)
  <2> HIDE DEF num
  <2>1. 0 \notin Blocks
    BY ImageFacts
  <2>2. Apart(num, free, gone, Blocks)
    BY DEF DiskApart, num
  <2> QED
    BY <1>4, <1>5, <2>1, <2>2, TakeHeld
<1>7. \A f \in Ino, l \in Slot : image.inode[f][l] # 0 => new[f][l] = image.inode[f][l]
  <2>1. ASSUME NEW f \in Ino, NEW l \in Slot, image.inode[f][l] # 0
        PROVE  new[f][l] = image.inode[f][l]
    <3>1. ino[f][l] = image.inode[f][l]
      BY <2>1 DEF DiskApart
    <3>2. ~(f = TheFile /\ l = k)
      BY <2>1, <3>1
    <3> QED
      BY <3>1, <3>2
  <2> QED
    BY <2>1
<1>8. Indirect # 0 => dsk[Indirect] = image.disk[Indirect]
  BY DEF DiskApart
<1> QED
  BY <1>6, <1>7, <1>8 DEF DiskApart

(* The fields of a call in progress. *)
LEMMA CallFields ==
  ASSUME NEW s \in Calls
  PROVE  /\ s.inode \in [Ino -> [Slot -> Blocks \cup {0}]] /\ s.bitmap \subseteq Blocks
         /\ s.disk \in [Blocks -> [0 .. Blk - 1 -> Word]] /\ s.pos \in Nat
         /\ s.at.kind \in {"wild", "slot", "copy"} /\ s.at.n \in Nat
         /\ s.failed \in BOOLEAN /\ s.wild \in BOOLEAN
         /\ s.astray \subseteq Place /\ s.lost \subseteq Blocks
BY DEF Calls

(* walk_block fetches a block for the indirect block, if it must and can. *)
WithIndirect(s) ==
  IF s.inode[TheFile][Direct] # 0 \/ s.bitmap = {} THEN s
  ELSE [s EXCEPT !.inode[TheFile][Direct] = Min(s.bitmap), !.bitmap = @ \ {Min(s.bitmap)}]

(* What walk_block and get_blk leave alone. *)
Grows(s, t) ==
  /\ t.disk = s.disk /\ t.pos = s.pos /\ t.failed = s.failed /\ t.wild = s.wild
  /\ t.astray = s.astray /\ t.bitmap \subseteq s.bitmap
  /\ \A f \in Ino, k \in Slot : s.inode[f][k] # 0 => t.inode[f][k] = s.inode[f][k]

(* get_blk gives a block of the disk. *)
LEMMA FreeBlock ==
  ASSUME ImageOK, NEW s \in Calls, s.bitmap # {}
  PROVE  Min(s.bitmap) \in s.bitmap /\ Min(s.bitmap) \in Blocks
<1>1. s.bitmap \in SUBSET Nat /\ s.bitmap \subseteq Blocks
  BY CallFields, ImageFacts
<1> QED
  BY <1>1, MinLemma

(* It does so without disturbing the file's image. *)
LEMMA WithIndirectKeeps ==
  ASSUME ImageOK, NEW s \in Calls, CallApart(s)
  PROVE  /\ WithIndirect(s) \in Calls /\ CallApart(WithIndirect(s)) /\ Grows(s, WithIndirect(s))
         /\ WithIndirect(s).at = s.at /\ WithIndirect(s).lost = s.lost
         /\ \A f \in Ino, k \in Slot :
              f # TheFile \/ k # Direct => WithIndirect(s).inode[f][k] = s.inode[f][k]
<1>1. CASE s.inode[TheFile][Direct] # 0 \/ s.bitmap = {}
  BY <1>1 DEF WithIndirect, Grows
<1>2. CASE s.inode[TheFile][Direct] = 0 /\ s.bitmap # {}
  <2> DEFINE b == Min(s.bitmap)
             t == [s EXCEPT !.inode[TheFile][Direct] = b, !.bitmap = @ \ {b}]
             ino == [s.inode EXCEPT ![TheFile][Direct] = b]
  <2>1. WithIndirect(s) = t
    BY <1>2 DEF WithIndirect
  <2>2. b \in s.bitmap /\ b \in Blocks
    BY <1>2, FreeBlock
  <2>3. TheFile \in Ino /\ Direct \in Slot
    BY Members
  <2> HIDE DEF b
  <2>4. \A f \in Ino, k \in Slot : ino[f][k] = IF f = TheFile /\ k = Direct THEN b ELSE s.inode[f][k]
    BY <2>3, CallFields
  <2>5. ino \in [Ino -> [Slot -> Blocks \cup {0}]]
    BY <2>2, <2>3, CallFields
  <2>6. /\ t.inode = ino /\ t.bitmap = s.bitmap \ {b} /\ t.disk = s.disk /\ t.pos = s.pos
        /\ t.failed = s.failed /\ t.wild = s.wild /\ t.astray = s.astray /\ t.at = s.at
        /\ t.lost = s.lost
    BY DEF Calls
  <2>7. t \in Calls
    <3> HIDE DEF ino
    <3>1. t = [s EXCEPT !.inode = ino, !.bitmap = s.bitmap \ {b}]
      BY DEF ino, Calls
    <3> QED
      BY <3>1, <2>5 DEF Calls
  <2> HIDE DEF t, ino
  <2>8. DiskApart(ino, s.bitmap \ {b}, s.disk, s.lost)
    <3>1. DiskApart(s.inode, s.bitmap, s.disk, s.lost)
      BY DEF CallApart
    <3> QED
      BY <1>2, <2>2, <2>3, <2>4, <3>1, FillSlot
  <2>9. CallApart(t)
    BY <2>6, <2>8 DEF CallApart
  <2>10. \A f \in Ino, k \in Slot : f # TheFile \/ k # Direct => t.inode[f][k] = s.inode[f][k]
    BY <2>4, <2>6
  <2>11. \A f \in Ino, k \in Slot : s.inode[f][k] # 0 => t.inode[f][k] = s.inode[f][k]
    BY <1>2, <2>10
  <2> QED
    BY <2>1, <2>6, <2>7, <2>9, <2>10, <2>11 DEF Grows
<1> QED
  BY <1>1, <1>2

(* diskno leads somewhere else: nothing moves. *)
LEMMA Redirected ==
  ASSUME NEW s \in Calls, CallApart(s), NEW kind \in {"slot", "copy"}, NEW n \in Nat,
         kind = "slot" => n \in 0 .. Direct - 1,
         kind = "copy" /\ Indirect # 0 => n # Indirect
  PROVE  LET t == [s EXCEPT !.at = [kind |-> kind, n |-> n]]
         IN  /\ t \in Calls /\ CallApart(t) /\ Grows(s, t) /\ t.inode = s.inode /\ t.lost = s.lost
             /\ t.at = [kind |-> kind, n |-> n]
<1> DEFINE t == [s EXCEPT !.at = [kind |-> kind, n |-> n]]
<1>1. t \in Calls
  BY DEF Calls
<1>2. /\ t.inode = s.inode /\ t.bitmap = s.bitmap /\ t.disk = s.disk /\ t.pos = s.pos
      /\ t.failed = s.failed /\ t.wild = s.wild /\ t.astray = s.astray
      /\ t.lost = s.lost /\ t.at = [kind |-> kind, n |-> n]
  BY DEF Calls
<1> HIDE DEF t
<1>3. t.at.kind = kind /\ t.at.n = n
  BY <1>2
<1>4. CallApart(t)
  BY <1>2, <1>3 DEF CallApart
<1>5. Grows(s, t)
  BY <1>2 DEF Grows
<1>6. /\ t \in Calls /\ CallApart(t) /\ Grows(s, t) /\ t.inode = s.inode /\ t.lost = s.lost
      /\ t.at = [kind |-> kind, n |-> n]
  BY <1>1, <1>2, <1>4, <1>5
<1> QED
  BY <1>6 DEF t

(* walk_block: the slot of a direct block; the word that the image's       *)
(* indirect block has for another; or nothing, or what happens to lie in   *)
(* a block that has just become the indirect one.                          *)
LEMMA WalkKeeps ==
  ASSUME ImageOK, NEW s \in Calls, CallApart(s), NEW i \in Nat, i < Direct + Blk
  PROVE  LET w == WalkAlloc(s, TheFile, i)
         IN  /\ w \in Calls /\ CallApart(w) /\ Grows(s, w) /\ w.lost = s.lost
             /\ \A f \in Ino, k \in Slot : f # TheFile \/ k # Direct => w.inode[f][k] = s.inode[f][k]
             /\ i < Direct => w.at = [kind |-> "slot", n |-> i]
             /\ i >= Direct /\ Indirect # 0 =>
                  w.at = [kind |-> "copy", n |-> image.disk[Indirect][i - Direct]]
<1> DEFINE w == WalkAlloc(s, TheFile, i)
           t == WithIndirect(s)
           Result ==
             /\ w \in Calls /\ CallApart(w) /\ Grows(s, w) /\ w.lost = s.lost
             /\ \A f \in Ino, k \in Slot : f # TheFile \/ k # Direct => w.inode[f][k] = s.inode[f][k]
             /\ i < Direct => w.at = [kind |-> "slot", n |-> i]
             /\ i >= Direct /\ Indirect # 0 =>
                  w.at = [kind |-> "copy", n |-> image.disk[Indirect][i - Direct]]
<1>0. Direct \in Nat /\ Blk \in Nat /\ Blk > 0 /\ TheFile \in Ino /\ Direct \in Slot
  BY Sizes, Members
<1>1. CASE i < Direct
  <2>1. w = [s EXCEPT !.at = [kind |-> "slot", n |-> i]]
    BY <1>1 DEF WalkAlloc, InSlot
  <2>2. i \in 0 .. Direct - 1
    BY <1>0, <1>1
  <2> HIDE DEF w
  <2>3. /\ w \in Calls /\ CallApart(w) /\ Grows(s, w) /\ w.inode = s.inode /\ w.lost = s.lost
        /\ w.at = [kind |-> "slot", n |-> i]
    BY <2>1, <2>2, Redirected
  <2>4. Result
    BY <1>0, <1>1, <2>3
  <2> QED
    BY <2>4 DEF w
<1>2. CASE i >= Direct
  <2>1. /\ t \in Calls /\ CallApart(t) /\ Grows(s, t) /\ t.at = s.at /\ t.lost = s.lost
        /\ \A f \in Ino, k \in Slot : f # TheFile \/ k # Direct => t.inode[f][k] = s.inode[f][k]
    BY WithIndirectKeeps
  <2>2. w = IF t.inode[TheFile][Direct] = 0 THEN t
            ELSE [t EXCEPT !.at = [kind |-> "copy", n |-> t.disk[t.inode[TheFile][Direct]][i - Direct]]]
    <3>1. ~(i < Direct)
      BY <1>0, <1>2
    <3> QED
      BY <3>1 DEF WalkAlloc, InCopy, WithIndirect
  <2>3. Indirect # 0 => t.inode[TheFile][Direct] = Indirect /\ t.disk[Indirect] = image.disk[Indirect]
    BY <1>0, <2>1 DEF CallApart, DiskApart, Indirect
  <2> HIDE DEF w, t
  <2>4. CASE t.inode[TheFile][Direct] = 0
    <3>1. w = t /\ Indirect = 0
      BY <2>2, <2>3, <2>4
    <3>2. Result
      BY <1>0, <1>2, <2>1, <3>1
    <3> QED
      BY <3>2 DEF w
  <2>5. CASE t.inode[TheFile][Direct] # 0
    <3> DEFINE n == t.disk[t.inode[TheFile][Direct]][i - Direct]
    <3>1. w = [t EXCEPT !.at = [kind |-> "copy", n |-> n]]
      BY <2>2, <2>5
    <3>2. i - Direct \in 0 .. Blk - 1
      BY <1>0, <1>2
    <3>3. n \in Nat
      <4>1. t.inode[TheFile] \in [Slot -> Blocks \cup {0}]
        BY <1>0, <2>1, CallFields
      <4>2. t.inode[TheFile][Direct] \in Blocks
        BY <1>0, <2>5, <4>1
      <4>3. t.disk[t.inode[TheFile][Direct]] \in [0 .. Blk - 1 -> Word]
        BY <2>1, <4>2, CallFields
      <4>4. n \in Word
        BY <3>2, <4>3
      <4> QED
        BY <4>4, Members
    <3>4. Indirect # 0 => n = image.disk[Indirect][i - Direct]
      BY <2>3
    <3> HIDE DEF n
    <3>5. Indirect # 0 => n # Indirect
      <4> SUFFICES ASSUME Indirect # 0, n = Indirect PROVE FALSE
        OBVIOUS
      <4> DEFINE num == Numbers(t.inode, t.disk, Indirect)
      <4>1. Apart(num, t.bitmap, t.lost, Blocks)
        BY <2>1 DEF CallApart, DiskApart
      <4>2. num[<<TheFile, Direct>>] = Indirect
        BY <1>0, <2>3, NumbersAre
      <4>3. num[<<NIno, i - Direct>>] = Indirect
        BY <2>3, <3>2, <3>4, NumbersAre
      <4>4. /\ <<TheFile, Direct>> \in Owner /\ <<NIno, i - Direct>> \in Owner
            /\ <<TheFile, Direct>> # <<NIno, i - Direct>>
        BY <1>0, <3>2, Owners
      <4> HIDE DEF num
      <4> QED
        BY <4>1, <4>2, <4>3, <4>4 DEF Apart
    <3>6. /\ w \in Calls /\ CallApart(w) /\ Grows(t, w) /\ w.inode = t.inode /\ w.lost = t.lost
          /\ w.at = [kind |-> "copy", n |-> n]
      BY <2>1, <3>1, <3>3, <3>5, Redirected
    <3>7. Grows(s, w)
      BY <2>1, <3>6 DEF Grows
    <3>8. Result
      BY <1>0, <1>2, <2>1, <3>4, <3>6, <3>7
    <3> QED
      BY <3>8 DEF w
  <2> QED
    BY <2>4, <2>5
<1> QED
  BY <1>0, <1>1, <1>2

(* The image's indirect block is held. *)
LEMMA IndirectHeld ==
  ASSUME ImageOK, NEW ino, NEW free, NEW dsk, NEW gone, DiskApart(ino, free, dsk, gone), Indirect # 0
  PROVE  /\ ino[TheFile][Direct] = Indirect /\ Indirect \notin free /\ Indirect \notin gone
         /\ \A k \in Slot : k # Direct => ino[TheFile][k] # Indirect
<1>1. TheFile \in Ino /\ Direct \in Slot
  BY Members
<1>2. ino[TheFile][Direct] = Indirect
  BY <1>1 DEF DiskApart, Indirect
<1> DEFINE num == Numbers(ino, dsk, Indirect)
<1>3. Apart(num, free, gone, Blocks)
  BY DEF DiskApart
<1>4. <<TheFile, Direct>> \in Owner /\ num[<<TheFile, Direct>>] = Indirect
  BY <1>1, <1>2, Owners, NumbersAre
<1>5. Indirect \notin free /\ Indirect \notin gone
  <2> HIDE DEF num
  <2> QED
    BY <1>3, <1>4 DEF Apart
<1>6. ASSUME NEW k \in Slot, k # Direct, ino[TheFile][k] = Indirect PROVE FALSE
  <2>1. num[<<TheFile, k>>] = Indirect
    BY <1>1, <1>6, NumbersAre
  <2>2. <<TheFile, k>> \in Owner /\ <<TheFile, k>> # <<TheFile, Direct>>
    BY <1>1, <1>6, Owners
  <2> HIDE DEF num
  <2> QED
    BY <1>3, <1>4, <2>1, <2>2 DEF Apart
<1> QED
  BY <1>2, <1>5, <1>6

(* get_blk: the block goes to the slot, or to the copy and is lost. *)
LEMMA AttachKeeps ==
  ASSUME ImageOK, NEW s \in Calls, CallApart(s), s.at.kind \in {"slot", "copy"},
         Pointed(s, TheFile) = 0
  PROVE  LET a == Attach(s, TheFile)
         IN  /\ a \in Calls /\ CallApart(a) /\ Grows(s, a)
             /\ s.bitmap = {} => a = s
             /\ s.bitmap # {} => Pointed(a, TheFile) \in s.bitmap
             /\ a.at.kind = s.at.kind /\ (s.at.kind = "slot" => a.at = s.at)
             /\ \A f \in Ino, k \in Slot :
                  ~(f = TheFile /\ s.at.kind = "slot" /\ k = s.at.n) => a.inode[f][k] = s.inode[f][k]
<1> DEFINE a == Attach(s, TheFile)
           Result ==
             /\ a \in Calls /\ CallApart(a) /\ Grows(s, a)
             /\ s.bitmap = {} => a = s
             /\ s.bitmap # {} => Pointed(a, TheFile) \in s.bitmap
             /\ a.at.kind = s.at.kind /\ (s.at.kind = "slot" => a.at = s.at)
             /\ \A f \in Ino, k \in Slot :
                  ~(f = TheFile /\ s.at.kind = "slot" /\ k = s.at.n) => a.inode[f][k] = s.inode[f][k]
<1> SUFFICES Result
  OBVIOUS
<1>1. CASE s.bitmap = {}
  <2>1. a = s
    BY <1>1 DEF Attach
  <2> HIDE DEF a
  <2> QED
    BY <1>1, <2>1 DEF Grows
<1>2. CASE s.bitmap # {}
  <2>0. PICK b : b = Min(s.bitmap)
    OBVIOUS
  <2>1. b \in s.bitmap /\ b \in Blocks /\ b \in Nat
    BY <1>2, <2>0, FreeBlock, ImageFacts
  <2>2. DiskApart(s.inode, s.bitmap, s.disk, s.lost)
    BY DEF CallApart
  <2>3. CASE s.at.kind = "slot"
    <3>0. s.at.n \in Slot /\ TheFile \in Ino /\ s.at.n \in 0 .. Direct - 1
      BY <2>3, Sizes, Members DEF CallApart, Slot
    <3> DEFINE ino == [s.inode EXCEPT ![TheFile][s.at.n] = b]
    <3>1. a = [s EXCEPT !.inode = ino, !.bitmap = s.bitmap \ {b}]
      BY <1>2, <2>0, <2>3 DEF Attach, Calls
    <3>2. \A f \in Ino, k \in Slot : ino[f][k] = IF f = TheFile /\ k = s.at.n THEN b ELSE s.inode[f][k]
      BY <3>0, CallFields
    <3>3. ino \in [Ino -> [Slot -> Blocks \cup {0}]]
      BY <2>1, <3>0, CallFields
    <3> HIDE DEF ino, a
    <3>4. a \in Calls
      BY <3>1, <3>3 DEF Calls
    <3>5. /\ a.inode = ino /\ a.bitmap = s.bitmap \ {b} /\ a.disk = s.disk /\ a.pos = s.pos
          /\ a.failed = s.failed /\ a.wild = s.wild /\ a.astray = s.astray /\ a.at = s.at
          /\ a.lost = s.lost
      BY <3>1 DEF Calls
    <3>6. s.inode[TheFile][s.at.n] = 0
      BY <2>3 DEF Pointed
    <3>7. DiskApart(ino, s.bitmap \ {b}, s.disk, s.lost)
      BY <2>1, <2>2, <3>0, <3>2, <3>6, FillSlot
    <3>8. CallApart(a)
      BY <2>3, <3>0, <3>5, <3>7 DEF CallApart
    <3>9. \A f \in Ino, k \in Slot : s.inode[f][k] # 0 => a.inode[f][k] = s.inode[f][k]
      BY <3>2, <3>5, <3>6
    <3>10. Pointed(a, TheFile) = b
      BY <2>3, <3>0, <3>2, <3>5 DEF Pointed
    <3>11. Grows(s, a)
      BY <3>5, <3>9 DEF Grows
    <3> QED
      BY <1>2, <2>1, <2>3, <3>2, <3>4, <3>5, <3>8, <3>10, <3>11
  <2>4. CASE s.at.kind = "copy"
    <3>1. a = [s EXCEPT !.at = [kind |-> "copy", n |-> b], !.bitmap = s.bitmap \ {b},
                        !.lost = s.lost \cup {b}]
      <4>1. s.at = [kind |-> "copy", n |-> s.at.n]
        BY <2>4 DEF Calls
      <4>2. [s.at EXCEPT !.n = b] = [kind |-> "copy", n |-> b]
        BY <4>1
      <4>3. a = [s EXCEPT !.bitmap = s.bitmap \ {b}, !.at = [s.at EXCEPT !.n = b],
                          !.lost = s.lost \cup {b}]
        BY <1>2, <2>0, <2>4 DEF Attach, Calls
      <4> HIDE DEF a
      <4> QED
        BY <4>2, <4>3 DEF Calls
    <3> HIDE DEF a
    <3>2. a \in Calls
      BY <2>1, <3>1 DEF Calls
    <3>3. /\ a.inode = s.inode /\ a.bitmap = s.bitmap \ {b} /\ a.disk = s.disk /\ a.pos = s.pos
          /\ a.failed = s.failed /\ a.wild = s.wild /\ a.astray = s.astray
          /\ a.at.kind = "copy" /\ a.at.n = b /\ a.lost = s.lost \cup {b}
      BY <3>1 DEF Calls
    <3>4. Apart(Numbers(s.inode, s.disk, Indirect), s.bitmap \ {b}, s.lost \cup {b}, Blocks)
      BY <2>1, <2>2, TakeLost DEF DiskApart
    <3>5. DiskApart(s.inode, s.bitmap \ {b}, s.disk, s.lost \cup {b})
      BY <2>2, <3>4 DEF DiskApart
    <3>6. Indirect # 0 => b # Indirect
      BY <2>1, <2>2, IndirectHeld
    <3>7. CallApart(a)
      BY <3>3, <3>5, <3>6 DEF CallApart
    <3>8. Pointed(a, TheFile) = b
      BY <3>3 DEF Pointed
    <3>9. Grows(s, a)
      BY <3>3 DEF Grows
    <3> QED
      BY <1>2, <2>1, <2>4, <3>2, <3>3, <3>7, <3>8, <3>9
  <2> QED
    BY <2>3, <2>4
<1> QED
  BY <1>1, <1>2

(* The data never go to the image's indirect block. *)
LEMMA TargetApart ==
  ASSUME ImageOK, NEW s \in Calls, CallApart(s), s.at.kind \in {"slot", "copy"}, Indirect # 0
  PROVE  Pointed(s, TheFile) # Indirect
<1>1. CASE s.at.kind = "slot"
  <2>1. s.at.n \in Slot /\ s.at.n # Direct
    BY <1>1, Sizes DEF CallApart, Slot
  <2>2. DiskApart(s.inode, s.bitmap, s.disk, s.lost)
    BY DEF CallApart
  <2> QED
    BY <1>1, <2>1, <2>2, IndirectHeld DEF Pointed
<1>2. CASE s.at.kind = "copy"
  BY <1>2 DEF CallApart, Pointed
<1> QED
  BY <1>1, <1>2

(* A call: at position off, of count words from memory. *)
IsCall(off, count) == off \in Nat /\ count \in Nat /\ count > 0 /\ off + count <= MaxWord

(* A round moves at least a word, and stays within its block. *)
LEMMA ChunkIs ==
  ASSUME NEW pos \in Nat, NEW count \in Nat, count > 0
  PROVE  /\ pos % Blk \in 0 .. Blk - 1
         /\ Chunk(pos, count) \in Nat /\ Chunk(pos, count) > 0
         /\ Chunk(pos, count) <= Blk - (pos % Blk) /\ Chunk(pos, count) <= count
<1>1. pos % Blk \in 0 .. Blk - 1
  BY Sizes, DivModRange
<1> DEFINE rest == Blk - (pos % Blk)
<1>2. rest \in Nat /\ rest > 0
  BY <1>1, Sizes
<1> HIDE DEF rest
<1>3. {rest, count} \in SUBSET Nat
  BY <1>2
<1>4. Min({rest, count}) \in {rest, count} /\ \A k \in {rest, count} : Min({rest, count}) <= k
  BY <1>3, MinLemma
<1>5. Chunk(pos, count) = Min({rest, count})
  BY DEF Chunk, rest
<1>6. Chunk(pos, count) \in Nat /\ Chunk(pos, count) > 0 /\ Chunk(pos, count) <= rest
      /\ Chunk(pos, count) <= count
  BY <1>2, <1>4, <1>5
<1> QED
  BY <1>1, <1>6 DEF rest

(* The numbers do not depend on the blocks of data. *)
LEMMA NumbersDisk ==
  ASSUME NEW ino, NEW dsk, NEW new, NEW ind, ind # 0 => new[ind] = dsk[ind]
  PROVE  Numbers(ino, new, ind) = Numbers(ino, dsk, ind)
<1>1. ASSUME NEW o \in Owner PROVE Numbers(ino, new, ind)[o] = Numbers(ino, dsk, ind)[o]
  BY DEF Numbers
<1> QED
  BY <1>1 DEF Numbers

(* It reads its words from memory that Write describes. *)
LEMMA MemoryIndex ==
  ASSUME NEW off \in Nat, NEW count \in Nat, NEW p \in Nat, NEW size \in Nat, NEW cur \in 0 .. size - 1,
         NEW n \in Nat, n <= size - cur, p >= off, p < off + count, NEW i \in cur .. cur + n - 1
  PROVE  p - off + i - cur + 1 \in 1 .. count + size - 1
OBVIOUS

(* r is s after its round has stored. *)
Stored(r, s, b, off, count, memory) ==
  /\ r \in Calls /\ CallApart(r)
  /\ r.inode = s.inode /\ r.astray = s.astray /\ r.pos = s.pos + Chunk(s.pos, count)
  /\ \A c \in Blocks, i \in 0 .. Blk - 1 :
       r.disk[c][i] = IF c = b /\ i \in s.pos % Blk .. (s.pos % Blk) + Chunk(s.pos, count) - 1
                      THEN memory[s.pos - off + i - (s.pos % Blk) + 1] ELSE s.disk[c][i]

(* Store changes one block, which is never the indirect block. *)
LEMMA StoreKeeps ==
  ASSUME ImageOK, NEW off, NEW count, IsCall(off, count), NEW memory \in [1 .. count + Blk - 1 -> Value],
         NEW s \in Calls, CallApart(s), s.pos >= off, s.pos < off + count,
         NEW b, Indirect # 0 => b # Indirect
  PROVE  Stored(Store(s, b, off, count, memory), s, b, off, count, memory)
<1> DEFINE t == Store(s, b, off, count, memory)
           n == Chunk(s.pos, count)
           cur == s.pos % Blk
           block == [i \in 0..Blk-1 |-> IF i \in cur..cur+n-1 THEN memory[s.pos - off + i - cur + 1]
                                        ELSE s.disk[b][i]]
           dsk == [s.disk EXCEPT ![b] = block]
<1>1. /\ cur \in 0 .. Blk - 1 /\ n \in Nat /\ n > 0 /\ n <= Blk - cur /\ n <= count
      /\ off \in Nat /\ count \in Nat /\ s.pos \in Nat /\ Blk \in Nat
  BY ChunkIs, CallFields, Sizes DEF IsCall
<1>2. t = [s EXCEPT !.disk = dsk, !.pos = s.pos + n]
  BY DEF Store, Calls
<1>3. dsk \in [Blocks -> [0 .. Blk - 1 -> Word]]
  <2>1. ASSUME b \in Blocks, NEW i \in 0 .. Blk - 1 PROVE block[i] \in Word
    <3>1. CASE i \in cur .. cur + n - 1
      <4>1. s.pos - off + i - cur + 1 \in 1 .. count + Blk - 1
        <5> HIDE DEF n, cur
        <5> QED
          BY <1>1, <3>1, MemoryIndex
      <4>2. memory[s.pos - off + i - cur + 1] \in Value
        BY <4>1
      <4> QED
        BY <3>1, <4>2, Members
    <3>2. CASE i \notin cur .. cur + n - 1
      <4>1. s.disk[b] \in [0 .. Blk - 1 -> Word]
        BY <2>1, CallFields
      <4> QED
        BY <3>2, <4>1
    <3> QED
      BY <3>1, <3>2
  <2>2. CASE b \in Blocks
    <3>1. block \in [0 .. Blk - 1 -> Word]
      BY <2>1, <2>2
    <3> HIDE DEF block
    <3> QED
      BY <3>1, CallFields
  <2>3. CASE b \notin Blocks
    <3>1. dsk = s.disk
      BY <2>3, CallFields
    <3> QED
      BY <3>1, CallFields
  <2> QED
    BY <2>2, <2>3
<1>4. \A c \in Blocks : dsk[c] = IF c = b THEN block ELSE s.disk[c]
  BY CallFields
<1>5. \A c \in Blocks, i \in 0 .. Blk - 1 :
        dsk[c][i] = IF c = b /\ i \in cur .. cur + n - 1
                    THEN memory[s.pos - off + i - cur + 1] ELSE s.disk[c][i]
  <2>1. \A i \in 0 .. Blk - 1 :
          block[i] = IF i \in cur .. cur + n - 1
                     THEN memory[s.pos - off + i - cur + 1] ELSE s.disk[b][i]
    OBVIOUS
  <2> HIDE DEF n, cur, block, dsk
  <2> QED
    BY <1>4, <2>1
<1>6. s.pos + n \in Nat
  BY <1>1
<1>7. Indirect # 0 => dsk[Indirect] = s.disk[Indirect]
  BY <1>4, ImageFacts
<1> HIDE DEF t, n, cur, block, dsk
<1>8. t \in Calls
  BY <1>2, <1>3, <1>6 DEF Calls
<1>9. /\ t.inode = s.inode /\ t.bitmap = s.bitmap /\ t.disk = dsk /\ t.pos = s.pos + n
      /\ t.failed = s.failed /\ t.wild = s.wild /\ t.astray = s.astray /\ t.at = s.at
      /\ t.lost = s.lost
  BY <1>2 DEF Calls
<1>10. CallApart(t)
  <2>1. Numbers(s.inode, dsk, Indirect) = Numbers(s.inode, s.disk, Indirect)
    BY <1>7, NumbersDisk
  <2>2. DiskApart(s.inode, s.bitmap, dsk, s.lost)
    BY <1>7, <2>1 DEF CallApart, DiskApart
  <2> QED
    BY <1>9, <2>2 DEF CallApart
<1>11. Stored(t, s, b, off, count, memory)
  BY <1>5, <1>8, <1>9, <1>10 DEF Stored, n, cur
<1> QED
  BY <1>11 DEF t

------------------------------------------------------------------------------
(* What a position of a file holds *)

(* The block of a position. *)
NumberOf(ino, gu) ==
  IF gu[2] \div Blk < Direct THEN ino[gu[1]][gu[2] \div Blk]
  ELSE IF Indirect = 0 THEN 0 ELSE image.disk[Indirect][(gu[2] \div Blk) - Direct]

(* The block and the offset of a position. *)
LEMMA PlaceFacts ==
  ASSUME NEW gu \in Place
  PROVE  /\ gu = <<gu[1], gu[2]>> /\ gu[1] \in {Root, TheFile} /\ gu[1] \in Ino /\ gu[2] \in Nat
         /\ gu[2] \div Blk \in Nat /\ gu[2] \div Blk < Direct + Blk
         /\ gu[2] % Blk \in 0 .. Blk - 1
         /\ gu[2] \div Blk < Direct \/ gu[1] = TheFile
<1>1. gu = <<gu[1], gu[2]>> /\ \/ gu[1] = TheFile /\ gu[2] \in 0 .. MaxWord - 1
                               \/ gu[1] = Root /\ gu[2] = 0
  BY DEF Place, Position
<1>2. gu[2] \in Nat /\ gu[1] \in Ino
  BY <1>1, Members, Sizes
<1>3. gu[2] \div Blk \in Nat /\ gu[2] % Blk \in 0 .. Blk - 1
  BY <1>2, Sizes, DivModRange
<1>4. CASE gu[2] = 0
  <2>1. 0 < Blk * 1 /\ Blk \in Nat /\ 1 \in Nat /\ 0 \in Nat /\ Blk > 0
    BY Sizes
  <2>2. 0 \div Blk < 1
    BY <2>1, BlockBound
  <2>3. gu[2] \div Blk < 1
    BY <1>4, <2>2
  <2> QED
    BY <1>1, <1>2, <1>3, <2>3, Sizes
<1>5. CASE gu[1] = TheFile /\ gu[2] \in 0 .. MaxWord - 1
  <2>1. Direct + Blk \in Nat /\ Blk \in Nat /\ Blk > 0
    BY Sizes
  <2>2. gu[2] < Blk * (Direct + Blk)
    BY <1>5, Sizes
  <2>3. gu[2] \div Blk < Direct + Blk
    BY <1>2, <2>1, <2>2, BlockBound
  <2> QED
    BY <1>1, <1>2, <1>3, <1>5, <2>3
<1> QED
  BY <1>1, <1>4, <1>5

(* Proper of the model is that number. *)
LEMMA ProperIs ==
  ASSUME ImageOK, NEW s, NEW gu \in Place
  PROVE  Proper(s, gu) = NumberOf(s.inode, gu)
<1>1. CASE gu[2] \div Blk < Direct
  BY <1>1 DEF Proper, NumberOf
<1>2. CASE ~(gu[2] \div Blk < Direct)
  <2>1. gu[1] = TheFile
    BY <1>2, PlaceFacts
  <2> QED
    BY <1>2, <2>1 DEF Proper, NumberOf, NumberAt, Indirect
<1> QED
  BY <1>1, <1>2

(* Its owner. *)
OwnerOf(gu) ==
  IF gu[2] \div Blk < Direct THEN <<gu[1], gu[2] \div Blk>> ELSE <<NIno, (gu[2] \div Blk) - Direct>>

(* An owner holds it. *)
LEMMA OwnerIs ==
  ASSUME ImageOK, NEW ino, NEW dsk, Indirect # 0 => dsk[Indirect] = image.disk[Indirect], NEW gu \in Place
  PROVE  /\ OwnerOf(gu) \in Owner /\ OwnerOf(gu) # <<TheFile, Direct>>
         /\ Numbers(ino, dsk, Indirect)[OwnerOf(gu)] = NumberOf(ino, gu)
<1> DEFINE i == gu[2] \div Blk
<1>1. gu[1] \in Ino /\ i \in Nat /\ i < Direct + Blk /\ Direct \in Nat /\ Blk \in Nat
  BY PlaceFacts, Sizes
<1> HIDE DEF i
<1>2. CASE i < Direct
  <2>1. i \in Slot /\ i # Direct
    BY <1>1, <1>2 DEF Slot
  <2>2. OwnerOf(gu) = <<gu[1], i>> /\ NumberOf(ino, gu) = ino[gu[1]][i]
    BY <1>2 DEF OwnerOf, NumberOf, i
  <2> QED
    BY <1>1, <2>1, <2>2, Owners, NumbersAre
<1>3. CASE ~(i < Direct)
  <2>1. i - Direct \in 0 .. Blk - 1
    BY <1>1, <1>3
  <2>2. /\ OwnerOf(gu) = <<NIno, i - Direct>>
        /\ NumberOf(ino, gu) = IF Indirect = 0 THEN 0 ELSE image.disk[Indirect][i - Direct]
    BY <1>3 DEF OwnerOf, NumberOf, i
  <2>3. TheFile \in Ino /\ Direct \in Slot
    BY Members
  <2> QED
    BY <2>1, <2>2, <2>3, Owners, NumbersAre
<1> QED
  BY <1>2, <1>3

(* Positions with one block lie in the same block of the same file; their  *)
(* block is neither free nor lost nor the indirect one.                    *)
LEMMA NumberApart ==
  ASSUME ImageOK, NEW ino, NEW free, NEW dsk, NEW gone, DiskApart(ino, free, dsk, gone),
         NEW gu \in Place, NumberOf(ino, gu) # 0
  PROVE  /\ NumberOf(ino, gu) \notin free /\ NumberOf(ino, gu) # Indirect
         /\ \A hv \in Place : NumberOf(ino, hv) = NumberOf(ino, gu) =>
              hv[1] = gu[1] /\ hv[2] \div Blk = gu[2] \div Blk
<1> DEFINE num == Numbers(ino, dsk, Indirect)
<1>1. Apart(num, free, gone, Blocks) /\ (Indirect # 0 => dsk[Indirect] = image.disk[Indirect])
  BY DEF DiskApart
<1>2. \A hv \in Place : /\ OwnerOf(hv) \in Owner /\ OwnerOf(hv) # <<TheFile, Direct>>
                        /\ num[OwnerOf(hv)] = NumberOf(ino, hv)
  BY <1>1, OwnerIs
<1>3. NumberOf(ino, gu) \notin free
  <2> HIDE DEF num
  <2> QED
    BY <1>1, <1>2 DEF Apart
<1>4. NumberOf(ino, gu) # Indirect
  <2> SUFFICES ASSUME NumberOf(ino, gu) = Indirect PROVE FALSE
    OBVIOUS
  <2>1. TheFile \in Ino /\ Direct \in Slot
    BY Members
  <2>2. ino[TheFile][Direct] = Indirect
    BY IndirectHeld
  <2>3. <<TheFile, Direct>> \in Owner /\ num[<<TheFile, Direct>>] = Indirect
    BY <2>1, <2>2, Owners, NumbersAre
  <2> HIDE DEF num
  <2> QED
    BY <1>1, <1>2, <2>3 DEF Apart
<1>5. ASSUME NEW hv \in Place, NumberOf(ino, hv) = NumberOf(ino, gu)
      PROVE  hv[1] = gu[1] /\ hv[2] \div Blk = gu[2] \div Blk
  <2>1. OwnerOf(hv) = OwnerOf(gu)
    <3> HIDE DEF num
    <3> QED
      BY <1>1, <1>2, <1>5 DEF Apart
  <2> DEFINE i == gu[2] \div Blk
             j == hv[2] \div Blk
  <2>2. /\ gu[1] \in Ino /\ hv[1] \in Ino /\ i \in Nat /\ j \in Nat /\ Direct \in Nat
        /\ i < Direct \/ gu[1] = TheFile
        /\ j < Direct \/ hv[1] = TheFile
    BY PlaceFacts, Sizes
  <2>3. /\ OwnerOf(gu) = IF i < Direct THEN <<gu[1], i>> ELSE <<NIno, i - Direct>>
        /\ OwnerOf(hv) = IF j < Direct THEN <<hv[1], j>> ELSE <<NIno, j - Direct>>
    BY DEF OwnerOf
  <2>4. gu[1] # NIno /\ hv[1] # NIno
    BY <2>2, Members, Owners
  <2> HIDE DEF i, j
  <2>5. hv[1] = gu[1] /\ i = j
    <3>1. CASE i < Direct
      BY <2>1, <2>2, <2>3, <2>4, <3>1
    <3>2. CASE ~(i < Direct)
      BY <2>1, <2>2, <2>3, <2>4, <3>2
    <3> QED
      BY <3>1, <3>2
  <2> QED
    BY <2>5 DEF i, j
<1> QED
  BY <1>3, <1>4, <1>5

(* It is that of a block of the disk, or 0. *)
LEMMA NumberInDisk ==
  ASSUME ImageOK, NEW ino \in [Ino -> [Slot -> Blocks \cup {0}]], NEW gu \in Place
  PROVE  NumberOf(ino, gu) \in Blocks \cup {0}
<1> DEFINE i == gu[2] \div Blk
<1>1. gu[1] \in Ino /\ i \in Nat /\ i < Direct + Blk /\ Direct \in Nat /\ Blk \in Nat
  BY PlaceFacts, Sizes
<1> HIDE DEF i
<1>2. CASE i < Direct
  <2>1. i \in Slot
    BY <1>1, <1>2 DEF Slot
  <2>2. ino[gu[1]] \in [Slot -> Blocks \cup {0}]
    BY <1>1
  <2>3. ino[gu[1]][i] \in Blocks \cup {0}
    BY <2>1, <2>2
  <2> QED
    BY <1>2, <2>3 DEF NumberOf, i
<1>3. CASE ~(i < Direct)
  <2>1. i - Direct \in 0 .. Blk - 1
    BY <1>1, <1>3
  <2>2. Indirect # 0 => image.disk[Indirect][i - Direct] \in Blocks \cup {0}
    BY <2>1, ImageFacts
  <2> QED
    BY <1>3, <2>2 DEF NumberOf, i
<1> QED
  BY <1>2, <1>3

(* A call was asked to write at the probe, and has come so far; *)
Moved(s, off, count) ==
  probe[1] = TheFile /\ off <= probe[2] /\ probe[2] < off + count /\ probe[2] < s.pos

(* it went beyond what it was asked to write, *)
Over(s, off, count) == probe[1] = TheFile /\ off + count <= probe[2] /\ probe[2] < s.pos

(* or nothing of the kind happened, now or before. *)
Clean(s, off, count) ==
  ~Over(s, off, count) /\ probe \notin s.astray /\ (~spilled \/ Moved(s, off, count))

(* What the probe expects at this point of a call. *)
Expected(s, off, count, memory) ==
  IF Moved(s, off, count) THEN memory[probe[2] - off + 1] ELSE written

(* The word is where the inode table and the disk place the probe. *)
HoldsAt(ino, dsk, word) ==
  NumberOf(ino, probe) # 0 /\ dsk[NumberOf(ino, probe)][probe[2] % Blk] = word

(* What is expected at this point is there. *)
CallHolds(s, off, count, memory) ==
  Clean(s, off, count) /\ Kept /\ Expected(s, off, count, memory) # -1
    => HoldsAt(s.inode, s.disk, Expected(s, off, count, memory))

(* A call under way. *)
Going(s, off, count, memory) ==
  s \in Calls /\ CallApart(s) /\ s.pos >= off /\ CallHolds(s, off, count, memory)

(* Blocks that are added disturb nothing. *)
LEMMA GrowsHolds ==
  ASSUME ImageOK, probe \in Place, NEW off, NEW count, NEW memory,
         NEW s, NEW t, Grows(s, t), CallApart(s), CallHolds(s, off, count, memory)
  PROVE  /\ CallHolds(t, off, count, memory)
         /\ NumberOf(s.inode, probe) # 0 => NumberOf(t.inode, probe) = NumberOf(s.inode, probe)
<1>1. NumberOf(s.inode, probe) # 0 => NumberOf(t.inode, probe) = NumberOf(s.inode, probe)
  <2>1. CASE probe[2] \div Blk < Direct
    <3>1. probe[1] \in Ino /\ probe[2] \div Blk \in Slot
      BY <2>1, PlaceFacts, Sizes DEF Slot
    <3> QED
      BY <2>1, <3>1 DEF Grows, NumberOf
  <2>2. CASE ~(probe[2] \div Blk < Direct)
    BY <2>2 DEF NumberOf
  <2> QED
    BY <2>1, <2>2
<1>2. t.disk = s.disk /\ t.pos = s.pos /\ t.astray = s.astray
  BY DEF Grows
<1>3. /\ Clean(t, off, count) = Clean(s, off, count)
      /\ Expected(t, off, count, memory) = Expected(s, off, count, memory)
  BY <1>2 DEF Clean, Expected, Moved, Over
<1>4. \A word : HoldsAt(s.inode, s.disk, word) => HoldsAt(t.inode, t.disk, word)
  BY <1>1, <1>2 DEF HoldsAt
<1> QED
  BY <1>1, <1>3, <1>4 DEF CallHolds

(* A block that the image has for a position of its file. *)
LEMMA ImageNumber ==
  ASSUME ImageOK, NEW gu \in Place, gu[1] = TheFile, InImage(gu)
  PROVE  NumberAt(image, TheFile, gu[2] \div Blk) # 0
<1> DEFINE q == gu[2] \div Blk
           u == q * Blk
<1>1. q \in Nat /\ Blk \in Nat /\ Blk > 0
  BY PlaceFacts, Sizes
<1>2. u \in Nat /\ u = Blk * q + 0 /\ 0 \in 0 .. Blk - 1
  BY <1>1
<1>3. u < image.size[TheFile]
  BY DEF InImage
<1> HIDE DEF q
<1>4. u \div Blk = q
  <2> HIDE DEF u
  <2> QED
    BY <1>1, <1>2, DivModUnique
<1>5. image.size[TheFile] \in Nat
  BY ImageFacts, Members
<1>6. u \in 0 .. image.size[TheFile] - 1
  BY <1>2, <1>3, <1>5
<1>7. NumberAt(image, TheFile, u \div Blk) # 0
  <2> HIDE DEF u
  <2> QED
    BY <1>6 DEF ImageOK, ImageHolds
<1> QED
  BY <1>4, <1>7 DEF q

(* The block of a position that a call can reach is one a file can have. *)
LEMMA PositionIn ==
  ASSUME NEW p \in Nat, p < MaxWord
  PROVE  p \div Blk \in Nat /\ p \div Blk < Direct + Blk
<1>1. Blk \in Nat /\ Blk > 0 /\ Direct + Blk \in Nat
  BY Sizes
<1>2. MaxWord \in Nat /\ MaxWord <= Blk * (Direct + Blk) /\ Blk * (Direct + Blk) \in Nat
  BY Sizes
<1>3. p < Blk * (Direct + Blk)
  BY <1>2
<1> QED
  BY <1>1, <1>3, BlockBound, DivModRange

(* The positions a round writes lie in the block of its first one. *)
LEMMA RoundPosition ==
  ASSUME NEW p \in Nat, NEW u \in Nat, NEW n \in Nat, n <= Blk - (p % Blk), p <= u, u < p + n
  PROVE  /\ u \div Blk = p \div Blk /\ u % Blk = (p % Blk) + (u - p)
         /\ u % Blk \in p % Blk .. (p % Blk) + n - 1
<1>1. Blk \in Nat /\ Blk > 0
  BY Sizes
<1>2. p % Blk \in 0 .. Blk - 1
  BY <1>1, DivModRange
<1>3. u - p < Blk - (p % Blk)
  <2>1. PICK c \in 0 .. Blk - 1 : c = p % Blk
    BY <1>2
  <2>2. n <= Blk - c
    BY <2>1
  <2>3. u - p < Blk - c
    BY <1>1, <2>2
  <2> QED
    BY <2>1, <2>3
<1>4. u \div Blk = p \div Blk /\ u % Blk = (p % Blk) + (u - p)
  BY <1>1, <1>3, SameBlock
<1>5. u % Blk \in p % Blk .. (p % Blk) + n - 1
  <2>1. PICK c \in 0 .. Blk - 1 : c = p % Blk
    BY <1>2
  <2>2. c + (u - p) \in c .. c + n - 1
    OBVIOUS
  <2> QED
    BY <1>4, <2>1, <2>2
<1> QED
  BY <1>4, <1>5

(* What a round that stores does first. *)
Reaches(s, w, a) ==
  /\ w = WalkAlloc(s, TheFile, s.pos \div Blk) /\ w.at.kind # "wild"
  /\ a = IF Pointed(w, TheFile) = 0 THEN Attach(w, TheFile) ELSE w
  /\ Pointed(a, TheFile) # 0

(* On the way a call keeps what it held, and diskno is set. *)
LEMMA ReachesKeeps ==
  ASSUME ImageOK, NEW s \in Calls, CallApart(s), s.pos < MaxWord, NEW w, NEW a, Reaches(s, w, a)
  PROVE  /\ w \in Calls /\ CallApart(w) /\ Grows(s, w) /\ w.at.kind \in {"slot", "copy"}
         /\ a \in Calls /\ CallApart(a) /\ Grows(w, a) /\ a.at.kind = w.at.kind
<1>1. s.pos \div Blk \in Nat /\ s.pos \div Blk < Direct + Blk
  BY CallFields, PositionIn
<1>2. w \in Calls /\ CallApart(w) /\ Grows(s, w)
  BY <1>1, WalkKeeps DEF Reaches
<1>3. w.at.kind \in {"slot", "copy"}
  BY <1>2, CallFields DEF Reaches
<1>4. CASE Pointed(w, TheFile) = 0
  <2>1. a = Attach(w, TheFile)
    BY <1>4 DEF Reaches
  <2> QED
    BY <1>2, <1>3, <1>4, <2>1, AttachKeeps
<1>5. CASE Pointed(w, TheFile) # 0
  <2>1. a = w
    BY <1>5 DEF Reaches
  <2> QED
    BY <1>2, <1>3, <2>1 DEF Grows
<1> QED
  BY <1>2, <1>3, <1>4, <1>5

(* The round finds the block of a position that is kept, *)
LEMMA ReachesKept ==
  ASSUME ImageOK, NEW s \in Calls, CallApart(s), s.pos < MaxWord, NEW w, NEW a, Reaches(s, w, a),
         NEW gu \in Place, gu[1] = TheFile, gu[2] \div Blk = s.pos \div Blk,
         gu[2] \div Blk < Direct \/ InImage(gu)
  PROVE  Pointed(a, TheFile) = NumberOf(a.inode, gu)
<1>0. PICK i : i = s.pos \div Blk
  OBVIOUS
<1>1. i \in Nat /\ i < Direct + Blk /\ Direct \in Nat
  BY <1>0, CallFields, PositionIn, Sizes
<1>2. CASE i < Direct
  <2>1. w.at = [kind |-> "slot", n |-> i]
    BY <1>0, <1>1, <1>2, WalkKeeps DEF Reaches
  <2>2. a.at = w.at
    <3>1. CASE Pointed(w, TheFile) = 0
      <4>1. w \in Calls /\ CallApart(w) /\ w.at.kind = "slot"
        BY <2>1, ReachesKeeps
      <4>2. a = Attach(w, TheFile)
        BY <3>1 DEF Reaches
      <4> QED
        BY <3>1, <4>1, <4>2, AttachKeeps
    <3>2. CASE Pointed(w, TheFile) # 0
      BY <3>2 DEF Reaches
    <3> QED
      BY <3>1, <3>2
  <2>3. Pointed(a, TheFile) = a.inode[TheFile][i]
    BY <2>1, <2>2 DEF Pointed
  <2> QED
    BY <1>0, <1>2, <2>3 DEF NumberOf
<1>3. CASE ~(i < Direct)
  <2>1. NumberAt(image, TheFile, i) # 0
    BY <1>0, <1>3, ImageNumber
  <2>2. Indirect # 0 /\ NumberAt(image, TheFile, i) = image.disk[Indirect][i - Direct]
    BY <1>3, <2>1 DEF NumberAt, Indirect
  <2>3. w.at = [kind |-> "copy", n |-> image.disk[Indirect][i - Direct]]
    <3>1. i >= Direct
      BY <1>1, <1>3
    <3> QED
      BY <1>0, <1>1, <2>2, <3>1, WalkKeeps DEF Reaches
  <2>4. Pointed(w, TheFile) = image.disk[Indirect][i - Direct]
    BY <2>3 DEF Pointed
  <2>5. a = w
    BY <2>1, <2>2, <2>4 DEF Reaches
  <2> QED
    BY <1>0, <1>3, <2>2, <2>4, <2>5 DEF NumberOf
<1> QED
  BY <1>2, <1>3

(* and if it overwrites another position, that is noted. *)
LEMMA ReachesOther ==
  ASSUME ImageOK, NEW s \in Calls, CallApart(s), s.pos < MaxWord, NEW w, NEW a, Reaches(s, w, a),
         NEW n \in Nat, n > 0, NEW gu \in Place, NumberOf(w.inode, gu) # 0,
         Pointed(a, TheFile) = NumberOf(w.inode, gu),
         gu[2] % Blk \in s.pos % Blk .. (s.pos % Blk) + n - 1
  PROVE  \/ gu \in Astray(w, TheFile, Pointed(w, TheFile), n)
         \/ gu[1] = TheFile /\ s.pos <= gu[2] /\ gu[2] < s.pos + n
<1>1. /\ w \in Calls /\ CallApart(w) /\ Grows(s, w) /\ w.at.kind \in {"slot", "copy"}
      /\ w.pos = s.pos /\ DiskApart(w.inode, w.bitmap, w.disk, w.lost)
  BY ReachesKeeps DEF Grows, CallApart
<1>2. PICK b : b = NumberOf(w.inode, gu)
  OBVIOUS
<1>3. CASE Pointed(w, TheFile) = 0
  <2>1. a = Attach(w, TheFile)
    BY <1>3 DEF Reaches
  <2>2. w.bitmap # {}
    <3> SUFFICES ASSUME w.bitmap = {} PROVE FALSE
      OBVIOUS
    <3>1. a = w
      BY <1>1, <1>3, <2>1, AttachKeeps
    <3> QED
      BY <1>3, <3>1 DEF Reaches
  <2>3. b \in w.bitmap
    BY <1>1, <1>2, <1>3, <2>1, <2>2, AttachKeeps
  <2> QED
    BY <1>1, <1>2, <2>3, NumberApart
<1>4. CASE Pointed(w, TheFile) # 0
  <2>1. Pointed(w, TheFile) = b /\ b # 0
    BY <1>2, <1>4 DEF Reaches
  <2>2. s.pos \in Nat /\ <<TheFile, s.pos>> \in Place
    <3>1. s.pos \in Nat
      BY CallFields
    <3>2. s.pos \in 0 .. MaxWord - 1
      BY <3>1, Sizes
    <3> QED
      BY <3>1, <3>2 DEF Place, Position
  <2>3. /\ Proper(w, gu) = b
        /\ Proper(w, <<TheFile, s.pos>>) = NumberOf(w.inode, <<TheFile, s.pos>>)
    BY <1>2, <2>2, ProperIs
  <2>4. CASE Proper(w, <<TheFile, s.pos>>) = b
    <3>1. TheFile = gu[1] /\ s.pos \div Blk = gu[2] \div Blk
      <4>1. <<TheFile, s.pos>>[1] = gu[1] /\ <<TheFile, s.pos>>[2] \div Blk = gu[2] \div Blk
        BY <1>1, <1>2, <2>2, <2>3, <2>4, NumberApart
      <4> QED
        BY <4>1
    <3>2. gu[2] \in Nat /\ Blk \in Nat /\ Blk > 0 /\ s.pos % Blk \in 0 .. Blk - 1
          /\ gu[2] % Blk \in 0 .. Blk - 1
      BY <2>2, PlaceFacts, Sizes, DivModRange
    <3>3. gu[2] - s.pos = (gu[2] % Blk) - (s.pos % Blk)
      BY <2>2, <3>1, <3>2, InBlock
    <3>4. PICK c, d, u, p : c = s.pos % Blk /\ d = gu[2] % Blk /\ u = gu[2] /\ p = s.pos
      OBVIOUS
    <3>5. /\ c \in Nat /\ d \in Nat /\ u \in Nat /\ p \in Nat /\ u - p = d - c
          /\ d \in c .. c + n - 1
      BY <2>2, <3>2, <3>3, <3>4
    <3>6. p <= u /\ u < p + n
      BY <3>5
    <3> QED
      BY <3>1, <3>4, <3>6
  <2>5. CASE Proper(w, <<TheFile, s.pos>>) # b
    BY <1>1, <2>1, <2>3, <2>5 DEF Astray
  <2> QED
    BY <2>4, <2>5
<1> QED
  BY <1>3, <1>4

(* What it stores. *)
Stores(s, w, a, r, off, count, memory) ==
  /\ r.inode = a.inode /\ r.pos = s.pos + Chunk(s.pos, count)
  /\ r.astray = s.astray \cup Astray(w, TheFile, Pointed(w, TheFile), Chunk(s.pos, count))
  /\ \A c \in Blocks, i \in 0 .. Blk - 1 :
       r.disk[c][i] =
         IF /\ c = Pointed(a, TheFile)
            /\ i \in s.pos % Blk .. (s.pos % Blk) + Chunk(s.pos, count) - 1
         THEN memory[s.pos - off + i - (s.pos % Blk) + 1] ELSE a.disk[c][i]

(* After it, what the probe expects is still, or now, there. *)
LEMMA StoreHolds ==
  ASSUME ImageOK, probe \in Place, NEW off, NEW count, IsCall(off, count), NEW memory,
         NEW s, Going(s, off, count, memory), s.pos < off + count,
         NEW w, NEW a, Reaches(s, w, a), NEW r, Stores(s, w, a, r, off, count, memory)
  PROVE  CallHolds(r, off, count, memory)
<1> SUFFICES ASSUME Clean(r, off, count), Kept, Expected(r, off, count, memory) # -1
             PROVE  HoldsAt(r.inode, r.disk, Expected(r, off, count, memory))
  BY DEF CallHolds
<1>0. PICK p, n, u : p = s.pos /\ n = Chunk(s.pos, count) /\ u = probe[2]
  OBVIOUS
<1>1. /\ s \in Calls /\ CallApart(s) /\ CallHolds(s, off, count, memory) /\ s.pos \in Nat
      /\ s.pos >= off /\ off \in Nat /\ count \in Nat /\ count > 0 /\ off + count <= MaxWord
  BY CallFields DEF Going, IsCall
<1>2. n \in Nat /\ n > 0 /\ n <= count /\ n <= Blk - (p % Blk) /\ p % Blk \in 0 .. Blk - 1
  BY <1>0, <1>1, ChunkIs
<1>3. p \in Nat /\ p >= off /\ p < off + count /\ u \in Nat /\ s.pos < MaxWord
  <2>1. s.pos < MaxWord
    BY <1>1, Sizes
  <2> QED
    BY <1>0, <1>1, <2>1, PlaceFacts
<1>4. /\ w \in Calls /\ CallApart(w) /\ Grows(s, w) /\ a \in Calls /\ CallApart(a) /\ Grows(w, a)
  BY <1>1, <1>3, ReachesKeeps
<1>5. CallHolds(w, off, count, memory) /\ CallHolds(a, off, count, memory)
  BY <1>1, <1>4, GrowsHolds
<1>6. u % Blk \in 0 .. Blk - 1
  BY <1>0, PlaceFacts
<1>7. a.inode \in [Ino -> [Slot -> Blocks \cup {0}]]
  BY <1>4, CallFields
<1>8. r.pos = p + n /\ a.pos = p /\ w.pos = p /\ a.astray = s.astray /\ r.inode = a.inode
      /\ w.astray = s.astray /\ w.disk = a.disk
  BY <1>0, <1>4 DEF Stores, Grows
<1>9. CASE probe[1] = TheFile /\ p <= u /\ u < p + n
  <2>1. /\ u \div Blk = p \div Blk /\ u % Blk = (p % Blk) + (u - p)
        /\ u % Blk \in p % Blk .. (p % Blk) + n - 1
    BY <1>2, <1>3, <1>9, RoundPosition
  <2>2. off <= u /\ u < off + count /\ u < r.pos
    <3>1. ~(off + count <= u)
      BY <1>0, <1>8, <1>9 DEF Clean, Over
    <3> QED
      BY <1>1, <1>3, <1>8, <1>9, <3>1
  <2>3. Expected(r, off, count, memory) = memory[u - off + 1]
    BY <1>0, <1>9, <2>2 DEF Moved, Expected
  <2>4. Pointed(a, TheFile) = NumberOf(a.inode, probe)
    <3>1. u \div Blk < Direct \/ InImage(probe)
      BY <1>0 DEF Kept
    <3> QED
      BY <1>0, <1>1, <1>3, <1>9, <2>1, <3>1, ReachesKept
  <2>5. NumberOf(a.inode, probe) # 0 /\ NumberOf(a.inode, probe) \in Blocks
    BY <1>7, <2>4, NumberInDisk DEF Reaches
  <2>6. r.disk[NumberOf(a.inode, probe)][u % Blk] = memory[p - off + (u % Blk) - (p % Blk) + 1]
    BY <1>0, <1>6, <2>1, <2>4, <2>5 DEF Stores
  <2>7. p - off + (u % Blk) - (p % Blk) + 1 = u - off + 1
    <3>1. PICK c \in 0 .. Blk - 1 : c = p % Blk
      BY <1>2
    <3>2. p - off + (c + (u - p)) - c + 1 = u - off + 1
      BY <1>1, <1>3, Sizes
    <3> QED
      BY <2>1, <3>1, <3>2
  <2> QED
    BY <1>0, <1>8, <2>3, <2>5, <2>6, <2>7 DEF HoldsAt
<1>10. CASE ~(probe[1] = TheFile /\ p <= u /\ u < p + n)
  <2>1. (Moved(r, off, count) <=> Moved(w, off, count)) /\ (Over(w, off, count) => Over(r, off, count))
    BY <1>0, <1>1, <1>2, <1>3, <1>8, <1>10 DEF Moved, Over
  <2>2. Expected(r, off, count, memory) = Expected(w, off, count, memory)
    BY <2>1 DEF Expected
  <2>3. w.astray \subseteq r.astray
    BY <1>8 DEF Stores
  <2>4. Clean(w, off, count)
    BY <2>1, <2>3 DEF Clean
  <2>5. HoldsAt(w.inode, w.disk, Expected(r, off, count, memory))
    BY <1>5, <2>2, <2>4 DEF CallHolds
  <2>6. PICK m : m = NumberOf(w.inode, probe)
    OBVIOUS
  <2>7. m # 0 /\ m = NumberOf(a.inode, probe)
    BY <1>4, <1>5, <2>5, <2>6, GrowsHolds DEF HoldsAt
  <2>8. m \in Blocks
    BY <1>7, <2>7, NumberInDisk
  <2>9. ~(m = Pointed(a, TheFile) /\ u % Blk \in p % Blk .. (p % Blk) + n - 1)
    <3> SUFFICES ASSUME m = Pointed(a, TheFile), u % Blk \in p % Blk .. (p % Blk) + n - 1
                 PROVE  FALSE
      OBVIOUS
    <3>1. \/ probe \in Astray(w, TheFile, Pointed(w, TheFile), n)
          \/ probe[1] = TheFile /\ s.pos <= probe[2] /\ probe[2] < s.pos + n
      BY <1>0, <1>1, <1>2, <1>3, <2>6, <2>7, ReachesOther
    <3>2. probe \in Astray(w, TheFile, Pointed(w, TheFile), n)
      BY <1>0, <1>10, <3>1
    <3>3. probe \in r.astray
      BY <1>0, <3>2 DEF Stores
    <3> QED
      BY <3>3 DEF Clean
  <2>10. r.disk[m][u % Blk] = a.disk[m][u % Blk]
    BY <1>0, <1>6, <2>8, <2>9 DEF Stores
  <2> QED
    BY <1>0, <1>8, <2>5, <2>6, <2>7, <2>10 DEF HoldsAt
<1> QED
  BY <1>9, <1>10

(* A round that ends the call moves nothing. *)
LEMMA Ends ==
  ASSUME NEW s \in Calls, NEW r, r = [s EXCEPT !.failed = TRUE] \/ r = [s EXCEPT !.wild = TRUE]
  PROVE  /\ r \in Calls /\ r.inode = s.inode /\ r.bitmap = s.bitmap /\ r.disk = s.disk
         /\ r.pos = s.pos /\ r.astray = s.astray /\ r.at = s.at /\ r.lost = s.lost
BY DEF Calls

(* A round of file_write keeps what is said of a call. *)
LEMMA RoundKeeps ==
  ASSUME ImageOK, probe \in Place, NEW off, NEW count, IsCall(off, count),
         NEW memory \in [1 .. count + Blk - 1 -> Value], NEW s, Going(s, off, count, memory)
  PROVE  Going(WriteRound(s, TheFile, off, count, memory), off, count, memory)
<1> DEFINE w == WalkAlloc(s, TheFile, s.pos \div Blk)
           a == IF Pointed(w, TheFile) = 0 THEN Attach(w, TheFile) ELSE w
           r == WriteRound(s, TheFile, off, count, memory)
<1>1. /\ s \in Calls /\ CallApart(s) /\ CallHolds(s, off, count, memory) /\ s.pos \in Nat
      /\ s.pos >= off /\ off \in Nat /\ count \in Nat /\ count > 0 /\ off + count <= MaxWord
  BY CallFields DEF Going, IsCall
<1>2. CASE s.failed \/ s.wild \/ s.pos >= off + count
  BY <1>2 DEF WriteRound
<1>3. CASE ~s.failed /\ ~s.wild /\ s.pos < off + count
  <2>0. /\ r = IF w.at.kind = "wild" THEN [w EXCEPT !.wild = TRUE]
               ELSE IF Pointed(a, TheFile) = 0 THEN [a EXCEPT !.failed = TRUE]
               ELSE Store([a EXCEPT !.astray = @ \cup Astray(w, TheFile, Pointed(w, TheFile), Chunk(a.pos, count))],
                          Pointed(a, TheFile), off, count, memory)
        /\ s.pos < MaxWord
    <3>1. ~(s.pos >= off + count) /\ s.pos < MaxWord
      BY <1>1, <1>3, Sizes
    <3> QED
      BY <1>3, <3>1 DEF WriteRound
  <2>1. w \in Calls /\ CallApart(w) /\ Grows(s, w) /\ CallHolds(w, off, count, memory)
    <3>1. s.pos \div Blk \in Nat /\ s.pos \div Blk < Direct + Blk
      BY <1>1, <2>0, PositionIn
    <3>2. w \in Calls /\ CallApart(w) /\ Grows(s, w)
      BY <1>1, <3>1, WalkKeeps
    <3> HIDE DEF w
    <3> QED
      BY <1>1, <3>2, GrowsHolds
  <2> HIDE DEF w, r
  <2>2. CASE w.at.kind = "wild"
    <3>1. r = [w EXCEPT !.wild = TRUE]
      BY <2>0, <2>2
    <3>2. /\ r \in Calls /\ r.inode = w.inode /\ r.bitmap = w.bitmap /\ r.disk = w.disk
          /\ r.pos = w.pos /\ r.astray = w.astray /\ r.at = w.at /\ r.lost = w.lost
      BY <2>1, <3>1, Ends
    <3>3. CallApart(r)
      BY <2>1, <3>2 DEF CallApart
    <3>4. CallHolds(r, off, count, memory)
      BY <2>1, <3>2 DEF CallHolds, Clean, Expected, Moved, Over
    <3>5. r.pos >= off
      BY <1>1, <2>1, <3>2 DEF Grows
    <3>6. Going(r, off, count, memory)
      BY <3>2, <3>3, <3>4, <3>5 DEF Going
    <3> QED
      BY <3>6 DEF r
  <2>3. CASE w.at.kind # "wild"
    <3>1. w.at.kind \in {"slot", "copy"}
      BY <2>1, <2>3, CallFields
    <3>2. a \in Calls /\ CallApart(a) /\ Grows(w, a) /\ CallHolds(a, off, count, memory)
      <4>1. a \in Calls /\ CallApart(a) /\ Grows(w, a)
        <5>1. CASE Pointed(w, TheFile) = 0
          <6>1. a = Attach(w, TheFile)
            BY <5>1
          <6> HIDE DEF a
          <6> QED
            BY <2>1, <3>1, <5>1, <6>1, AttachKeeps
        <5>2. CASE Pointed(w, TheFile) # 0
          <6>1. a = w
            BY <5>2
          <6> HIDE DEF a
          <6> QED
            BY <2>1, <6>1 DEF Grows
        <5> QED
          BY <5>1, <5>2
      <4> HIDE DEF a
      <4> QED
        BY <2>1, <4>1, GrowsHolds
    <3>3. a.pos = s.pos /\ a.astray = s.astray
      <4> HIDE DEF a
      <4> QED
        BY <2>1, <3>2 DEF Grows
    <3>4. CASE Pointed(a, TheFile) = 0
      <4>1. r = [a EXCEPT !.failed = TRUE]
        BY <2>0, <2>3, <3>4
      <4> HIDE DEF a
      <4>2. /\ r \in Calls /\ r.inode = a.inode /\ r.bitmap = a.bitmap /\ r.disk = a.disk
            /\ r.pos = a.pos /\ r.astray = a.astray /\ r.at = a.at /\ r.lost = a.lost
        BY <3>2, <4>1, Ends
      <4>3. CallApart(r)
        BY <3>2, <4>2 DEF CallApart
      <4>4. CallHolds(r, off, count, memory)
        BY <3>2, <4>2 DEF CallHolds, Clean, Expected, Moved, Over
      <4>5. r.pos >= off
        BY <1>1, <3>3, <4>2
      <4>6. Going(r, off, count, memory)
        BY <4>2, <4>3, <4>4, <4>5 DEF Going
      <4> QED
        BY <4>6 DEF r
    <3>5. CASE Pointed(a, TheFile) # 0
      <4> DEFINE b == Pointed(a, TheFile)
                 n == Chunk(s.pos, count)
                 stray == Astray(w, TheFile, Pointed(w, TheFile), n)
                 t == [a EXCEPT !.astray = a.astray \cup stray]
      <4>0. Reaches(s, w, a)
        BY <2>3, <3>5 DEF Reaches, w
      <4>1. r = Store(t, b, off, count, memory)
        BY <2>0, <2>3, <3>3, <3>5
      <4> HIDE DEF a
      <4>2. stray \subseteq Place
        BY DEF Astray
      <4> HIDE DEF stray
      <4>3. /\ t \in Calls /\ t.inode = a.inode /\ t.bitmap = a.bitmap /\ t.disk = a.disk
            /\ t.pos = a.pos /\ t.astray = a.astray \cup stray /\ t.at = a.at /\ t.lost = a.lost
        BY <3>2, <4>2 DEF Calls
      <4>4. CallApart(t)
        <5> HIDE DEF t
        <5> QED
          BY <3>2, <4>3 DEF CallApart
      <4>5. Indirect # 0 => b # Indirect
        <5>1. a.at.kind \in {"slot", "copy"}
          BY <1>1, <2>0, <4>0, ReachesKeeps
        <5> QED
          BY <3>2, <5>1, TargetApart
      <4> HIDE DEF t, b, n
      <4>6. t.pos >= off /\ t.pos < off + count /\ t.pos = s.pos
        BY <1>1, <1>3, <3>3, <4>3
      <4>7. Stored(r, t, b, off, count, memory)
        <5>1. t \in Calls
          BY <4>3
        <5>2. Stored(Store(t, b, off, count, memory), t, b, off, count, memory)
          BY <5>1, <4>4, <4>5, <4>6, StoreKeeps
        <5> QED
          BY <4>1, <5>2
      <4>8. Stores(s, w, a, r, off, count, memory)
        BY <3>3, <4>3, <4>6, <4>7 DEF Stores, Stored, b, n, stray
      <4>9. CallHolds(r, off, count, memory)
        BY <1>3, <4>0, <4>8, StoreHolds
      <4>10. r.pos >= off
        <5>1. Chunk(t.pos, count) \in Nat
          BY <1>1, <4>6, ChunkIs
        <5> QED
          BY <1>1, <4>6, <4>7, <5>1 DEF Stored
      <4>11. Going(r, off, count, memory)
        BY <4>7, <4>9, <4>10 DEF Going, Stored
      <4> QED
        BY <4>11 DEF r
    <3> QED
      BY <3>4, <3>5
  <2> QED
    BY <2>2, <2>3
<1>4. s.pos >= off + count \/ s.pos < off + count
  BY <1>1
<1> QED
  BY <1>2, <1>3, <1>4

(* All the rounds of a call keep it. *)
LEMMA WriteCallGoes ==
  ASSUME ImageOK, probe \in Place, NEW off, NEW count, IsCall(off, count),
         NEW memory \in [1 .. count + Blk - 1 -> Value],
         Going(Begin(off), off, count, memory)
  PROVE  Going(WriteCall(TheFile, off, count, memory), off, count, memory)
<1> DEFINE Round(s) == WriteRound(s, TheFile, off, count, memory)
           Is(f) == f = [k \in 0 .. count |-> IF k = 0 THEN Begin(off) ELSE Round(f[k - 1])]
           D == {s \in Calls : Going(s, off, count, memory)}
<1>0. count \in Nat
  BY DEF IsCall
<1>1. Begin(off) \in D
  BY DEF Going
<1>2. ASSUME NEW s \in D PROVE Round(s) \in D
  <2>1. Going(s, off, count, memory)
    OBVIOUS
  <2>2. Going(Round(s), off, count, memory)
    BY <2>1, RoundKeeps
  <2> QED
    BY <2>2 DEF Going
<1>3. WriteCall(TheFile, off, count, memory) = (CHOOSE f : Is(f))[count]
  BY DEF WriteCall
<1> HIDE DEF D, Round
<1>4. PICK step : step = [kx \in (1 .. count) \X D |-> Round(kx[2])]
  OBVIOUS
<1>5. PICK family : family = [k \in 0 .. count |-> D]
  OBVIOUS
<1>6. PICK f : IsRounds(f, count, Begin(off), step) /\ \A k \in 0 .. count : f[k] \in family[k]
  <2>1. Begin(off) \in family[0]
    BY <1>0, <1>1, <1>5
  <2>2. ASSUME NEW k \in 1 .. count, NEW x \in family[k - 1] PROVE step[<<k, x>>] \in family[k]
    <3>1. k - 1 \in 0 .. count /\ k \in 0 .. count
      BY <1>0
    <3>2. x \in D
      BY <1>5, <3>1
    <3>3. step[<<k, x>>] = Round(x)
      BY <1>4, <3>2
    <3> QED
      BY <1>2, <1>5, <3>1, <3>2, <3>3
  <2> QED
    BY <1>0, <2>1, <2>2, RoundsFound
<1>7. Is(f)
  <2>1. ASSUME NEW k \in 0 .. count, k # 0 PROVE step[<<k, f[k - 1]>>] = Round(f[k - 1])
    <3>1. k \in 1 .. count /\ k - 1 \in 0 .. count
      BY <1>0, <2>1
    <3>2. f[k - 1] \in D
      BY <1>5, <1>6, <3>1
    <3> QED
      BY <1>4, <3>1, <3>2
  <2> QED
    BY <1>6, <2>1 DEF IsRounds
<1>8. PICK g : g = CHOOSE h : Is(h)
  OBVIOUS
<1>9. Is(g)
  <2> HIDE DEF Is
  <2> QED
    BY <1>7, <1>8
<1>10. g[0] \in family[0]
  BY <1>0, <1>1, <1>5, <1>9
<1>11. ASSUME NEW k \in 1 .. count, g[k - 1] \in family[k - 1] PROVE g[k] \in family[k]
  <2>1. k - 1 \in 0 .. count /\ k \in 0 .. count /\ k # 0
    BY <1>0
  <2>2. g[k - 1] \in D /\ g[k] = Round(g[k - 1])
    BY <1>5, <1>9, <1>11, <2>1
  <2> QED
    BY <1>2, <1>5, <2>1, <2>2
<1>12. g[count] \in D
  <2>1. \A k \in 0 .. count : g[k] \in family[k]
    BY <1>0, <1>10, <1>11, RoundsKeep
  <2> QED
    BY <1>0, <1>5, <2>1
<1> QED
  BY <1>3, <1>8, <1>12 DEF D

------------------------------------------------------------------------------
(* The inductive invariant *)

(* The image is sound; every block is held once, free or lost; the blocks  *)
(* of the image are where they were; and what is expected at the probe is  *)
(* there.                                                                  *)
Shape ==
  /\ inode \in [Ino -> [Slot -> Blocks \cup {0}]]
  /\ bitmap \subseteq Blocks /\ lost \subseteq Blocks
  /\ disk \in [Blocks -> [0 .. Blk - 1 -> Word]]
  /\ probe \in Place /\ (probe[1] = Root => written = TheFile)
  /\ written \in Value \cup {-1, TheFile}
  /\ spilled \in BOOLEAN /\ opened \in BOOLEAN /\ halted \in BOOLEAN

(* What is expected at the probe is there, as long as ReadBack promises    *)
(* it.                                                                     *)
Held == ~spilled /\ Kept /\ written # -1 => HoldsAt(inode, disk, written)

(* The invariant. *)
BlocksInv == ImageOK /\ Shape /\ DiskApart(inode, bitmap, disk, lost) /\ Held

(* A call starts from a state that satisfies it. *)
LEMMA BeginGoes ==
  ASSUME BlocksInv, NEW off, NEW count, IsCall(off, count), NEW memory
  PROVE  Going(Begin(off), off, count, memory)
<1>1. /\ Begin(off).inode = inode /\ Begin(off).bitmap = bitmap /\ Begin(off).disk = disk
      /\ Begin(off).pos = off /\ Begin(off).at = [kind |-> "wild", n |-> 0]
      /\ Begin(off).astray = {} /\ Begin(off).lost = lost
  BY DEF Begin
<1>2. off \in Nat /\ count \in Nat /\ probe \in Place
  BY DEF IsCall, BlocksInv, Shape
<1>3. Begin(off) \in Calls
  BY <1>2 DEF Begin, Calls, BlocksInv, Shape
<1>4. CallApart(Begin(off))
  BY <1>1 DEF CallApart, BlocksInv
<1>5. ~Moved(Begin(off), off, count) /\ ~Over(Begin(off), off, count)
  <2>1. probe[2] \in Nat
    BY <1>2, PlaceFacts
  <2> QED
    BY <1>1, <1>2, <2>1 DEF Moved, Over
<1>6. CallHolds(Begin(off), off, count, memory)
  BY <1>1, <1>5 DEF CallHolds, Clean, Expected, BlocksInv, Held
<1> QED
  BY <1>1, <1>2, <1>3, <1>4, <1>6 DEF Going

(* Write's interval of positions that were really written. *)
LEMMA SmallerThanBoth ==
  ASSUME NEW a \in Nat, NEW b \in Nat, NEW u \in Nat
  PROVE  u \in 0 .. Min({a, b}) - 1 <=> u < a /\ u < b
<1>1. {a, b} \in SUBSET Nat /\ {a, b} # {}
  OBVIOUS
<1>2. Min({a, b}) \in {a, b} /\ \A k \in {a, b} : Min({a, b}) <= k
  BY <1>1, MinLemma
<1> HIDE DEF Min
<1> QED
  BY <1>2

(* file_write *)
LEMMA InvWrite ==
  ASSUME BlocksInv, NEW off, NEW count, IsCall(off, count),
         NEW memory \in [1 .. count + Blk - 1 -> Value], Write(TheFile, off, count, memory)
  PROVE  BlocksInv'
<1> DEFINE s == WriteCall(TheFile, off, count, memory)
           asked == {TheFile} \X (off .. Min({off + count, s.pos}) - 1)
           spill == {TheFile} \X (off + count .. s.pos - 1)
<1>1. /\ inode' = s.inode /\ bitmap' = s.bitmap /\ disk' = s.disk /\ lost' = s.lost
      /\ written' = IF probe \in asked THEN memory[probe[2] - off + 1] ELSE written
      /\ spilled' = (probe \in spill \cup s.astray \/ (spilled /\ probe \notin asked))
      /\ halted' = s.wild
      /\ image' = image /\ content' = content /\ probe' = probe /\ opened' = opened
  BY DEF Write
<1>2. ImageOK /\ Shape /\ probe \in Place
  BY DEF BlocksInv, Shape
<1>3. Going(s, off, count, memory)
  BY <1>2, BeginGoes, WriteCallGoes
<1> HIDE DEF s
<1>4. s \in Calls /\ CallApart(s) /\ CallHolds(s, off, count, memory) /\ s.pos \in Nat
  BY <1>3, CallFields DEF Going
<1>5. off \in Nat /\ count \in Nat /\ probe[2] \in Nat /\ probe = <<probe[1], probe[2]>>
      /\ Blk \in Nat /\ Blk > 0
  BY <1>2, PlaceFacts, Sizes DEF IsCall
<1>6. probe \in asked <=> Moved(s, off, count)
  <2> DEFINE m == Min({off + count, s.pos})
  <2>1. off + count \in Nat
    BY <1>5
  <2>2. probe[2] \in 0 .. m - 1 <=> probe[2] < off + count /\ probe[2] < s.pos
    BY <1>4, <1>5, <2>1, SmallerThanBoth
  <2>3. m \in Nat
    <3>1. {off + count, s.pos} \in SUBSET Nat /\ {off + count, s.pos} # {}
      BY <1>4, <2>1
    <3>2. Min({off + count, s.pos}) \in {off + count, s.pos}
      BY <3>1, MinLemma
    <3> QED
      BY <1>4, <2>1, <3>2
  <2>4. probe \in asked <=> probe[1] = TheFile /\ probe[2] \in off .. m - 1
    BY <1>5
  <2> HIDE DEF m, asked
  <2>5. probe[2] \in off .. m - 1 <=> off <= probe[2] /\ probe[2] \in 0 .. m - 1
    BY <1>5, <2>3
  <2> QED
    BY <2>2, <2>4, <2>5 DEF Moved
<1>7. probe \in spill <=> Over(s, off, count)
  BY <1>4, <1>5 DEF Over
<1> HIDE DEF asked, spill
<1>8. written' = Expected(s, off, count, memory)
  BY <1>1, <1>6 DEF Expected
<1>9. ~spilled' <=> Clean(s, off, count)
  BY <1>1, <1>6, <1>7 DEF Clean
<1>10. ImageOK'
  BY <1>1, <1>2 DEF ImageOK, Blocks, ImageApart, ImageHolds, NumberAt
<1>11. Blocks' = Blocks /\ Place' = Place /\ Kept' = Kept /\ Indirect' = Indirect
  BY <1>1 DEF Blocks, Kept, InImage, Place, Indirect
<1>12. Shape'
  <2>1. inode' \in [Ino -> [Slot -> Blocks \cup {0}]] /\ bitmap' \subseteq Blocks /\ lost' \subseteq Blocks
        /\ disk' \in [Blocks -> [0 .. Blk - 1 -> Word]]
    BY <1>1, <1>4, CallFields
  <2>2. probe' \in Place /\ (probe'[1] = Root => written' = TheFile)
    <3>1. probe[1] = Root => ~Moved(s, off, count)
      BY Members DEF Moved
    <3> QED
      BY <1>1, <1>2, <1>8, <3>1 DEF Expected, Shape
  <2>3. written' \in Value \cup {-1, TheFile}
    <3>1. CASE Moved(s, off, count)
      <4>1. probe[2] - off + 1 \in 1 .. count + Blk - 1
        BY <1>5, <3>1 DEF Moved
      <4> QED
        BY <1>8, <3>1, <4>1 DEF Expected
    <3>2. CASE ~Moved(s, off, count)
      BY <1>2, <1>8, <3>2 DEF Expected, Shape
    <3> QED
      BY <3>1, <3>2
  <2>4. spilled' \in BOOLEAN /\ opened' \in BOOLEAN /\ halted' \in BOOLEAN
    BY <1>1, <1>2, <1>4, CallFields DEF Shape
  <2> QED
    BY <1>11, <2>1, <2>2, <2>3, <2>4 DEF Shape
<1>13. DiskApart(inode, bitmap, disk, lost)'
  <2>1. DiskApart(s.inode, s.bitmap, s.disk, s.lost)
    BY <1>4 DEF CallApart
  <2> QED
    BY <1>1, <1>11, <2>1 DEF DiskApart, Numbers, Apart
<1>14. Held'
  BY <1>1, <1>4, <1>8, <1>9, <1>11 DEF Held, CallHolds, HoldsAt, NumberOf
<1> QED
  BY <1>10, <1>12, <1>13, <1>14 DEF BlocksInv

(* The words a read may return. *)
DiskWords == {disk[b][j] : b \in Nat, j \in Nat}

(* file_read and walk_path change nothing; a loop that read ends, follows  *)
(* NULL or has failed.                                                     *)
Readers ==
  [inode : {inode}, bitmap : {bitmap}, disk : {disk}, pos : Nat,
   at : [kind : {"wild", "slot", "copy", "null"}, n : Nat], failed : BOOLEAN, wild : BOOLEAN,
   data : Seq(DiskWords), astray : {{}}, lost : {lost}]

(* A round of a read changes nothing but its own record. *)
LEMMA ReadRoundKeeps ==
  ASSUME ImageOK, Shape, NEW off, NEW count, IsCall(off, count), NEW s \in Readers
  PROVE  ReadRound(s, TheFile, off, count) \in Readers
<1> DEFINE w == WalkLook(s, TheFile, s.pos \div Blk)
           n == Chunk(s.pos, count)
           cur == s.pos % Blk
           r == ReadRound(s, TheFile, off, count)
<1>1. /\ off \in Nat /\ count \in Nat /\ count > 0 /\ off + count <= MaxWord
      /\ s.pos \in Nat /\ s.inode = inode /\ s.disk = disk /\ s.at.n \in Nat
      /\ s.at.kind \in {"wild", "slot", "copy", "null"}
      /\ Blk \in Nat /\ Blk > 0 /\ Direct \in Nat
      /\ s.data \in Seq(DiskWords)
  BY Sizes DEF Readers, IsCall
<1>2. CASE s.failed \/ s.wild \/ s.pos >= off + count
  BY <1>2 DEF ReadRound
<1>3. CASE ~s.failed /\ ~s.wild /\ s.pos < off + count
  <2>1. s.pos < MaxWord /\ ~(s.pos >= off + count)
    BY <1>1, <1>3, Sizes
  <2>2. s.pos \div Blk \in Nat /\ s.pos \div Blk < Direct + Blk
    BY <1>1, <2>1, PositionIn
  <2>3. \E at \in [kind : {"wild", "slot", "copy", "null"}, n : Nat] : w = [s EXCEPT !.at = at]
    <3>1. CASE s.pos \div Blk < Direct
      <4>1. w = [s EXCEPT !.at = [kind |-> "slot", n |-> s.pos \div Blk]]
        BY <3>1 DEF WalkLook, InSlot
      <4>2. [kind |-> "slot", n |-> s.pos \div Blk] \in [kind : {"wild", "slot", "copy", "null"}, n : Nat]
        BY <2>2
      <4> HIDE DEF w
      <4> QED
        BY <4>1, <4>2
    <3>2. CASE ~(s.pos \div Blk < Direct) /\ s.inode[TheFile][Direct] = 0
      <4>1. w = [s EXCEPT !.at = [s.at EXCEPT !.kind = "null"]]
        BY <3>2 DEF WalkLook, Readers
      <4>2. [s.at EXCEPT !.kind = "null"] \in [kind : {"wild", "slot", "copy", "null"}, n : Nat]
        BY DEF Readers
      <4> HIDE DEF w
      <4> QED
        BY <4>1, <4>2
    <3>3. CASE ~(s.pos \div Blk < Direct) /\ s.inode[TheFile][Direct] # 0
      <4> DEFINE word == s.disk[s.inode[TheFile][Direct]][(s.pos \div Blk) - Direct]
      <4>1. w = [s EXCEPT !.at = [kind |-> "copy", n |-> word]]
        BY <3>3 DEF WalkLook, InCopy
      <4>2. word \in Nat
        <5>1. inode[TheFile] \in [Slot -> Blocks \cup {0}]
          BY Members DEF Shape
        <5>2. inode[TheFile][Direct] \in Blocks
          BY <1>1, <3>3, <5>1, Members
        <5>3. disk[inode[TheFile][Direct]] \in [0 .. Blk - 1 -> Word]
          BY <5>2 DEF Shape
        <5>4. PICK i : i = s.pos \div Blk
          OBVIOUS
        <5>5. i - Direct \in 0 .. Blk - 1
          BY <1>1, <2>2, <3>3, <5>4
        <5>6. word \in Word
          BY <1>1, <5>3, <5>4, <5>5
        <5> HIDE DEF word
        <5> QED
          BY <5>6, Members
      <4>3. [kind |-> "copy", n |-> word] \in [kind : {"wild", "slot", "copy", "null"}, n : Nat]
        <5> HIDE DEF word
        <5> QED
          BY <4>2
      <4> HIDE DEF w, word
      <4> QED
        BY <4>1, <4>3
    <3> QED
      BY <3>1, <3>2, <3>3
  <2>4. /\ w \in Readers /\ w.pos = s.pos /\ w.data = s.data /\ w.disk = disk
        /\ w.at.kind = "slot" => w.at.n \in Slot
    <3>1. PICK at \in [kind : {"wild", "slot", "copy", "null"}, n : Nat] : w = [s EXCEPT !.at = at]
      BY <2>3
    <3>2. w.at.kind = "slot" => w.at.n \in Slot
      <4>1. CASE s.pos \div Blk < Direct
        <5>1. s.pos \div Blk \in Slot
          BY <1>1, <2>2, <4>1 DEF Slot
        <5> QED
          BY <4>1, <5>1 DEF WalkLook, InSlot, Readers
      <4>2. CASE ~(s.pos \div Blk < Direct)
        BY <4>2 DEF WalkLook, InCopy, Readers
      <4> QED
        BY <4>1, <4>2
    <3> HIDE DEF w
    <3> QED
      BY <3>1, <3>2 DEF Readers
  <2>5. r = IF w.at.kind = "null" THEN [w EXCEPT !.wild = TRUE]
            ELSE IF Pointed(w, TheFile) = 0 THEN [w EXCEPT !.failed = TRUE]
            ELSE [w EXCEPT !.data = w.data \o [i \in 1 .. n |-> w.disk[Pointed(w, TheFile)][cur + i - 1]],
                           !.pos = w.pos + n]
    BY <1>3, <2>1, <2>4 DEF ReadRound
  <2>6. n \in Nat /\ cur \in Nat
    <3>1. s.pos % Blk \in 0 .. Blk - 1 /\ Chunk(s.pos, count) \in Nat
      BY <1>1, ChunkIs
    <3> QED
      BY <1>1, <3>1
  <2>7. Pointed(w, TheFile) \in Nat
    <3> HIDE DEF w
    <3>1. CASE w.at.kind = "slot"
      <4>1. inode[TheFile] \in [Slot -> Blocks \cup {0}]
        BY Members DEF Shape
      <4>2. inode[TheFile][w.at.n] \in Blocks \cup {0}
        BY <2>4, <3>1, <4>1
      <4>3. inode[TheFile][w.at.n] \in Nat
        BY <4>2, ImageFacts, NumberIn
      <4> QED
        BY <2>4, <3>1, <4>3 DEF Pointed, Readers
    <3>2. CASE w.at.kind # "slot"
      BY <2>4, <3>2 DEF Pointed, Readers
    <3> QED
      BY <3>1, <3>2
  <2> DEFINE more == [i \in 1 .. n |-> w.disk[Pointed(w, TheFile)][cur + i - 1]]
  <2>8. more \in Seq(DiskWords)
    <3> HIDE DEF w, n, cur
    <3>1. ASSUME NEW i \in 1 .. n PROVE w.disk[Pointed(w, TheFile)][cur + i - 1] \in DiskWords
      <4>1. cur + i - 1 \in Nat
        BY <2>6
      <4> QED
        BY <2>4, <2>7, <4>1 DEF DiskWords
    <3> QED
      BY <2>6, <3>1
  <2>9. w.data \o more \in Seq(DiskWords)
    <3>1. w.data \in Seq(DiskWords)
      BY <1>1, <2>4
    <3> HIDE DEF w, more
    <3> QED
      BY <2>8, <3>1
  <2>10. w.pos + n \in Nat
    BY <1>1, <2>4, <2>6
  <2> HIDE DEF w, n, cur, more, r
  <2>11. r \in Readers
    <3>1. CASE w.at.kind = "null"
      BY <2>4, <2>5, <3>1 DEF Readers
    <3>2. CASE w.at.kind # "null" /\ Pointed(w, TheFile) = 0
      BY <2>4, <2>5, <3>2 DEF Readers
    <3>3. CASE w.at.kind # "null" /\ Pointed(w, TheFile) # 0
      <4>1. r = [w EXCEPT !.data = w.data \o more, !.pos = w.pos + n]
        BY <2>5, <3>3 DEF more
      <4>2. w \in Readers
        BY <2>4
      <4> QED
        BY <4>1, <4>2, <2>9, <2>10 DEF Readers
    <3> QED
      BY <3>1, <3>2, <3>3
  <2> QED
    BY <2>11 DEF r
<1>4. s.pos >= off + count \/ s.pos < off + count
  BY <1>1
<1> QED
  BY <1>2, <1>3, <1>4

(* So file_read ends, or follows NULL: halted stays a Boolean. *)
LEMMA ReadCallEnds ==
  ASSUME ImageOK, Shape, NEW off, NEW count, IsCall(off, count)
  PROVE  ReadCall(TheFile, off, count).wild \in BOOLEAN
<1> DEFINE Round(s) == ReadRound(s, TheFile, off, count)
           Is(f) == f = [k \in 0 .. count |-> IF k = 0 THEN Begin(off) ELSE Round(f[k - 1])]
<1>0. count \in Nat /\ off \in Nat
  BY DEF IsCall
<1>1. Begin(off) \in Readers
  <2>1. <<>> \in Seq(DiskWords) /\ [kind |-> "wild", n |-> 0] \in [kind : {"wild", "slot", "copy", "null"}, n : Nat]
    OBVIOUS
  <2> QED
    BY <1>0, <2>1 DEF Begin, Readers
<1>2. ASSUME NEW s \in Readers PROVE Round(s) \in Readers
  BY ReadRoundKeeps
<1>3. ReadCall(TheFile, off, count) = (CHOOSE f : Is(f))[count]
  BY DEF ReadCall
<1> HIDE DEF Round
<1>4. PICK step : step = [kx \in (1 .. count) \X Readers |-> Round(kx[2])]
  OBVIOUS
<1>5. PICK family : family = [k \in 0 .. count |-> Readers]
  OBVIOUS
<1>6. PICK f : IsRounds(f, count, Begin(off), step) /\ \A k \in 0 .. count : f[k] \in family[k]
  <2>1. Begin(off) \in family[0]
    BY <1>0, <1>1, <1>5
  <2>2. ASSUME NEW k \in 1 .. count, NEW x \in family[k - 1] PROVE step[<<k, x>>] \in family[k]
    <3>1. k - 1 \in 0 .. count /\ k \in 0 .. count
      BY <1>0
    <3>2. x \in Readers
      BY <1>5, <3>1
    <3>3. step[<<k, x>>] = Round(x)
      BY <1>4, <3>2
    <3> QED
      BY <1>2, <1>5, <3>1, <3>2, <3>3
  <2> QED
    BY <1>0, <2>1, <2>2, RoundsFound
<1>7. Is(f)
  <2>1. ASSUME NEW k \in 0 .. count, k # 0 PROVE step[<<k, f[k - 1]>>] = Round(f[k - 1])
    <3>1. k \in 1 .. count /\ k - 1 \in 0 .. count
      BY <1>0, <2>1
    <3>2. f[k - 1] \in Readers
      BY <1>5, <1>6, <3>1
    <3> QED
      BY <1>4, <3>1, <3>2
  <2> QED
    BY <1>6, <2>1 DEF IsRounds
<1>8. PICK g : g = CHOOSE h : Is(h)
  OBVIOUS
<1>9. Is(g)
  <2> HIDE DEF Is
  <2> QED
    BY <1>7, <1>8
<1>10. g[0] \in family[0]
  BY <1>0, <1>1, <1>5, <1>9
<1>11. ASSUME NEW k \in 1 .. count, g[k - 1] \in family[k - 1] PROVE g[k] \in family[k]
  <2>1. k - 1 \in 0 .. count /\ k \in 0 .. count /\ k # 0
    BY <1>0
  <2>2. g[k - 1] \in Readers /\ g[k] = Round(g[k - 1])
    BY <1>5, <1>9, <1>11, <2>1
  <2> QED
    BY <1>2, <1>5, <2>1, <2>2
<1>12. g[count] \in Readers
  <2>1. \A k \in 0 .. count : g[k] \in family[k]
    BY <1>0, <1>10, <1>11, RoundsKeep
  <2> QED
    BY <1>0, <1>5, <2>1
<1> QED
  BY <1>3, <1>8, <1>12 DEF Readers

(* After a restart, the blocks that the image had for the probe are there. *)
LEMMA ImageKept ==
  ASSUME BlocksInv, InImage(probe)
  PROVE  NumberOf(image.inode, probe) # 0 /\ NumberOf(image.inode, probe) = NumberOf(inode, probe)
<1> DEFINE i == probe[2] \div Blk
<1>1. ImageOK /\ probe \in Place /\ DiskApart(inode, bitmap, disk, lost)
  BY DEF BlocksInv, Shape
<1>2. /\ probe[1] \in {Root, TheFile} /\ probe[1] \in Ino /\ i \in Nat /\ i < Direct + Blk
      /\ i < Direct \/ probe[1] = TheFile
      /\ probe = <<probe[1], probe[2]>>
  BY <1>1, PlaceFacts
<1>3. CASE probe[1] = Root
  <2>1. probe[2] = 0
    BY <1>1, <1>3, Members DEF Place
  <2>2. Blk \in Nat /\ Blk > 0 /\ Direct \in Nat /\ Direct > 0
    BY Sizes
  <2>3. i = 0
    <3>1. 0 = Blk * 0 + 0 /\ 0 \in 0 .. Blk - 1
      BY <2>2
    <3>2. 0 \div Blk = 0
      BY <2>2, <3>1, DivModUnique
    <3> QED
      BY <2>1, <3>2
  <2>4. image.inode[Root][0] # 0 /\ Root \in Ino /\ 0 \in Slot
    BY <1>1, Members DEF ImageOK, ImageHolds
  <2> QED
    BY <1>1, <1>3, <2>2, <2>3, <2>4 DEF NumberOf, DiskApart
<1>4. CASE probe[1] = TheFile
  <2>1. NumberAt(image, TheFile, i) # 0
    BY <1>1, <1>4, ImageNumber
  <2>2. NumberAt(image, TheFile, i) = NumberOf(image.inode, probe)
    BY <1>4 DEF NumberAt, NumberOf, Indirect
  <2>3. CASE i < Direct
    <3>1. i \in Slot
      BY <1>2, <2>3, Sizes DEF Slot
    <3> HIDE DEF i
    <3>2. image.inode[TheFile][i] # 0
      BY <2>1, <2>3 DEF NumberAt
    <3>3. inode[TheFile][i] = image.inode[TheFile][i]
      BY <1>1, <3>1, <3>2, Members DEF DiskApart
    <3> QED
      BY <1>4, <2>3, <3>2, <3>3 DEF NumberOf, i
  <2>4. CASE ~(i < Direct)
    BY <2>1, <2>2, <2>4 DEF NumberOf
  <2> QED
    BY <2>3, <2>4
<1> QED
  BY <1>2, <1>3, <1>4

(* A restart falls back on the inode table and the bitmap of the image;    *)
(* the blocks of the image were never given to anyone else.                *)
LEMMA InvReboot ==
  ASSUME BlocksInv, Reboot
  PROVE  BlocksInv'
<1>1. /\ inode' = image.inode /\ bitmap' = image.bitmap
      /\ written' = IF InImage(probe) THEN written ELSE -1
      /\ lost' = {} /\ opened' = FALSE /\ halted' = FALSE
      /\ image' = image /\ content' = content /\ disk' = disk /\ probe' = probe /\ spilled' = spilled
  BY DEF Reboot
<1>2. ImageOK /\ Shape /\ Held /\ DiskApart(inode, bitmap, disk, lost)
  BY DEF BlocksInv
<1>3. ImageOK'
  BY <1>1, <1>2 DEF ImageOK, Blocks, ImageApart, ImageHolds, NumberAt
<1>4. Blocks' = Blocks /\ Place' = Place /\ Kept' = Kept /\ Indirect' = Indirect
  BY <1>1 DEF Blocks, Kept, InImage, Place, Indirect
<1>5. Shape'
  <2>1. probe[1] = Root => InImage(probe)
    <3>1. ASSUME probe[1] = Root PROVE InImage(probe)
      <4>1. probe[2] = 0 /\ Blk \in Nat /\ Blk > 0
        BY <1>2, <3>1, Members, Sizes DEF Place, Shape
      <4>2. (0 \div Blk) * Blk = 0
        <5>1. 0 = Blk * 0 + 0 /\ 0 \in 0 .. Blk - 1
          BY <4>1
        <5>2. 0 \div Blk = 0
          BY <4>1, <5>1, DivModUnique
        <5> QED
          BY <4>1, <5>2
      <4>3. image.size[Root] = Blk
        BY <1>2 DEF ImageOK, ImageHolds
      <4> QED
        BY <3>1, <4>1, <4>2, <4>3 DEF InImage
    <3> QED
      BY <3>1
  <2> QED
    BY <1>1, <1>2, <1>4, <2>1, ImageFacts DEF Shape
<1>6. DiskApart(inode, bitmap, disk, lost)'
  <2>1. Numbers(image.inode, disk, Indirect) = Numbers(image.inode, image.disk, Indirect)
    BY <1>2, NumbersDisk DEF DiskApart
  <2>2. Apart(Numbers(image.inode, image.disk, Indirect), image.bitmap, {}, Blocks)
    BY <1>2 DEF ImageOK, ImageApart, Indirect
  <2>3. DiskApart(image.inode, image.bitmap, disk, {})
    BY <1>2, <2>1, <2>2 DEF DiskApart
  <2> QED
    BY <1>1, <1>4, <2>3 DEF DiskApart, Numbers, Apart
<1>7. Held'
  <2>1. ASSUME ~spilled, written' # -1 PROVE HoldsAt(image.inode, disk, written')
    <3>1. InImage(probe) /\ written' = written
      BY <1>1, <2>1
    <3>2. Kept
      BY <3>1 DEF Kept
    <3>3. HoldsAt(inode, disk, written)
      BY <1>2, <2>1, <3>1, <3>2 DEF Held
    <3> QED
      BY <3>1, <3>3, ImageKept DEF HoldsAt
  <2> QED
    BY <1>1, <1>4, <2>1 DEF Held, HoldsAt, NumberOf
<1> QED
  BY <1>3, <1>5, <1>6, <1>7 DEF BlocksInv

(* Every step keeps the invariant. *)
LEMMA InvNext ==
  ASSUME BlocksInv, [Next]_vars
  PROVE  BlocksInv'
<1>1. ASSUME /\ image' = image /\ content' = content /\ inode' = inode /\ bitmap' = bitmap
             /\ disk' = disk /\ probe' = probe /\ written' = written /\ spilled' = spilled
             /\ lost' = lost /\ opened' \in BOOLEAN /\ halted' \in BOOLEAN
      PROVE  BlocksInv'
  <2>1. ImageOK' /\ Shape'
    BY <1>1 DEF BlocksInv, ImageOK, Shape, Blocks, ImageApart, ImageHolds, NumberAt, Place
  <2>2. DiskApart(inode, bitmap, disk, lost)'
    BY <1>1 DEF BlocksInv, DiskApart, Numbers, Apart, Indirect, Blocks
  <2>3. Held'
    BY <1>1 DEF BlocksInv, Held, HoldsAt, NumberOf, Indirect, Kept, InImage
  <2> QED
    BY <2>1, <2>2, <2>3 DEF BlocksInv
<1>2. ImageOK /\ Shape
  BY DEF BlocksInv
<1>3. ASSUME NEW off \in Position, NEW count \in 1 .. MaxCount, off + count <= MaxWord
      PROVE  /\ Read(TheFile, off, count) => BlocksInv'
             /\ \A memory \in Buffers(count + Blk - 1) : Write(TheFile, off, count, memory) => BlocksInv'
  <2>1. IsCall(off, count)
    BY <1>3, Sizes DEF IsCall, Position
  <2>2. ASSUME Read(TheFile, off, count) PROVE BlocksInv'
    <3>1. halted' \in BOOLEAN
      BY <1>2, <2>1, <2>2, ReadCallEnds DEF Read
    <3> QED
      BY <1>1, <1>2, <2>2, <3>1 DEF Read, Shape
  <2>3. ASSUME NEW memory \in Buffers(count + Blk - 1), Write(TheFile, off, count, memory)
        PROVE  BlocksInv'
    <3>1. memory \in [1 .. count + Blk - 1 -> Value]
      <4>1. count + Blk - 1 \in 1 .. MaxCount + Blk
        BY Sizes
      <4> QED
        BY <4>1, BlocksAssumption
    <3> QED
      BY <2>1, <2>3, <3>1, InvWrite
  <2> QED
    BY <2>2, <2>3
<1>4. ASSUME Open PROVE BlocksInv'
  BY <1>1, <1>2, <1>4 DEF Open, Shape
<1>5. ASSUME UNCHANGED vars PROVE BlocksInv'
  BY <1>1, <1>2, <1>5 DEF vars, Shape
<1> QED
  BY <1>3, <1>4, <1>5, InvReboot DEF Next

------------------------------------------------------------------------------
(* What follows from it *)

(* The owner that an element of InUse stands for. *)
HolderOf(x) == IF x[1] = "slot" THEN <<x[2], x[3]>> ELSE <<NIno, x[3]>>

(* What is in use is what owners hold. *)
LEMMA UsesAreHeld ==
  ASSUME ImageOK
  PROVE  LET num == Numbers(inode, disk, Indirect)
         IN  /\ \A x \in InUse : HolderOf(x) \in Owner /\ num[HolderOf(x)] = x[4] /\ x[4] # 0
             /\ \A x, y \in InUse : HolderOf(x) = HolderOf(y) => x = y
             /\ \A o \in Owner : num[o] # 0 => \E x \in InUse : x[4] = num[o]
<1> DEFINE num == Numbers(inode, disk, Indirect)
           Slots(x) == \E f \in Ino, k \in Slot : x = <<"slot", f, k, inode[f][k]>>
           Words_(x) == Indirect # 0 /\ \E i \in 0 .. Blk - 1 : x = <<"word", TheFile, i, disk[Indirect][i]>>
<1>1. ASSUME NEW x \in InUse
      PROVE  x[4] # 0 /\ (Slots(x) \/ Words_(x))
  <2>1. x \in Used /\ x[4] # 0
    BY DEF InUse
  <2>2. CASE x \in {<<"slot", fk[1], fk[2], inode[fk[1]][fk[2]]>> : fk \in Ino \X Slot}
    BY <2>1, <2>2
  <2>3. CASE x \in {<<"word", fi[1], fi[2], disk[image.inode[fi[1]][Direct]][fi[2]]>> : fi \in Words}
    <3>1. PICK fi \in Words : x = <<"word", fi[1], fi[2], disk[image.inode[fi[1]][Direct]][fi[2]]>>
      BY <2>3
    <3>2. fi[1] \in Ino /\ fi[2] \in 0 .. Blk - 1 /\ image.inode[fi[1]][Direct] # 0
      BY DEF Words
    <3>3. fi[1] = TheFile
      BY <3>2 DEF ImageOK, ImageApart
    <3> QED
      BY <2>1, <3>1, <3>2, <3>3 DEF Indirect
  <2> QED
    BY <2>1, <2>2, <2>3 DEF Used
<1>2. ASSUME NEW x \in InUse PROVE HolderOf(x) \in Owner /\ num[HolderOf(x)] = x[4] /\ x[4] # 0
  <2>1. CASE Slots(x)
    <3>1. PICK f \in Ino, k \in Slot : x = <<"slot", f, k, inode[f][k]>>
      BY <2>1
    <3>2. HolderOf(x) = <<f, k>> /\ x[4] = inode[f][k]
      BY <3>1 DEF HolderOf
    <3> QED
      BY <1>1, <3>2, Owners, NumbersAre
  <2>2. CASE Words_(x)
    <3>1. PICK i \in 0 .. Blk - 1 : x = <<"word", TheFile, i, disk[Indirect][i]>>
      BY <2>2
    <3>2. HolderOf(x) = <<NIno, i>> /\ x[4] = disk[Indirect][i]
      BY <3>1 DEF HolderOf
    <3> QED
      BY <1>1, <2>2, <3>2, Owners, NumbersAre
  <2> QED
    BY <1>1, <2>1, <2>2
<1>3. ASSUME NEW x \in InUse, NEW y \in InUse, HolderOf(x) = HolderOf(y) PROVE x = y
  <2>1. CASE Slots(x) /\ Slots(y)
    <3>1. PICK f \in Ino, k \in Slot : x = <<"slot", f, k, inode[f][k]>>
      BY <2>1
    <3>2. PICK g \in Ino, l \in Slot : y = <<"slot", g, l, inode[g][l]>>
      BY <2>1
    <3>3. HolderOf(x) = <<f, k>> /\ HolderOf(y) = <<g, l>>
      BY <3>1, <3>2 DEF HolderOf
    <3> QED
      BY <1>3, <3>1, <3>2, <3>3
  <2>2. CASE Words_(x) /\ Words_(y)
    <3>1. PICK i \in 0 .. Blk - 1 : x = <<"word", TheFile, i, disk[Indirect][i]>>
      BY <2>2
    <3>2. PICK j \in 0 .. Blk - 1 : y = <<"word", TheFile, j, disk[Indirect][j]>>
      BY <2>2
    <3>3. HolderOf(x) = <<NIno, i>> /\ HolderOf(y) = <<NIno, j>>
      BY <3>1, <3>2 DEF HolderOf
    <3> QED
      BY <1>3, <3>1, <3>2, <3>3
  <2>3. ASSUME NEW v \in InUse, NEW z \in InUse, Slots(v), Words_(z), HolderOf(v) = HolderOf(z)
        PROVE  FALSE
    <3>1. PICK f \in Ino, k \in Slot : v = <<"slot", f, k, inode[f][k]>>
      BY <2>3
    <3>2. PICK i \in 0 .. Blk - 1 : z = <<"word", TheFile, i, disk[Indirect][i]>>
      BY <2>3
    <3>3. HolderOf(v) = <<f, k>> /\ HolderOf(z) = <<NIno, i>>
      BY <3>1, <3>2 DEF HolderOf
    <3>4. f # NIno
      BY Owners
    <3> QED
      BY <2>3, <3>3, <3>4
  <2> HIDE DEF Slots, Words_
  <2> QED
    BY <1>1, <1>3, <2>1, <2>2, <2>3
<1>4. ASSUME NEW o \in Owner, num[o] # 0 PROVE \E x \in InUse : x[4] = num[o]
  <2>1. CASE o[1] \in Ino /\ o[2] \in Slot /\ o = <<o[1], o[2]>> /\ o[1] # NIno
    <3> DEFINE x == <<"slot", o[1], o[2], inode[o[1]][o[2]]>>
    <3>1. x[4] = num[o]
      BY <2>1, NumbersAre
    <3>2. <<o[1], o[2]>> \in Ino \X Slot
      BY <2>1
    <3>3. x \in Used
      BY <3>2 DEF Used
    <3> QED
      BY <1>4, <3>1, <3>3 DEF InUse
  <2>2. CASE o[1] = NIno /\ o[2] \in 0 .. Blk - 1 /\ o = <<o[1], o[2]>>
    <3>1. num[o] = IF Indirect = 0 THEN 0 ELSE disk[Indirect][o[2]]
      BY <2>2, NumbersAre
    <3>2. Indirect # 0
      BY <1>4, <3>1
    <3> DEFINE x == <<"word", TheFile, o[2], disk[image.inode[TheFile][Direct]][o[2]]>>
    <3>3. x[4] = num[o]
      BY <3>1, <3>2 DEF Indirect
    <3>4. <<TheFile, o[2]>> \in Words
      BY <2>2, <3>2, Members DEF Words, Indirect
    <3>5. x \in Used
      BY <3>4 DEF Used
    <3> QED
      BY <1>4, <3>3, <3>5 DEF InUse
  <2> QED
    BY <2>1, <2>2, Owners
<1> QED
  BY <1>2, <1>3, <1>4

(* Blocks held apart, in terms of the model's InUse. *)
LEMMA InvExclusive ==
  ASSUME BlocksInv
  PROVE  BlocksExclusive /\ BlocksExact
<1> DEFINE num == Numbers(inode, disk, Indirect)
<1>1. ImageOK /\ Apart(num, bitmap, lost, Blocks) /\ 0 \notin Blocks
  BY ImageFacts DEF BlocksInv, DiskApart
<1>2. /\ \A x \in InUse : HolderOf(x) \in Owner /\ num[HolderOf(x)] = x[4] /\ x[4] # 0
      /\ \A x, y \in InUse : HolderOf(x) = HolderOf(y) => x = y
      /\ \A o \in Owner : num[o] # 0 => \E x \in InUse : x[4] = num[o]
  BY <1>1, UsesAreHeld
<1> HIDE DEF num
<1>3. \A x, y \in InUse : x[4] = y[4] => x = y
  BY <1>1, <1>2 DEF Apart
<1>4. \A x \in InUse : x[4] \notin bitmap \cup lost
  BY <1>1, <1>2 DEF Apart
<1>5. \A b \in Blocks : b \in {num[o] : o \in Owner} <=> b \in {x[4] : x \in InUse}
  <2>1. ASSUME NEW o \in Owner, num[o] # 0 PROVE num[o] \in {x[4] : x \in InUse}
    BY <1>2, <2>1
  <2>2. ASSUME NEW x \in InUse PROVE x[4] \in {num[o] : o \in Owner}
    BY <1>2
  <2> QED
    BY <1>1, <2>1, <2>2
<1>6. bitmap = Blocks \ (lost \cup {x[4] : x \in InUse})
  BY <1>1, <1>5 DEF Apart
<1> QED
  BY <1>3, <1>4, <1>6 DEF BlocksExclusive, BlocksExact

(* A read of one word moves one word. *)
LEMMA ChunkOne ==
  ASSUME NEW pos \in Nat
  PROVE  Chunk(pos, 1) = 1
<1>1. PICK c : c = Chunk(pos, 1)
  OBVIOUS
<1>2. 1 \in Nat /\ 1 > 0
  OBVIOUS
<1>3. c \in Nat /\ c > 0 /\ c <= 1
  BY <1>1, <1>2, ChunkIs
<1>4. c = 1
  BY <1>3
<1> QED
  BY <1>1, <1>4

(* The first round of a read of one word. *)
LEMMA ReadOne ==
  ASSUME BlocksInv, probe[1] = TheFile, HoldsAt(inode, disk, written)
  PROVE  ReadCall(TheFile, probe[2], 1).data = <<written>>
<1> DEFINE s == Begin(probe[2])
           i == s.pos \div Blk
           w == WalkLook(s, TheFile, i)
           m == NumberOf(inode, probe)
           n == Chunk(s.pos, 1)
           more == [j \in 1 .. n |-> w.disk[Pointed(w, TheFile)][(s.pos % Blk) + j - 1]]
           r == ReadRound(s, TheFile, probe[2], 1)
           Is(f) == f = [k \in 0 .. 1 |-> IF k = 0 THEN s ELSE ReadRound(f[k - 1], TheFile, probe[2], 1)]
<1>0. /\ s.inode = inode /\ s.disk = disk /\ s.pos = probe[2] /\ s.data = <<>> /\ s.at.kind = "wild"
      /\ s.failed = FALSE /\ s.wild = FALSE
  BY DEF Begin
<1>1. /\ ImageOK /\ Shape /\ probe \in Place /\ m # 0 /\ disk[m][probe[2] % Blk] = written
      /\ probe[2] \in Nat /\ i \in Nat /\ i < Direct + Blk /\ Direct \in Nat
      /\ DiskApart(inode, bitmap, disk, lost) /\ probe[2] % Blk \in 0 .. Blk - 1 /\ Blk \in Nat
  <2>1. probe \in Place
    BY DEF BlocksInv, Shape
  <2>2. probe[2] \in Nat /\ probe[2] \div Blk \in Nat /\ probe[2] \div Blk < Direct + Blk
        /\ probe[2] % Blk \in 0 .. Blk - 1
    BY <2>1, PlaceFacts
  <2> HIDE DEF s
  <2> QED
    BY <1>0, <2>1, <2>2, Sizes DEF BlocksInv, HoldsAt
<1>3. w.at.kind # "null" /\ Pointed(w, TheFile) = m /\ w.disk = disk /\ w.data = <<>>
      /\ \A d, p : [w EXCEPT !.data = d, !.pos = p].data = d
  <2>1. CASE i < Direct
    <3>1. w = [s EXCEPT !.at = [kind |-> "slot", n |-> i]]
      BY <2>1 DEF WalkLook, InSlot
    <3>2. m = inode[TheFile][i]
      BY <1>0, <2>1 DEF NumberOf
    <3> HIDE DEF m, w, i
    <3> QED
      BY <1>0, <3>1, <3>2 DEF Pointed, Begin
  <2>2. CASE ~(i < Direct)
    <3>1. Indirect # 0 /\ m = image.disk[Indirect][i - Direct]
      BY <1>0, <1>1, <2>2 DEF NumberOf
    <3>2. inode[TheFile][Direct] = Indirect /\ disk[Indirect] = image.disk[Indirect]
      BY <1>1, <3>1, IndirectHeld DEF DiskApart
    <3>3. w = [s EXCEPT !.at = [kind |-> "copy", n |-> m]]
      BY <1>0, <2>2, <3>1, <3>2 DEF WalkLook, InCopy
    <3> HIDE DEF m, w, i
    <3> QED
      BY <1>0, <3>3 DEF Pointed, Begin
  <2> QED
    BY <2>1, <2>2
<1> HIDE DEF s, m
<1>4. n = 1
  BY <1>0, <1>1, ChunkOne
<1>5. r = [w EXCEPT !.data = @ \o more, !.pos = @ + n]
  <2>1. ~(s.failed \/ s.wild \/ s.pos >= probe[2] + 1)
    BY <1>0, <1>1
  <2> QED
    BY <1>1, <1>3, <2>1 DEF ReadRound
<1> HIDE DEF w, n, i
<1>6. more = <<written>>
  <2>1. more = [j \in 1 .. 1 |-> w.disk[Pointed(w, TheFile)][(s.pos % Blk) + j - 1]]
    BY <1>4
  <2>2. w.disk[Pointed(w, TheFile)][(s.pos % Blk) + 1 - 1] = written
    BY <1>0, <1>1, <1>3
  <2> HIDE DEF more
  <2>3. DOMAIN more = 1 .. 1 /\ more[1] = written
    BY <2>1, <2>2
  <2> QED
    BY <2>1, <2>3
<1> HIDE DEF more, r
<1>7. r.data = <<written>>
  <2>1. r = [w EXCEPT !.data = <<>> \o more, !.pos = w.pos + n]
    BY <1>3, <1>5
  <2>2. r.data = <<>> \o more
    BY <1>3, <2>1
  <2> QED
    BY <1>6, <2>2
<1>8. PICK f : f = [k \in 0 .. 1 |-> IF k = 0 THEN s ELSE r]
  OBVIOUS
<1>9. Is(f)
  <2>1. ASSUME NEW k \in 0 .. 1, k # 0 PROVE ReadRound(f[k - 1], TheFile, probe[2], 1) = r
    <3>1. k - 1 = 0 /\ 0 \in 0 .. 1
      BY <2>1
    <3> QED
      BY <1>8, <3>1 DEF r
  <2> QED
    BY <1>8, <2>1
<1>10. PICK g : g = CHOOSE h : Is(h)
  OBVIOUS
<1>11. Is(g)
  <2> HIDE DEF Is
  <2> QED
    BY <1>9, <1>10
<1>12. g[1] = r
  <2>1. 0 \in 0 .. 1 /\ 1 \in 0 .. 1 /\ 1 - 1 = 0
    OBVIOUS
  <2>2. g[0] = s
    BY <1>11, <2>1
  <2> QED
    BY <1>11, <2>1, <2>2 DEF r
<1>13. ReadCall(TheFile, probe[2], 1) = g[1]
  BY <1>10 DEF ReadCall, s
<1> QED
  BY <1>7, <1>12, <1>13

(* What is at the probe is what a lookup or a read of one word finds. *)
LEMMA InvReadBack ==
  ASSUME BlocksInv
  PROVE  ReadBack
<1> SUFFICES ASSUME ~spilled, Kept PROVE Found
  BY DEF ReadBack
<1>1. ImageOK /\ Shape /\ Held /\ probe \in Place
  BY DEF BlocksInv, Shape
<1>2. CASE probe[1] = Root
  <2>1. probe[2] = 0 /\ Blk \in Nat /\ Blk > 0 /\ Direct > 0 /\ Direct \in Nat /\ TheFile = 1
    BY <1>1, <1>2, Members, Sizes DEF Place
  <2>2. 0 \div Blk = 0 /\ 0 % Blk = 0
    <3>1. 0 = Blk * 0 + 0 /\ 0 \in 0 .. Blk - 1
      BY <2>1
    <3> QED
      BY <2>1, <3>1, DivModUnique
  <2>3. written = TheFile /\ written # -1
    BY <1>1, <1>2, <2>1 DEF Shape
  <2>4. HoldsAt(inode, disk, TheFile)
    BY <1>1, <2>3 DEF Held
  <2>5. inode[Root][0] # 0 /\ disk[inode[Root][0]][0] = TheFile
    BY <1>2, <2>1, <2>2, <2>4 DEF HoldsAt, NumberOf
  <2>6. image.size[Root] \div Blk = 1
    <3>1. image.size[Root] = Blk
      BY <1>1 DEF ImageOK, ImageHolds
    <3>2. Blk = Blk * 1 + 0 /\ 0 \in 0 .. Blk - 1
      BY <2>1
    <3> QED
      BY <2>1, <3>1, <3>2, DivModUnique
  <2>7. 0 \in 0 .. (image.size[Root] \div Blk) - 1 /\ 0 \in 0 .. Blk - 1
    BY <2>1, <2>6
  <2>8. LookUp(TheFile)
    BY <2>5, <2>7 DEF LookUp
  <2> QED
    BY <1>2, <2>8 DEF Found
<1>3. CASE probe[1] # Root
  <2>1. probe[1] = TheFile
    BY <1>1, <1>3, PlaceFacts
  <2>2. ASSUME written # -1 PROVE ReadCall(probe[1], probe[2], 1).data = <<written>>
    <3>1. HoldsAt(inode, disk, written)
      BY <1>1, <2>2 DEF Held
    <3> QED
      BY <2>1, <3>1, ReadOne
  <2> QED
    BY <1>3, <2>2 DEF Found
<1> QED
  BY <1>2, <1>3

(* The invariant implies the type invariant. *)
LEMMA InvType ==
  ASSUME BlocksInv
  PROVE  TypeOK
<1>1. Blocks \subseteq Block
  BY DEF BlocksInv, ImageOK
<1> QED
  BY <1>1 DEF BlocksInv, Shape, TypeOK, Word

------------------------------------------------------------------------------
(* mkxxx makes a sound image *)

(* The numbers held in an image under construction. *)
Num(img) == Numbers(img.inode, img.disk, img.inode[TheFile][Direct])

(* Its free blocks are still zero (get_free_block relies on it). *)
ZeroFree(img) == \A b \in img.bitmap, i \in 0 .. Blk - 1 : img.disk[b][i] = 0

(* An image under construction, on a disk with the blocks B. *)
Sound(img, B) == img \in Images(B) /\ ImageApart(img, B) /\ ZeroFree(img)

(* Blocks were added to the file, and nothing was lost. *)
Extends(img, t, B) ==
  /\ t.size = img.size
  /\ \A o \in Owner : Num(img)[o] # 0 => Num(t)[o] = Num(img)[o]
  /\ \A b \in B : b # t.inode[TheFile][Direct] => t.disk[b] = img.disk[b]

(* The owner of the number of a block of the file. *)
IndexOwner(i) == IF i < Direct THEN <<TheFile, i>> ELSE <<NIno, i - Direct>>

(* That owner can be neither the indirect block nor the directory. *)
LEMMA IndexOwnerIs ==
  ASSUME NEW i \in Nat, i < Direct + Blk
  PROVE  IndexOwner(i) \in Owner /\ IndexOwner(i) # <<TheFile, Direct>> /\ IndexOwner(i) # <<Root, 0>>
<1>1. CASE i < Direct
  <2>1. i \in Slot /\ i # Direct /\ TheFile \in Ino /\ TheFile # Root
    BY <1>1, Sizes, Members DEF Slot
  <2> QED
    BY <1>1, <2>1, Owners DEF IndexOwner
<1>2. CASE ~(i < Direct)
  <2>1. i - Direct \in 0 .. Blk - 1 /\ TheFile \in Ino /\ Root \in Ino /\ Direct \in Slot /\ 0 \in Slot
    BY <1>2, Sizes, Members
  <2>2. TheFile # NIno /\ Root # NIno
    BY <2>1, Owners
  <2> QED
    BY <1>2, <2>1, <2>2, Owners DEF IndexOwner
<1> QED
  BY <1>1, <1>2

(* It holds what walking to block i of the file finds. *)
LEMMA IndexNumber ==
  ASSUME NEW img, NEW i \in Nat, i < Direct + Blk
  PROVE  NumberAt(img, TheFile, i) = Num(img)[IndexOwner(i)]
<1>1. CASE i < Direct
  <2>1. i \in Slot /\ TheFile \in Ino
    BY <1>1, Sizes, Members DEF Slot
  <2> QED
    BY <1>1, <2>1, NumbersAre DEF IndexOwner, Num, NumberAt
<1>2. CASE ~(i < Direct)
  <2>1. i - Direct \in 0 .. Blk - 1
    BY <1>2, Sizes
  <2> QED
    BY <1>2, <2>1, NumbersAre DEF IndexOwner, Num, NumberAt
<1> QED
  BY <1>1, <1>2

(* The fields of an image under construction. *)
LEMMA ImageFields ==
  ASSUME NEW B, NEW img \in Images(B)
  PROVE  /\ img.inode \in [Ino -> [Slot -> B \cup {0}]] /\ img.size \in [Ino -> Nat]
         /\ img.bitmap \subseteq B /\ img.inodes \subseteq Ino
         /\ img.disk \in [B -> [0 .. Blk - 1 -> Word]] /\ img.failed \in BOOLEAN
BY DEF Images

(* The first free block is one of the disk. *)
LEMMA FirstFree ==
  ASSUME NEW B \in SUBSET Block, NEW img \in Images(B), img.bitmap # {}
  PROVE  Min(img.bitmap) \in img.bitmap /\ Min(img.bitmap) \in B
<1>1. img.bitmap \in SUBSET Nat /\ img.bitmap \subseteq B
  BY ImageFields, Members
<1> QED
  BY <1>1, MinLemma

(* walk_block of mkxxx: a zeroed block becomes the indirect one. *)
LEMMA WalkedSound ==
  ASSUME NEW B \in SUBSET Block, NEW img, Sound(img, B), NEW i \in Nat
  PROVE  LET w == Walked(img, TheFile, i)
         IN  /\ Sound(w, B) /\ Extends(img, w, B) /\ w.failed = img.failed
             /\ w.bitmap = {} \/ i < Direct \/ w.inode[TheFile][Direct] # 0
             /\ img.bitmap = {} => w = img
<1> DEFINE w == Walked(img, TheFile, i)
<1>1. CASE i < Direct \/ img.inode[TheFile][Direct] # 0 \/ img.bitmap = {}
  <2>1. w = img
    BY <1>1 DEF Walked
  <2> HIDE DEF w
  <2>2. /\ Sound(w, B) /\ Extends(img, w, B) /\ w.failed = img.failed
        /\ w.bitmap = {} \/ i < Direct \/ w.inode[TheFile][Direct] # 0
        /\ img.bitmap = {} => w = img
    BY <1>1, <2>1 DEF Extends
  <2> QED
    BY <2>2 DEF w
<1>2. CASE ~(i < Direct) /\ img.inode[TheFile][Direct] = 0 /\ img.bitmap # {}
  <2>0. PICK b : b = Min(img.bitmap)
    OBVIOUS
  <2>1. img \in Images(B) /\ ImageApart(img, B) /\ ZeroFree(img)
    BY DEF Sound
  <2>2. b \in img.bitmap /\ b \in B /\ b # 0 /\ 0 \notin B
    BY <1>2, <2>0, <2>1, FirstFree, Members
  <2>3. TheFile \in Ino /\ Direct \in Slot
    BY Members
  <2> DEFINE ino == [img.inode EXCEPT ![TheFile][Direct] = b]
             free == img.bitmap \ {b}
  <2>4. w = [img EXCEPT !.bitmap = free, !.inode = ino]
    <3>1. w = [[img EXCEPT !.bitmap = free] EXCEPT !.inode[TheFile][Direct] = b]
      BY <1>2, <2>0 DEF Walked, TakeBlock
    <3> QED
      BY <2>1, <3>1 DEF Images
  <2>5. \A f \in Ino, k \in Slot : ino[f][k] = IF f = TheFile /\ k = Direct THEN b ELSE img.inode[f][k]
    BY <2>1, <2>3, ImageFields
  <2>6. ino \in [Ino -> [Slot -> B \cup {0}]]
    BY <2>1, <2>2, <2>3, ImageFields
  <2>7. ino[TheFile][Direct] = b
    BY <2>3, <2>5
  <2> HIDE DEF w, ino, free
  <2>8. w \in Images(B)
    <3>1. free \subseteq B
      BY <2>1, ImageFields DEF free
    <3> QED
      BY <2>1, <2>4, <2>6, <3>1 DEF Images
  <2>9. /\ w.inode = ino /\ w.bitmap = free /\ w.size = img.size /\ w.inodes = img.inodes
        /\ w.disk = img.disk /\ w.failed = img.failed
    BY <2>1, <2>4 DEF Images
  <2>10. \A o \in Owner : Num(w)[o] = IF o = <<TheFile, Direct>> THEN b ELSE Num(img)[o]
    <3>1. ASSUME NEW f \in Ino, NEW k \in Slot
          PROVE  Num(w)[<<f, k>>] = IF <<f, k>> = <<TheFile, Direct>> THEN b ELSE Num(img)[<<f, k>>]
      <4>1. Num(w)[<<f, k>>] = ino[f][k] /\ Num(img)[<<f, k>>] = img.inode[f][k]
        BY <2>9, NumbersAre DEF Num
      <4> QED
        BY <2>5, <4>1
    <3>2. ASSUME NEW j \in 0 .. Blk - 1
          PROVE  Num(w)[<<NIno, j>>] = Num(img)[<<NIno, j>>] /\ <<NIno, j>> # <<TheFile, Direct>>
      <4>1. Num(w)[<<NIno, j>>] = img.disk[b][j]
        BY <2>2, <2>7, <2>9, NumbersAre DEF Num
      <4>2. Num(img)[<<NIno, j>>] = 0
        BY <1>2, NumbersAre DEF Num
      <4>3. img.disk[b][j] = 0
        BY <2>1, <2>2 DEF ZeroFree
      <4> QED
        BY <2>3, <4>1, <4>2, <4>3, Owners
    <3> SUFFICES ASSUME NEW o \in Owner
                 PROVE  Num(w)[o] = IF o = <<TheFile, Direct>> THEN b ELSE Num(img)[o]
      OBVIOUS
    <3> QED
      BY <3>1, <3>2, Owners
  <2>11. Num(img)[<<TheFile, Direct>>] = 0 /\ <<TheFile, Direct>> \in Owner
    BY <1>2, <2>3, NumbersAre, Owners DEF Num
  <2>12. ImageApart(w, B)
    <3>1. Apart(Num(img), img.bitmap, {}, B)
      BY <2>1 DEF ImageApart, Num
    <3>2. Apart(Num(w), free, {}, B)
      BY <2>2, <2>10, <2>11, <3>1, TakeHeld DEF free
    <3>3. \A f \in Ino \ {TheFile} : w.inode[f][Direct] = 0
      BY <2>1, <2>3, <2>5, <2>9 DEF ImageApart
    <3>4. \A j \in 0 .. Blk - 1 : w.disk[b][j] \in B \cup {0}
      BY <2>1, <2>2, <2>9 DEF ZeroFree
    <3> QED
      BY <2>7, <2>9, <3>2, <3>3, <3>4 DEF ImageApart, Num
  <2>13. ZeroFree(w)
    BY <2>1, <2>9 DEF ZeroFree, free
  <2>14. Extends(img, w, B)
    BY <2>9, <2>10, <2>11 DEF Extends
  <2>15. /\ Sound(w, B) /\ Extends(img, w, B) /\ w.failed = img.failed
         /\ w.bitmap = {} \/ i < Direct \/ w.inode[TheFile][Direct] # 0
         /\ img.bitmap = {} => w = img
    BY <1>2, <2>2, <2>7, <2>8, <2>9, <2>12, <2>13, <2>14 DEF Sound
  <2> QED
    BY <2>15 DEF w
<1> QED
  BY <1>1, <1>2

(* An image on which something failed is as sound as before. *)
LEMMA FailedSound ==
  ASSUME NEW B, NEW img, Sound(img, B)
  PROVE  \A t : t = [img EXCEPT !.failed = TRUE] =>
           /\ Sound(t, B) /\ t.failed = TRUE /\ t.bitmap = img.bitmap
           /\ t.inode = img.inode /\ t.disk = img.disk /\ t.size = img.size
<1> SUFFICES ASSUME NEW t, t = [img EXCEPT !.failed = TRUE]
             PROVE  /\ Sound(t, B) /\ t.failed = TRUE /\ t.bitmap = img.bitmap
                    /\ t.inode = img.inode /\ t.disk = img.disk /\ t.size = img.size
  OBVIOUS
<1>1. /\ t \in Images(B) /\ t.failed = TRUE /\ t.bitmap = img.bitmap
      /\ t.inode = img.inode /\ t.disk = img.disk /\ t.size = img.size
  BY DEF Sound, Images
<1> QED
  BY <1>1 DEF Sound, ImageApart, ZeroFree

(* The store through diskno: the first free block goes to block i of the   *)
(* file.                                                                   *)
LEMMA GivenSound ==
  ASSUME NEW B \in SUBSET Block, NEW w, Sound(w, B), w.bitmap # {}, NEW i \in Nat, i < Direct + Blk,
         i < Direct \/ w.inode[TheFile][Direct] # 0, NumberAt(w, TheFile, i) = 0
  PROVE  LET t == SetNumber(TakeBlock(w), TheFile, i, Min(w.bitmap))
         IN  /\ Sound(t, B) /\ Extends(w, t, B) /\ t.failed = w.failed
             /\ NumberAt(t, TheFile, i) # 0
<1> DEFINE free == w.bitmap \ {Min(w.bitmap)}
<1>0. PICK t, ind, b : /\ t = SetNumber(TakeBlock(w), TheFile, i, Min(w.bitmap))
                      /\ ind = w.inode[TheFile][Direct] /\ b = Min(w.bitmap)
  OBVIOUS
<1>1. w \in Images(B) /\ ImageApart(w, B) /\ ZeroFree(w) /\ Apart(Num(w), w.bitmap, {}, B)
  BY DEF Sound, ImageApart, Num
<1>2. b \in w.bitmap /\ b \in B /\ b # 0 /\ 0 \notin B /\ free = w.bitmap \ {b} /\ b \in Word
  BY <1>0, <1>1, FirstFree, Members DEF Word
<1>3. TheFile \in Ino /\ Direct \in Slot /\ <<TheFile, Direct>> \in Owner
      /\ IndexOwner(i) \in Owner /\ IndexOwner(i) # <<TheFile, Direct>>
  BY Members, Owners, IndexOwnerIs
<1>4. Num(w)[IndexOwner(i)] = 0
  BY IndexNumber
<1>5. ind # 0 => ind \in B /\ ind \notin w.bitmap
  <2>1. Num(w)[<<TheFile, Direct>>] = ind
    BY <1>0, <1>3, NumbersAre DEF Num
  <2>2. w.inode[TheFile] \in [Slot -> B \cup {0}]
    BY <1>1, <1>3, ImageFields
  <2>3. ind \in B \cup {0}
    BY <1>0, <1>3, <2>2
  <2> QED
    BY <1>1, <1>3, <2>1, <2>3 DEF Apart
<1>6. TakeBlock(w) = [w EXCEPT !.bitmap = free]
  BY DEF TakeBlock
<1> DEFINE Result ==
      /\ t \in Images(B) /\ t.bitmap = free /\ t.size = w.size /\ t.failed = w.failed
      /\ t.inode[TheFile][Direct] = ind
      /\ \A o \in Owner : Num(t)[o] = IF o = IndexOwner(i) THEN b ELSE Num(w)[o]
      /\ \A c \in B : c # ind => t.disk[c] = w.disk[c]
      /\ \A f \in Ino \ {TheFile} : t.inode[f][Direct] = w.inode[f][Direct]
      /\ ind # 0 => \A j \in 0 .. Blk - 1 : t.disk[ind][j] \in B \cup {0}
<1> HIDE DEF free
<1>7. ASSUME i < Direct PROVE Result
  <2> DEFINE ino == [w.inode EXCEPT ![TheFile][i] = b]
  <2>1. i \in Slot /\ i # Direct
    BY <1>7, Sizes DEF Slot
  <2>2. t = [w EXCEPT !.bitmap = free, !.inode = ino]
    <3>1. t = [[w EXCEPT !.bitmap = free] EXCEPT !.inode[TheFile][i] = b]
      BY <1>0, <1>6, <1>7 DEF SetNumber
    <3> QED
      BY <1>1, <3>1 DEF Images
  <2>3. \A f \in Ino, k \in Slot : ino[f][k] = IF f = TheFile /\ k = i THEN b ELSE w.inode[f][k]
    BY <1>1, <1>3, <2>1, ImageFields
  <2>4. ino \in [Ino -> [Slot -> B \cup {0}]]
    BY <1>1, <1>2, <1>3, <2>1, ImageFields
  <2> HIDE DEF ino
  <2>5. t \in Images(B)
    <3>1. free \subseteq B
      BY <1>1, <1>2, ImageFields
    <3> QED
      BY <1>1, <2>2, <2>4, <3>1 DEF Images
  <2>6. t.inode = ino /\ t.bitmap = free /\ t.size = w.size /\ t.disk = w.disk /\ t.failed = w.failed
    BY <1>1, <2>2 DEF Images
  <2>7. t.inode[TheFile][Direct] = ind
    BY <1>0, <1>3, <2>1, <2>3, <2>6
  <2>8. \A o \in Owner : Num(t)[o] = IF o = IndexOwner(i) THEN b ELSE Num(w)[o]
    <3>1. \A f \in Ino, l \in Slot : f # TheFile \/ l # i => ino[f][l] = w.inode[f][l]
      BY <2>3
    <3>2. \A o \in Owner : Numbers(ino, w.disk, ind)[o]
                             = IF o = <<TheFile, i>> THEN ino[TheFile][i] ELSE Numbers(w.inode, w.disk, ind)[o]
      BY <1>3, <2>1, <3>1, NumbersSlot
    <3>3. Num(t) = Numbers(ino, w.disk, ind) /\ Num(w) = Numbers(w.inode, w.disk, ind)
      BY <1>0, <2>6, <2>7 DEF Num
    <3>4. IndexOwner(i) = <<TheFile, i>> /\ ino[TheFile][i] = b
      BY <1>3, <1>7, <2>1, <2>3 DEF IndexOwner
    <3> QED
      BY <3>2, <3>3, <3>4
  <2>9. \A f \in Ino \ {TheFile} : t.inode[f][Direct] = w.inode[f][Direct]
    BY <1>3, <2>3, <2>6
  <2>10. ind # 0 => \A j \in 0 .. Blk - 1 : t.disk[ind][j] \in B \cup {0}
    BY <1>0, <1>1, <2>6 DEF ImageApart
  <2>11. Result
    BY <2>5, <2>6, <2>7, <2>8, <2>9, <2>10
  <2> QED
    BY <2>11
<1>8. ASSUME ~(i < Direct) PROVE Result
  <2>1. ind # 0 /\ i - Direct \in 0 .. Blk - 1 /\ IndexOwner(i) = <<NIno, i - Direct>>
    BY <1>0, <1>8, Sizes DEF IndexOwner
  <2>2. PICK j : j = i - Direct
    OBVIOUS
  <2> DEFINE dsk == [w.disk EXCEPT ![ind][j] = b]
  <2>3. t = [w EXCEPT !.bitmap = free, !.disk = dsk]
    <3>1. t = [[w EXCEPT !.bitmap = free] EXCEPT !.disk[[w EXCEPT !.bitmap = free].inode[TheFile][Direct]][i - Direct] = b]
      BY <1>0, <1>6, <1>8 DEF SetNumber
    <3>2. [w EXCEPT !.bitmap = free].inode[TheFile][Direct] = ind
      BY <1>0, <1>1 DEF Images
    <3> QED
      BY <1>1, <2>2, <3>1, <3>2 DEF Images
  <2>4. j \in 0 .. Blk - 1 /\ ind \in B /\ ind \notin w.bitmap
    BY <1>5, <2>1, <2>2
  <2>5. \A c \in B, l \in 0 .. Blk - 1 : dsk[c][l] = IF c = ind /\ l = j THEN b ELSE w.disk[c][l]
    <3>1. w.disk \in [B -> [0 .. Blk - 1 -> Word]]
      BY <1>1, ImageFields
    <3> QED
      BY <2>4, <3>1
  <2>6. dsk \in [B -> [0 .. Blk - 1 -> Word]] /\ \A c \in B : c # ind => dsk[c] = w.disk[c]
    BY <1>1, <1>2, <2>4, ImageFields
  <2> HIDE DEF dsk
  <2>7. t \in Images(B)
    <3>1. free \subseteq B
      BY <1>1, <1>2, ImageFields
    <3> QED
      BY <1>1, <2>3, <2>6, <3>1 DEF Images
  <2>8. t.inode = w.inode /\ t.bitmap = free /\ t.size = w.size /\ t.disk = dsk /\ t.failed = w.failed
    BY <1>1, <2>3 DEF Images
  <2>9. t.inode[TheFile][Direct] = ind
    BY <1>0, <2>8
  <2>10. \A o \in Owner : Num(t)[o] = IF o = IndexOwner(i) THEN b ELSE Num(w)[o]
    <3>1. ASSUME NEW f \in Ino, NEW k \in Slot
          PROVE  Num(t)[<<f, k>>] = Num(w)[<<f, k>>] /\ <<f, k>> # IndexOwner(i)
      BY <2>1, <2>8, NumbersAre, Owners DEF Num
    <3>2. ASSUME NEW l \in 0 .. Blk - 1
          PROVE  Num(t)[<<NIno, l>>] = IF <<NIno, l>> = IndexOwner(i) THEN b ELSE Num(w)[<<NIno, l>>]
      <4>1. Num(t)[<<NIno, l>>] = dsk[ind][l] /\ Num(w)[<<NIno, l>>] = w.disk[ind][l]
        BY <1>0, <2>1, <2>8, <2>9, NumbersAre DEF Num
      <4>2. dsk[ind][l] = IF l = j THEN b ELSE w.disk[ind][l]
        BY <2>4, <2>5
      <4> QED
        BY <2>1, <2>2, <4>1, <4>2
    <3> SUFFICES ASSUME NEW o \in Owner
                 PROVE  Num(t)[o] = IF o = IndexOwner(i) THEN b ELSE Num(w)[o]
      OBVIOUS
    <3> QED
      BY <3>1, <3>2, Owners
  <2>11. \A l \in 0 .. Blk - 1 : t.disk[ind][l] \in B \cup {0}
    <3>1. \A l \in 0 .. Blk - 1 : w.disk[ind][l] \in B \cup {0}
      BY <1>0, <1>1, <2>1 DEF ImageApart
    <3> QED
      BY <1>2, <2>4, <2>5, <2>8, <3>1
  <2>12. Result
    BY <2>6, <2>7, <2>8, <2>9, <2>10, <2>11
  <2> QED
    BY <2>12
<1>9. Result
  BY <1>7, <1>8
<1>10. ImageApart(t, B)
  <2>1. Apart(Num(t), free, {}, B)
    BY <1>1, <1>2, <1>3, <1>4, <1>9, TakeHeld
  <2>2. Apart(Numbers(t.inode, t.disk, t.inode[TheFile][Direct]), t.bitmap, {}, B)
    BY <1>9, <2>1 DEF Num
  <2>3. \A f \in Ino \ {TheFile} : t.inode[f][Direct] = 0
    BY <1>1, <1>9 DEF ImageApart
  <2> QED
    BY <1>9, <2>2, <2>3 DEF ImageApart
<1>11. ZeroFree(t)
  <2>1. ASSUME NEW c \in free PROVE t.disk[c] = w.disk[c] /\ c \in w.bitmap
    <3>1. c \in w.bitmap /\ c \in B
      BY <1>1, <1>2, ImageFields
    <3>2. c # ind
      BY <1>2, <1>5, <3>1, Members
    <3> QED
      BY <1>9, <3>1, <3>2
  <2> QED
    BY <1>1, <1>9, <2>1 DEF ZeroFree
<1>12. Extends(w, t, B)
  BY <1>4, <1>9 DEF Extends
<1>13. NumberAt(t, TheFile, i) # 0
  <2>1. NumberAt(t, TheFile, i) = Num(t)[IndexOwner(i)]
    BY IndexNumber
  <2> QED
    BY <1>2, <1>3, <1>9, <2>1
<1>14. /\ Sound(t, B) /\ Extends(w, t, B) /\ t.failed = w.failed
       /\ NumberAt(t, TheFile, i) # 0
  BY <1>9, <1>10, <1>11, <1>12, <1>13 DEF Sound
<1> QED
  BY <1>0, <1>14

(* A block for block i of the file, if it has none. *)
LEMMA WithBlockSound ==
  ASSUME NEW B \in SUBSET Block, NEW img, Sound(img, B), NEW i \in Nat,
         i < Direct + Blk \/ img.bitmap = {}, img.failed => img.bitmap = {}
  PROVE  LET t == WithBlock(img, TheFile, i)
         IN  /\ Sound(t, B) /\ Extends(img, t, B) /\ (t.failed => t.bitmap = {})
             /\ NumberAt(t, TheFile, i) # 0 \/ t.failed
             /\ img.failed => t.failed
<1>0. PICK w, t : w = Walked(img, TheFile, i) /\ t = WithBlock(img, TheFile, i)
  OBVIOUS
<1>1. /\ Sound(w, B) /\ Extends(img, w, B) /\ w.failed = img.failed
      /\ w.bitmap = {} \/ i < Direct \/ w.inode[TheFile][Direct] # 0
      /\ img.bitmap = {} => w = img
  BY <1>0, WalkedSound
<1>2. t = IF NumberAt(w, TheFile, i) # 0 THEN w
          ELSE IF w.bitmap = {} THEN [w EXCEPT !.failed = TRUE]
          ELSE SetNumber(TakeBlock(w), TheFile, i, Min(w.bitmap))
  BY <1>0 DEF WithBlock
<1> DEFINE Result == /\ Sound(t, B) /\ Extends(img, t, B) /\ (t.failed => t.bitmap = {})
                     /\ NumberAt(t, TheFile, i) # 0 \/ t.failed
                     /\ img.failed => t.failed
<1>3. ASSUME NumberAt(w, TheFile, i) # 0 PROVE Result
  BY <1>1, <1>2, <1>3
<1>4. ASSUME NumberAt(w, TheFile, i) = 0, w.bitmap = {} PROVE Result
  <2>1. t = [w EXCEPT !.failed = TRUE]
    BY <1>2, <1>4
  <2>2. Sound(t, B) /\ t.failed = TRUE /\ t.bitmap = w.bitmap
        /\ t.inode = w.inode /\ t.disk = w.disk /\ t.size = w.size
    <3>1. Sound(w, B)
      BY <1>1
    <3>2. \A u : u = [w EXCEPT !.failed = TRUE] =>
            /\ Sound(u, B) /\ u.failed = TRUE /\ u.bitmap = w.bitmap
            /\ u.inode = w.inode /\ u.disk = w.disk /\ u.size = w.size
      BY <3>1, FailedSound
    <3> QED
      BY <2>1, <3>2
  <2>3. Extends(img, t, B)
    BY <1>1, <2>2 DEF Extends, Num
  <2> QED
    BY <1>4, <2>2, <2>3
<1>5. ASSUME NumberAt(w, TheFile, i) = 0, w.bitmap # {} PROVE Result
  <2>1. t = SetNumber(TakeBlock(w), TheFile, i, Min(w.bitmap)) /\ i < Direct + Blk
        /\ (i < Direct \/ w.inode[TheFile][Direct] # 0)
    BY <1>1, <1>2, <1>5
  <2>2. Sound(t, B) /\ Extends(w, t, B) /\ t.failed = w.failed /\ NumberAt(t, TheFile, i) # 0
    BY <1>1, <1>5, <2>1, GivenSound
  <2>3. ~t.failed /\ ~img.failed
    BY <1>1, <1>5, <2>2
  <2>4. t.size = img.size /\ \A o \in Owner : Num(img)[o] # 0 => Num(t)[o] = Num(img)[o]
    BY <1>1, <2>2 DEF Extends
  <2>5. ASSUME NEW b \in B, b # t.inode[TheFile][Direct] PROVE t.disk[b] = img.disk[b]
    <3>1. TheFile \in Ino /\ Direct \in Slot /\ <<TheFile, Direct>> \in Owner
      BY Members, Owners
    <3>2. t.disk[b] = w.disk[b]
      BY <2>2, <2>5 DEF Extends
    <3>3. CASE b # w.inode[TheFile][Direct]
      BY <1>1, <3>2, <3>3 DEF Extends
    <3>4. CASE b = w.inode[TheFile][Direct]
      <4>1. Num(w)[<<TheFile, Direct>>] = b /\ b # 0
        BY <3>1, <3>4, Members, NumbersAre DEF Num
      <4>2. Num(t)[<<TheFile, Direct>>] = b
        BY <2>2, <3>1, <4>1 DEF Extends
      <4>3. t.inode[TheFile][Direct] = b
        BY <3>1, <4>2, NumbersAre DEF Num
      <4> QED
        BY <2>5, <4>3
    <3> QED
      BY <3>3, <3>4
  <2>6. Extends(img, t, B)
    BY <2>4, <2>5 DEF Extends
  <2> QED
    BY <2>2, <2>3, <2>6
<1>6. Result
  BY <1>3, <1>4, <1>5
<1> QED
  BY <1>0, <1>6

(* What the file and the directory held, they hold. *)
LEMMA ExtendedHolds ==
  ASSUME NEW B \in SUBSET Block, NEW text, Len(text) \in Nat, Len(text) <= Blk * (Direct + Blk),
         NEW img, Sound(img, B), ImageHolds(img, text),
         NEW t, Sound(t, B), Extends(img, t, B)
  PROVE  ImageHolds(t, text)
<1>1. /\ Root \in Ino /\ TheFile \in Ino /\ 0 \in Slot /\ Direct \in Slot /\ Direct # 0 /\ Root # TheFile
      /\ Blk \in Nat /\ Blk > 0 /\ Direct \in Nat /\ Direct + Blk \in Nat
  BY Members, Sizes
<1>2. /\ <<Root, 0>> \in Owner /\ <<TheFile, Direct>> \in Owner
      /\ <<Root, 0>> # <<TheFile, Direct>>
  BY <1>1, Owners
<1>3. img \in Images(B) /\ t \in Images(B) /\ Apart(Num(t), t.bitmap, {}, B)
  BY DEF Sound, ImageApart, Num
<1>4. t.inode[TheFile][Direct] = Num(t)[<<TheFile, Direct>>]
  BY <1>1, NumbersAre DEF Num
<1>5. ASSUME NEW o \in Owner, o # <<TheFile, Direct>>, Num(img)[o] # 0
      PROVE  Num(t)[o] = Num(img)[o] /\ t.disk[Num(t)[o]] = img.disk[Num(t)[o]]
  <2>1. Num(t)[o] = Num(img)[o]
    BY <1>5 DEF Extends
  <2>2. Num(t)[o] # t.inode[TheFile][Direct]
    BY <1>2, <1>3, <1>4, <1>5, <2>1 DEF Apart
  <2>3. Num(t)[o] \in B
    <3>1. t.inode \in [Ino -> [Slot -> B \cup {0}]]
      BY <1>3, ImageFields
    <3>2. \A k \in 0 .. Blk - 1 :
            t.inode[TheFile][Direct] # 0 => t.disk[t.inode[TheFile][Direct]][k] \in B \cup {0}
      BY DEF Sound, ImageApart
    <3>3. Num(t) \in [Owner -> B \cup {0}]
      BY <3>1, <3>2, NumbersType DEF Num
    <3> HIDE DEF Num
    <3> QED
      BY <1>5, <2>1, <3>3
  <2> QED
    BY <2>1, <2>2, <2>3 DEF Extends
<1>6. t.size = img.size
  BY DEF Extends
<1>7. t.inode[Root][0] # 0 /\ t.disk[t.inode[Root][0]][0] = TheFile
  <2>1. Num(img)[<<Root, 0>>] = img.inode[Root][0] /\ Num(t)[<<Root, 0>>] = t.inode[Root][0]
    BY <1>1, NumbersAre DEF Num
  <2>2. img.inode[Root][0] # 0 /\ img.disk[img.inode[Root][0]][0] = TheFile
    BY DEF ImageHolds
  <2> QED
    BY <1>2, <1>5, <2>1, <2>2
<1>8. ASSUME NEW u \in 0 .. t.size[TheFile] - 1
      PROVE  /\ NumberAt(t, TheFile, u \div Blk) # 0
             /\ t.disk[NumberAt(t, TheFile, u \div Blk)][u % Blk] = text[u + 1]
  <2>1. t.size[TheFile] \in Nat /\ t.size[TheFile] <= Len(text)
    BY <1>1, <1>3, <1>6, ImageFields DEF ImageHolds
  <2>2. u \in Nat /\ u < Blk * (Direct + Blk)
    <3>1. Blk * (Direct + Blk) \in Nat
      BY <1>1
    <3> QED
      BY <2>1, <3>1
  <2>3. u \div Blk \in Nat /\ u \div Blk < Direct + Blk
    BY <1>1, <2>2, BlockBound, DivModRange
  <2>4. PICK i : i = u \div Blk
    OBVIOUS
  <2>5. /\ NumberAt(img, TheFile, i) = Num(img)[IndexOwner(i)]
        /\ NumberAt(t, TheFile, i) = Num(t)[IndexOwner(i)]
        /\ IndexOwner(i) \in Owner /\ IndexOwner(i) # <<TheFile, Direct>>
    BY <2>3, <2>4, IndexNumber, IndexOwnerIs
  <2>6. NumberAt(img, TheFile, i) # 0 /\ img.disk[NumberAt(img, TheFile, i)][u % Blk] = text[u + 1]
    BY <1>6, <2>4 DEF ImageHolds
  <2> QED
    BY <1>5, <2>4, <2>5, <2>6
<1> QED
  BY <1>6, <1>7, <1>8 DEF ImageHolds

(* How far the file is written after k chunks. *)
SizeAfter(text, k) == IF k * Blk < Len(text) THEN k * Blk ELSE Len(text)

(* The length of a sequence given by its elements. *)
LEMMA LengthIs ==
  ASSUME NEW n \in Nat, NEW f, f = [k \in 1 .. n |-> f[k]]
  PROVE  Len(f) = n
<1> DEFINE S == {f[k] : k \in 1 .. n}
<1>1. \A k \in 1 .. n : f[k] \in S
  OBVIOUS
<1> HIDE DEF S
<1>2. f \in [1 .. n -> S]
  BY <1>1
<1>3. f \in Seq(S)
  BY <1>2
<1>4. Len(f) \in Nat /\ DOMAIN f = 1 .. Len(f) /\ DOMAIN f = 1 .. n
  BY <1>2, <1>3
<1> QED
  BY <1>4

(* The reads of mkxxx: read k starts at (k - 1) * Blk and is full unless   *)
(* it is the last.                                                         *)
LEMMA ChunksAre ==
  ASSUME NEW text \in Seq(Value)
  PROVE  /\ Len(Chunks(text)) \in Nat
         /\ \A k \in 1 .. Len(Chunks(text)) :
              /\ (k - 1) * Blk < Len(text)
              /\ Len(Chunks(text)[k]) \in Nat /\ Len(Chunks(text)[k]) <= Blk
              /\ (k - 1) * Blk + Len(Chunks(text)[k]) = SizeAfter(text, k)
              /\ \A j \in 1 .. Len(Chunks(text)[k]) :
                   Chunks(text)[k][j] = text[(k - 1) * Blk + j] /\ Chunks(text)[k][j] \in Value
<1>0. PICK l, z : l = Len(text) /\ z = Blk
  OBVIOUS
<1>1. l \in Nat /\ z \in Nat /\ z > 0
  BY <1>0, Sizes
<1>2. PICK n : n = (l + z - 1) \div z
  OBVIOUS
<1>3. n \in Nat /\ \E r \in 0 .. z - 1 : l + z - 1 = z * n + r
  <2>1. l + z - 1 \in Nat
    BY <1>1
  <2> QED
    BY <1>1, <1>2, <2>1, DivModRange
<1>4. Chunks(text) = [k \in 1 .. n |-> SubSeq(text, (k - 1) * z + 1, IF k * z < l THEN k * z ELSE l)]
  BY <1>0, <1>2 DEF Chunks
<1>5. Len(Chunks(text)) = n
  <2>1. Chunks(text) = [k \in 1 .. n |-> Chunks(text)[k]]
    BY <1>4
  <2> QED
    BY <1>3, <2>1, LengthIs
<1>6. ASSUME NEW k \in 1 .. n
      PROVE  /\ (k - 1) * Blk < Len(text)
             /\ Len(Chunks(text)[k]) \in Nat /\ Len(Chunks(text)[k]) <= Blk
             /\ (k - 1) * Blk + Len(Chunks(text)[k]) = SizeAfter(text, k)
             /\ \A j \in 1 .. Len(Chunks(text)[k]) :
                  Chunks(text)[k][j] = text[(k - 1) * Blk + j] /\ Chunks(text)[k][j] \in Value
  <2>1. PICK first, last : first = (k - 1) * z /\ last = IF k * z < l THEN k * z ELSE l
    OBVIOUS
  <2>2. first \in Nat /\ last \in Nat /\ first < l /\ first < last /\ last <= l /\ last - first <= z
    <3>1. k \in Nat /\ k >= 1 /\ k <= n /\ n \in Nat
      BY <1>3
    <3>2. PICK d \in Nat : n = k + d
      <4>1. n - k \in Nat /\ n = k + (n - k)
        BY <3>1
      <4> QED
        BY <4>1
    <3>3. z * n = z * k + z * d /\ z * d \in Nat /\ z * k \in Nat
      BY <1>1, <3>1, <3>2
    <3>4. PICK r \in 0 .. z - 1 : l + z - 1 = z * n + r
      BY <1>3
    <3>5. z * k <= l + z - 1
      BY <1>1, <3>3, <3>4
    <3>6. first = z * k - z /\ k * z = z * k
      BY <1>1, <2>1, <3>1
    <3>7. first \in Nat
      <4>1. k - 1 \in Nat
        BY <3>1
      <4> QED
        BY <1>1, <2>1, <4>1
    <3> QED
      BY <1>1, <2>1, <3>3, <3>5, <3>6, <3>7
  <2>3. Chunks(text)[k] = SubSeq(text, first + 1, last)
    BY <1>4, <2>1
  <2>4. /\ Len(SubSeq(text, first + 1, last)) = last - first
        /\ \A j \in 1 .. last - first :
             SubSeq(text, first + 1, last)[j] = text[first + j] /\ text[first + j] \in Value
    <3>1. ASSUME NEW j \in 1 .. last - first PROVE first + j \in 1 .. l
      BY <1>1, <2>2
    <3>2. SubSeq(text, first + 1, last) = [j \in 1 .. last - first |-> text[first + j]]
      <4>1. (last - (first + 1)) + 1 = last - first
        BY <2>2
      <4>2. \A j \in 1 .. last - first : j + (first + 1) - 1 = first + j
        BY <2>2
      <4> QED
        BY <1>0, <2>2, <4>1, <4>2, <3>1
    <3> QED
      BY <1>0, <2>2, <3>1, <3>2
  <2>5. PICK c : c = Chunks(text)[k]
    OBVIOUS
  <2>6. /\ Len(c) = last - first
        /\ \A j \in 1 .. last - first : c[j] = text[first + j] /\ text[first + j] \in Value
    BY <2>3, <2>4, <2>5
  <2>7. /\ first < Len(text) /\ Len(c) \in Nat /\ Len(c) <= Blk /\ first + Len(c) = last
        /\ \A j \in 1 .. Len(c) : c[j] = text[first + j] /\ c[j] \in Value
    BY <1>0, <1>1, <2>2, <2>6
  <2>8. first = (k - 1) * Blk /\ last = SizeAfter(text, k)
    BY <1>0, <2>1 DEF SizeAfter
  <2> QED
    BY <2>5, <2>7, <2>8
<1> QED
  BY <1>3, <1>5, <1>6

(* The words of a read go to the block found for them. *)
Filled(t, r, b, words) ==
  /\ r.inode = t.inode /\ r.bitmap = t.bitmap /\ r.failed = t.failed
  /\ r.size[TheFile] = t.size[TheFile] + Len(words) /\ r.size[Root] = t.size[Root]
  /\ \A c, i : c # b => r.disk[c] = t.disk[c]
  /\ \A i \in 0 .. Blk - 1 : i < Len(words) => r.disk[b][i] = words[i + 1]

(* Storing them keeps the image sound, and the file holds what it should   *)
(* up to its new size.                                                     *)
LEMMA FilledSound ==
  ASSUME NEW B \in SUBSET Block, NEW text, Len(text) \in Nat, Len(text) <= Blk * (Direct + Blk),
         NEW t, Sound(t, B), ImageHolds(t, text),
         NEW q \in Nat, q < Direct + Blk, t.size[TheFile] = q * Blk,
         NEW b, b = NumberAt(t, TheFile, q), b # 0,
         NEW words, Len(words) \in Nat, Len(words) <= Blk, q * Blk + Len(words) <= Len(text),
         \A j \in 1 .. Len(words) : words[j] = text[q * Blk + j],
         NEW r \in Images(B), Filled(t, r, b, words)
  PROVE  Sound(r, B) /\ ImageHolds(r, text)
<1>1. /\ Root \in Ino /\ TheFile \in Ino /\ 0 \in Slot /\ Direct \in Slot /\ Root # TheFile
      /\ Blk \in Nat /\ Blk > 0 /\ Direct \in Nat /\ Direct + Blk \in Nat
      /\ <<Root, 0>> \in Owner /\ <<TheFile, Direct>> \in Owner /\ <<Root, 0>> # <<TheFile, Direct>>
  BY Members, Sizes, Owners
<1>2. t \in Images(B) /\ ImageApart(t, B) /\ ZeroFree(t) /\ Apart(Num(t), t.bitmap, {}, B)
  BY DEF Sound, ImageApart, Num
<1>3. IndexOwner(q) \in Owner /\ IndexOwner(q) # <<TheFile, Direct>> /\ IndexOwner(q) # <<Root, 0>>
      /\ Num(t)[IndexOwner(q)] = b
  BY IndexOwnerIs, IndexNumber
<1>4. /\ r.inode = t.inode /\ r.bitmap = t.bitmap
      /\ r.size[TheFile] = t.size[TheFile] + Len(words) /\ r.size[Root] = t.size[Root]
      /\ \A c : c # b => r.disk[c] = t.disk[c]
      /\ \A i \in 0 .. Blk - 1 : i < Len(words) => r.disk[b][i] = words[i + 1]
  BY DEF Filled
<1>5. t.inode[TheFile][Direct] # 0 => t.inode[TheFile][Direct] # b
  <2>1. Num(t)[<<TheFile, Direct>>] = t.inode[TheFile][Direct]
    BY <1>1, NumbersAre DEF Num
  <2> QED
    BY <1>1, <1>2, <1>3, <2>1 DEF Apart
<1>6. Num(r) = Num(t) /\ \A i \in 0 .. Blk - 1 :
        r.inode[TheFile][Direct] # 0 =>
          r.disk[r.inode[TheFile][Direct]][i] = t.disk[t.inode[TheFile][Direct]][i]
  <2>1. t.inode[TheFile][Direct] # 0 => r.disk[t.inode[TheFile][Direct]] = t.disk[t.inode[TheFile][Direct]]
    BY <1>4, <1>5
  <2> QED
    BY <1>4, <2>1, NumbersDisk DEF Num
<1>7. ImageApart(r, B)
  BY <1>2, <1>4, <1>6 DEF ImageApart, Num
<1>8. ZeroFree(r)
  <2>1. b \notin t.bitmap
    BY <1>2, <1>3 DEF Apart
  <2> QED
    BY <1>2, <1>4, <2>1 DEF ZeroFree
<1>9. r.size[Root] = Blk /\ r.size[TheFile] = q * Blk + Len(words) /\ r.size[TheFile] <= Len(text)
  BY <1>4 DEF ImageHolds
<1>10. r.inode[Root][0] # 0 /\ r.disk[r.inode[Root][0]][0] = TheFile
  <2>1. Num(t)[<<Root, 0>>] = t.inode[Root][0]
    BY <1>1, NumbersAre DEF Num
  <2>2. t.inode[Root][0] # 0 /\ t.disk[t.inode[Root][0]][0] = TheFile
    BY DEF ImageHolds
  <2>3. t.inode[Root][0] # b
    BY <1>1, <1>2, <1>3, <2>1, <2>2 DEF Apart
  <2> QED
    BY <1>4, <2>2, <2>3
<1>11. ASSUME NEW u \in 0 .. r.size[TheFile] - 1
       PROVE  /\ NumberAt(r, TheFile, u \div Blk) # 0
              /\ r.disk[NumberAt(r, TheFile, u \div Blk)][u % Blk] = text[u + 1]
  <2>1. PICK z, l, i, c : z = Blk /\ l = Len(words) /\ i = u \div Blk /\ c = u % Blk
    OBVIOUS
  <2>2. z \in Nat /\ z > 0 /\ l \in Nat /\ l <= z /\ q * z \in Nat /\ q * z = z * q
    <3>1. z \in Nat /\ z > 0 /\ l \in Nat /\ l <= z
      BY <1>1, <2>1
    <3>2. \A v \in Nat : q * v \in Nat /\ q * v = v * q
      OBVIOUS
    <3> QED
      BY <3>1, <3>2
  <2>3. u \in Nat /\ u < q * z + l /\ u < Blk * (Direct + Blk)
    <3>1. r.size[TheFile] = q * z + l /\ q * z + l <= Len(text) /\ Blk * (Direct + Blk) \in Nat
      BY <1>1, <1>9, <2>1
    <3> QED
      BY <2>2, <3>1
  <2>4. i \in Nat /\ i < Direct + Blk /\ c \in 0 .. z - 1 /\ u = z * i + c
    BY <1>1, <2>1, <2>3, BlockBound, DivModRange
  <2>5. /\ NumberAt(r, TheFile, i) = Num(t)[IndexOwner(i)]
        /\ NumberAt(t, TheFile, i) = Num(t)[IndexOwner(i)]
        /\ IndexOwner(i) \in Owner
    BY <1>6, <2>4, IndexNumber, IndexOwnerIs
  <2>6. CASE u < q * z
    <3>1. u \in 0 .. t.size[TheFile] - 1
      BY <2>1, <2>2, <2>3, <2>6
    <3>2. NumberAt(t, TheFile, i) # 0 /\ t.disk[NumberAt(t, TheFile, i)][c] = text[u + 1]
      BY <2>1, <3>1 DEF ImageHolds
    <3>3. i < q
      <4>1. u < z * q
        BY <2>2, <2>6
      <4> QED
        BY <1>1, <2>1, <2>3, <4>1, BlockBound
    <3>4. IndexOwner(i) # IndexOwner(q)
      <4>1. i # q
        BY <3>3
      <4>2. TheFile # NIno
        BY <1>1, Owners
      <4> QED
        BY <1>1, <2>4, <4>1, <4>2 DEF IndexOwner
    <3>5. NumberAt(t, TheFile, i) # b
      BY <1>2, <1>3, <2>5, <3>2, <3>4 DEF Apart
    <3> QED
      BY <1>4, <2>1, <2>5, <3>2, <3>5
  <2>7. CASE u >= q * z
    <3>1. PICK d : d = u - q * z
      OBVIOUS
    <3>2. d \in 0 .. z - 1 /\ d < l /\ u = z * q + d
      BY <2>2, <2>3, <2>7, <3>1
    <3>3. i = q /\ c = d
      <4>1. q = u \div z /\ d = u % z
        BY <2>2, <2>3, <3>2, DivModUnique
      <4> QED
        BY <2>1, <4>1
    <3>4. r.disk[b][d] = words[d + 1]
      BY <1>4, <2>1, <3>2
    <3>5. words[d + 1] = text[u + 1]
      <4>1. d + 1 \in 1 .. l /\ q * z + (d + 1) = u + 1
        BY <2>2, <3>2
      <4>2. words[d + 1] = text[q * z + (d + 1)]
        BY <2>1, <4>1
      <4> QED
        BY <4>1, <4>2
    <3> QED
      BY <1>3, <2>1, <2>5, <3>3, <3>4, <3>5
  <2> QED
    BY <2>2, <2>3, <2>6, <2>7
<1> QED
  BY <1>7, <1>8, <1>9, <1>10, <1>11 DEF Sound, ImageHolds

(* The image after k chunks. *)
Building(img, B, text, k) ==
  /\ Sound(img, B) /\ ImageHolds(img, text)
  /\ img.failed => img.bitmap = {}
  /\ ~img.failed => img.size[TheFile] = SizeAfter(text, k)

(* A read and the write of its words add one chunk. *)
LEMMA ChunkWritten ==
  ASSUME NEW B \in SUBSET Block, NEW text \in Seq(Value), Len(text) <= Blk * (Direct + Blk),
         NEW k \in 1 .. Len(Chunks(text)), NEW img, Building(img, B, text, k - 1)
  PROVE  Building(WriteChunk(img, TheFile, Chunks(text)[k]), B, text, k)
<1>0. PICK words, i, t, r : /\ words = Chunks(text)[k] /\ i = img.size[TheFile] \div Blk
                           /\ t = WithBlock(img, TheFile, i)
                           /\ r = WriteChunk(img, TheFile, words)
  OBVIOUS
<1>1. /\ Blk \in Nat /\ Blk > 0 /\ Direct + Blk \in Nat /\ Len(text) \in Nat
      /\ TheFile \in Ino /\ Root \in Ino /\ TheFile # Root
  BY Sizes, Members
<1>2. /\ (k - 1) * Blk < Len(text) /\ Len(words) \in Nat /\ Len(words) <= Blk
      /\ (k - 1) * Blk + Len(words) = SizeAfter(text, k)
      /\ \A j \in 1 .. Len(words) : words[j] = text[(k - 1) * Blk + j] /\ words[j] \in Value
  BY <1>0, ChunksAre
<1>3. /\ Sound(img, B) /\ ImageHolds(img, text) /\ (img.failed => img.bitmap = {})
      /\ ~img.failed => img.size[TheFile] = SizeAfter(text, k - 1)
  BY DEF Building
<1>4. i \in Nat
  <2>1. img.size[TheFile] \in Nat
    BY <1>1, <1>3, ImageFields DEF Sound
  <2> QED
    BY <1>0, <1>1, <2>1, DivModRange
<1>5. PICK q : q = k - 1
  OBVIOUS
<1>6. q \in Nat /\ Len(Chunks(text)) \in Nat
  BY <1>5, ChunksAre
<1>7. ~img.failed => img.size[TheFile] = q * Blk /\ i = q /\ q < Direct + Blk
  <2> SUFFICES ASSUME ~img.failed PROVE img.size[TheFile] = q * Blk /\ i = q /\ q < Direct + Blk
    OBVIOUS
  <2>1. img.size[TheFile] = q * Blk
    BY <1>2, <1>3, <1>5 DEF SizeAfter
  <2>2. PICK z, m : z = Blk /\ m = q * Blk
    OBVIOUS
  <2>3. z \in Nat /\ z > 0 /\ m \in Nat /\ m = z * q + 0 /\ 0 \in 0 .. z - 1
    <3>1. \A v \in Nat : q * v \in Nat /\ q * v = v * q + 0
      BY <1>6
    <3> QED
      BY <1>1, <2>2, <3>1
  <2>4. q = m \div z
    BY <1>6, <2>3, DivModUnique
  <2>5. m < Blk * (Direct + Blk)
    <3>1. Blk * (Direct + Blk) \in Nat
      BY <1>1
    <3> QED
      BY <1>1, <1>2, <1>5, <2>2, <2>3, <3>1
  <2>6. m \div Blk < Direct + Blk
    BY <1>1, <2>3, <2>5, BlockBound
  <2> QED
    BY <1>0, <2>1, <2>2, <2>4, <2>6
<1>8. /\ Sound(t, B) /\ Extends(img, t, B) /\ (t.failed => t.bitmap = {})
      /\ NumberAt(t, TheFile, i) # 0 \/ t.failed
      /\ img.failed => t.failed
  BY <1>0, <1>3, <1>4, <1>7, WithBlockSound
<1>9. ImageHolds(t, text)
  BY <1>1, <1>3, <1>8, ExtendedHolds
<1>10. CASE t.failed
  <2>1. r = t
    BY <1>0, <1>10 DEF WriteChunk
  <2> QED
    BY <1>0, <1>8, <1>9, <1>10, <2>1 DEF Building
<1>11. CASE ~t.failed
  <2>1. /\ img.size[TheFile] = q * Blk /\ t.size = img.size /\ i = q /\ q < Direct + Blk
        /\ NumberAt(t, TheFile, q) # 0 /\ ~img.failed
    BY <1>7, <1>8, <1>11 DEF Extends
  <2>2. PICK b : b = NumberAt(t, TheFile, q)
    OBVIOUS
  <2> DEFINE new == [j \in 0 .. Blk - 1 |-> IF j < Len(words) THEN words[j + 1] ELSE t.disk[b][j]]
             dsk == [t.disk EXCEPT ![b] = new]
             size == [t.size EXCEPT ![TheFile] = @ + Len(words)]
  <2>3. r = [t EXCEPT !.disk = dsk, !.size = size]
    <3>1. r = [t EXCEPT !.disk[b] = [j \in 0 .. Blk - 1 |-> IF j < Len(words) THEN words[j + 1] ELSE @[j]],
                        !.size[TheFile] = @ + Len(words)]
      BY <1>0, <1>11, <2>1, <2>2 DEF WriteChunk
    <3> QED
      BY <1>8, <3>1 DEF Sound, Images
  <2>4. b \in B
    <3>1. Num(t) \in [Owner -> B \cup {0}]
      <4>1. t.inode \in [Ino -> [Slot -> B \cup {0}]]
        BY <1>8, ImageFields DEF Sound
      <4>2. \A j \in 0 .. Blk - 1 :
              t.inode[TheFile][Direct] # 0 => t.disk[t.inode[TheFile][Direct]][j] \in B \cup {0}
        BY <1>8 DEF Sound, ImageApart
      <4> QED
        BY <4>1, <4>2, NumbersType DEF Num
    <3>2. b = Num(t)[IndexOwner(q)] /\ IndexOwner(q) \in Owner
      BY <1>6, <2>1, <2>2, IndexNumber, IndexOwnerIs
    <3> HIDE DEF Num
    <3> QED
      BY <2>1, <2>2, <3>1, <3>2
  <2>5. new \in [0 .. Blk - 1 -> Word]
    <3>1. ASSUME NEW j \in 0 .. Blk - 1 PROVE new[j] \in Word
      <4>1. CASE j < Len(words)
        <5>1. j + 1 \in 1 .. Len(words)
          BY <1>1, <1>2, <4>1
        <5>2. words[j + 1] \in Word
          BY <1>2, <5>1, Members
        <5> QED
          BY <4>1, <5>2
      <4>2. CASE ~(j < Len(words))
        <5>1. t.disk \in [B -> [0 .. Blk - 1 -> Word]]
          BY <1>8, ImageFields DEF Sound
        <5>2. t.disk[b][j] \in Word
          BY <2>4, <5>1
        <5> QED
          BY <4>2, <5>2
      <4> QED
        BY <4>1, <4>2
    <3> HIDE DEF Word
    <3> QED
      BY <3>1
  <2>6. \A j \in 0 .. Blk - 1 : j < Len(words) => new[j] = words[j + 1]
    OBVIOUS
  <2> HIDE DEF new
  <2>7. /\ dsk \in [B -> [0 .. Blk - 1 -> Word]] /\ dsk[b] = new
        /\ \A c : c # b => dsk[c] = t.disk[c]
    <3>1. t.disk \in [B -> [0 .. Blk - 1 -> Word]]
      BY <1>8, ImageFields DEF Sound
    <3> QED
      BY <2>4, <2>5, <3>1
  <2>8. /\ size \in [Ino -> Nat] /\ size[TheFile] = t.size[TheFile] + Len(words)
        /\ size[Root] = t.size[Root]
    <3>1. t.size \in [Ino -> Nat]
      BY <1>8, ImageFields DEF Sound
    <3> QED
      BY <1>1, <1>2, <3>1
  <2> HIDE DEF dsk, size
  <2>9. r \in Images(B) /\ r.inode = t.inode /\ r.bitmap = t.bitmap /\ r.failed = t.failed
        /\ r.disk = dsk /\ r.size = size
    BY <1>8, <2>3, <2>7, <2>8 DEF Sound, Images
  <2>10. Filled(t, r, b, words)
    BY <2>6, <2>7, <2>8, <2>9 DEF Filled
  <2>11. PICK m : m = q * Blk
    OBVIOUS
  <2>12. m + Len(words) = SizeAfter(text, k) /\ SizeAfter(text, k) <= Len(text)
    <3>1. k * Blk \in Nat
      BY <1>1, <1>6
    <3> QED
      BY <1>1, <1>2, <1>5, <2>11, <3>1 DEF SizeAfter
  <2>13. Sound(r, B) /\ ImageHolds(r, text)
    <3>1. q * Blk + Len(words) <= Len(text) /\ \A j \in 1 .. Len(words) : words[j] = text[q * Blk + j]
      BY <1>2, <1>5, <2>11, <2>12
    <3>2. t.size[TheFile] = q * Blk
      BY <2>1
    <3> QED
      BY <1>1, <1>2, <1>6, <1>8, <1>9, <2>1, <2>2, <2>9, <2>10, <3>1, <3>2, FilledSound
  <2>14. r.size[TheFile] = SizeAfter(text, k) /\ ~r.failed
    BY <1>11, <2>1, <2>8, <2>9, <2>11, <2>12
  <2> QED
    BY <1>0, <2>13, <2>14 DEF Building
<1> QED
  BY <1>10, <1>11

(* The image before the file is written: a directory of one block, with    *)
(* the name in it.                                                         *)
Named(img, B, b) ==
  /\ img \in Images(B) /\ img.bitmap = B \ {b} /\ ~img.failed
  /\ \A f \in Ino, k \in Slot : img.inode[f][k] = IF f = Root /\ k = 0 THEN b ELSE 0
  /\ \A c \in B, i \in 0 .. Blk - 1 : img.disk[c][i] = IF c = b /\ i = 0 THEN TheFile ELSE 0
  /\ img.size[Root] = Blk /\ img.size[TheFile] = 0

(* From there on the file is built, no chunk yet. *)
LEMMA NamedBuilding ==
  ASSUME NEW B \in SUBSET Block, NEW text, Len(text) \in Nat, NEW b \in B, NEW img, Named(img, B, b)
  PROVE  Building(img, B, text, 0)
<1>1. /\ Root \in Ino /\ TheFile \in Ino /\ 0 \in Slot /\ Direct \in Slot /\ Direct # 0 /\ Root # TheFile
      /\ Blk \in Nat /\ Blk > 0 /\ b # 0 /\ 0 \notin B /\ <<Root, 0>> \in Owner /\ 0 \in 0 .. Blk - 1
  BY Members, Sizes, Owners
<1>2. img.inode[TheFile][Direct] = 0 /\ img.inode[Root][0] = b
  BY <1>1 DEF Named
<1>3. \A o \in Owner : Num(img)[o] = IF o = <<Root, 0>> THEN b ELSE 0
  <2>1. ASSUME NEW f \in Ino, NEW k \in Slot
        PROVE  Num(img)[<<f, k>>] = IF <<f, k>> = <<Root, 0>> THEN b ELSE 0
    BY NumbersAre DEF Named, Num
  <2>2. ASSUME NEW j \in 0 .. Blk - 1
        PROVE  Num(img)[<<NIno, j>>] = 0 /\ <<NIno, j>> # <<Root, 0>>
    BY <1>1, <1>2, NumbersAre, Owners DEF Num
  <2> SUFFICES ASSUME NEW o \in Owner PROVE Num(img)[o] = IF o = <<Root, 0>> THEN b ELSE 0
    OBVIOUS
  <2> QED
    BY <2>1, <2>2, Owners
<1>4. Apart(Num(img), img.bitmap, {}, B)
  <2>1. img.bitmap = B \ {b}
    BY DEF Named
  <2>2. \A c \in B : c \in {Num(img)[o] : o \in Owner} <=> c = b
    BY <1>1, <1>3
  <2> QED
    BY <1>1, <1>3, <2>1, <2>2 DEF Apart
<1>5. ImageApart(img, B)
  BY <1>1, <1>2, <1>4 DEF ImageApart, Num, Named
<1>6. ZeroFree(img)
  BY DEF ZeroFree, Named
<1>7. ImageHolds(img, text)
  <2>1. img.size[TheFile] = 0 /\ img.size[Root] = Blk /\ img.disk[b][0] = TheFile
    BY <1>1 DEF Named
  <2>2. 0 .. img.size[TheFile] - 1 = {}
    BY <2>1
  <2> QED
    BY <1>1, <1>2, <2>1, <2>2 DEF ImageHolds
<1>8. SizeAfter(text, 0) = 0
  <2>1. 0 * Blk = 0
    BY <1>1
  <2> QED
    BY <2>1 DEF SizeAfter
<1> QED
  BY <1>5, <1>6, <1>7, <1>8 DEF Building, Sound, Named

(* All the chunks. *)
LEMMA FileWritten ==
  ASSUME NEW B \in SUBSET Block, NEW text \in Seq(Value), Len(text) <= Blk * (Direct + Blk),
         NEW img, Building(img, B, text, 0)
  PROVE  Building(WriteFile(img, TheFile, text), B, text, Len(Chunks(text)))
<1>0. PICK n : n = Len(Chunks(text))
  OBVIOUS
<1> DEFINE Round(k, m) == WriteChunk(m, TheFile, Chunks(text)[k])
           Is(f) == f = [k \in 0 .. n |-> IF k = 0 THEN img ELSE Round(k, f[k - 1])]
           D(k) == {m \in Images(B) : Building(m, B, text, k)}
<1>1. n \in Nat
  BY <1>0, ChunksAre
<1>2. img \in D(0)
  BY DEF Building, Sound
<1>3. ASSUME NEW k \in 1 .. n, NEW m \in D(k - 1) PROVE Round(k, m) \in D(k)
  <2>1. Building(m, B, text, k - 1)
    OBVIOUS
  <2>2. Building(Round(k, m), B, text, k)
    BY <1>0, <2>1, ChunkWritten
  <2> QED
    BY <2>2 DEF Building, Sound
<1>4. WriteFile(img, TheFile, text) = (CHOOSE f : Is(f))[n]
  BY <1>0 DEF WriteFile
<1> HIDE DEF D, Round
<1>5. PICK family : family = [k \in 0 .. n |-> D(k)]
  OBVIOUS
<1>6. PICK step : step = [km \in (1 .. n) \X (UNION {D(k) : k \in 0 .. n}) |-> Round(km[1], km[2])]
  OBVIOUS
<1>7. ASSUME NEW k \in 1 .. n, NEW m \in family[k - 1]
      PROVE  step[<<k, m>>] = Round(k, m) /\ Round(k, m) \in family[k]
  <2>1. k - 1 \in 0 .. n /\ k \in 0 .. n
    BY <1>1
  <2>2. m \in D(k - 1)
    BY <1>5, <2>1
  <2>3. <<k, m>> \in (1 .. n) \X (UNION {D(j) : j \in 0 .. n})
    BY <2>1, <2>2
  <2>4. step[<<k, m>>] = Round(k, m)
    BY <1>6, <2>3
  <2> QED
    BY <1>3, <1>5, <2>1, <2>2, <2>4
<1>8. img \in family[0]
  BY <1>1, <1>2, <1>5
<1>9. PICK f : IsRounds(f, n, img, step) /\ \A k \in 0 .. n : f[k] \in family[k]
  BY <1>1, <1>7, <1>8, RoundsFound
<1>10. Is(f)
  <2>1. ASSUME NEW k \in 0 .. n, k # 0 PROVE step[<<k, f[k - 1]>>] = Round(k, f[k - 1])
    <3>1. k \in 1 .. n /\ k - 1 \in 0 .. n
      BY <1>1, <2>1
    <3> QED
      BY <1>7, <1>9, <3>1
  <2> QED
    BY <1>9, <2>1 DEF IsRounds
<1>11. PICK g : g = CHOOSE h : Is(h)
  OBVIOUS
<1>12. Is(g)
  <2> HIDE DEF Is
  <2> QED
    BY <1>10, <1>11
<1>13. g[0] \in family[0]
  BY <1>1, <1>8, <1>12
<1>14. ASSUME NEW k \in 1 .. n, g[k - 1] \in family[k - 1] PROVE g[k] \in family[k]
  <2>1. k \in 0 .. n /\ k # 0
    BY <1>1
  <2>2. g[k] = Round(k, g[k - 1])
    BY <1>12, <2>1
  <2> QED
    BY <1>7, <1>14, <2>2
<1>15. g[n] \in D(n)
  <2>1. \A k \in 0 .. n : g[k] \in family[k]
    BY <1>1, <1>13, <1>14, RoundsKeep
  <2> QED
    BY <1>1, <1>5, <2>1
<1> QED
  BY <1>0, <1>4, <1>11, <1>15 DEF D

(* Whatever the disk and the file, mkxxx leaves a sound image. *)
LEMMA ImageMade ==
  ASSUME NEW B \in SUBSET Block, B # {}, NEW text \in Seq(Value), Len(text) <= Blk * (Direct + Blk)
  PROVE  LET img == MakeImage(B, text)
         IN  img \in Images(B) /\ ImageApart(img, B) /\ ImageHolds(img, text)
<1>0. PICK b, new, t, a : /\ b = Min(B) /\ new = NewImage(B)
                         /\ t = WithBlock(new, Root, 0) /\ a = AllocFile(new)
  OBVIOUS
<1>1. /\ Root = 0 /\ TheFile = 1 /\ Root \in Ino /\ TheFile \in Ino /\ 0 \in Slot /\ Root # TheFile
      /\ Blk \in Nat /\ Blk > 0 /\ Direct > 0 /\ Direct \in Nat /\ 0 \in 0 .. Blk - 1
      /\ 0 \in Word /\ TheFile \in Word /\ 0 \notin B
  BY Sizes, Members DEF Word
<1>2. b \in B /\ b # 0
  <2>1. B \in SUBSET Nat
    BY Members
  <2> QED
    BY <1>0, <1>1, <2>1, MinLemma
<1> DEFINE zero == [f \in Ino |-> [k \in Slot |-> 0]]
           blank == [c \in B |-> [i \in 0 .. Blk - 1 |-> 0]]
           none == [f \in Ino |-> 0]
<1>3. new = [inode |-> zero, size |-> none, bitmap |-> B, inodes |-> Ino \ {Root},
             disk |-> blank, failed |-> FALSE]
  BY <1>0 DEF NewImage
<1>4. /\ zero \in [Ino -> [Slot -> B \cup {0}]] /\ blank \in [B -> [0 .. Blk - 1 -> Word]]
      /\ none \in [Ino -> Nat]
      /\ \A f \in Ino, k \in Slot : zero[f][k] = 0
      /\ \A c \in B, i \in 0 .. Blk - 1 : blank[c][i] = 0
      /\ \A f \in Ino : none[f] = 0
  BY <1>1
<1> HIDE DEF zero, blank, none
<1> DEFINE ino == [zero EXCEPT ![Root][0] = b]
           size == [none EXCEPT ![Root] = Blk]
           dsk == [blank EXCEPT ![b][0] = TheFile]
<1>5. /\ ino \in [Ino -> [Slot -> B \cup {0}]]
      /\ \A f \in Ino, k \in Slot : ino[f][k] = IF f = Root /\ k = 0 THEN b ELSE 0
  BY <1>1, <1>2, <1>4
<1>6. size \in [Ino -> Nat] /\ size[Root] = Blk /\ size[TheFile] = 0
  BY <1>1, <1>4
<1>7. /\ dsk \in [B -> [0 .. Blk - 1 -> Word]]
      /\ \A c \in B, i \in 0 .. Blk - 1 : dsk[c][i] = IF c = b /\ i = 0 THEN TheFile ELSE 0
  BY <1>1, <1>2, <1>4
<1>8. t = [inode |-> ino, size |-> none, bitmap |-> B \ {b}, inodes |-> Ino \ {Root},
           disk |-> blank, failed |-> FALSE]
  <2>1. Walked(new, Root, 0) = new
    BY <1>1 DEF Walked
  <2>2. NumberAt(new, Root, 0) = 0 /\ new.bitmap = B
    BY <1>1, <1>3, <1>4 DEF NumberAt
  <2>3. t = SetNumber(TakeBlock(new), Root, 0, b)
    BY <1>0, <2>1, <2>2 DEF WithBlock
  <2>4. TakeBlock(new) = [new EXCEPT !.bitmap = B \ {b}]
    BY <1>0, <2>2 DEF TakeBlock
  <2>5. t = [[new EXCEPT !.bitmap = B \ {b}] EXCEPT !.inode[Root][0] = b]
    BY <1>1, <2>3, <2>4 DEF SetNumber
  <2> QED
    BY <1>3, <2>5
<1>9. a = [inode |-> ino, size |-> size, bitmap |-> B \ {b}, inodes |-> Ino \ {Root},
           disk |-> blank, failed |-> FALSE]
  <2>1. a = [t EXCEPT !.size[Root] = @ + Blk]
    BY <1>0, <1>8 DEF AllocFile
  <2>2. none[Root] + Blk = Blk
    BY <1>1, <1>4
  <2> HIDE DEF ino
  <2> QED
    BY <1>8, <2>1, <2>2
<1> HIDE DEF ino, size, dsk
<1>10. Min(a.inodes) = TheFile
  <2>1. a.inodes = Ino \ {Root} /\ Ino \ {Root} \in SUBSET Nat /\ TheFile \in Ino \ {Root}
    BY <1>1, <1>9, Sizes DEF Ino
  <2>2. Min(a.inodes) \in Ino \ {Root} /\ Min(a.inodes) <= TheFile
    BY <2>1, MinLemma
  <2>3. \A m \in Ino \ {Root} : m <= TheFile => m = TheFile
    BY <1>1, Sizes DEF Ino
  <2> QED
    BY <2>2, <2>3
<1>11. PICK base : base = [a EXCEPT !.inodes = @ \ {TheFile}, !.disk[NumberAt(a, Root, 0)][0] = TheFile]
  OBVIOUS
<1>12. base = [inode |-> ino, size |-> size, bitmap |-> B \ {b}, inodes |-> (Ino \ {Root}) \ {TheFile},
               disk |-> dsk, failed |-> FALSE]
  <2>1. NumberAt(a, Root, 0) = b
    BY <1>1, <1>5, <1>9 DEF NumberAt
  <2> QED
    BY <1>9, <1>11, <2>1 DEF dsk
<1>13. Named(base, B, b)
  <2>1. base \in Images(B)
    BY <1>5, <1>6, <1>7, <1>12 DEF Images
  <2> QED
    BY <1>5, <1>6, <1>7, <1>12, <2>1 DEF Named
<1>14. MakeImage(B, text) = WriteFile(base, TheFile, text)
  <2>1. a.failed = FALSE
    BY <1>9
  <2> QED
    BY <1>0, <1>10, <1>11, <2>1 DEF MakeImage
<1>15. Len(text) \in Nat
  OBVIOUS
<1>16. Building(WriteFile(base, TheFile, text), B, text, Len(Chunks(text)))
  BY <1>2, <1>13, <1>15, NamedBuilding, FileWritten
<1> QED
  BY <1>14, <1>16 DEF Building, Sound

(* So the invariant holds when the kernel has read the superblock. *)
LEMMA InvInit ==
  ASSUME Init
  PROVE  BlocksInv
<1>1. PICK d \in Disks : image = MakeImage(d.blocks, d.content) /\ content = d.content
  BY DEF Init
<1>2. /\ inode = image.inode /\ bitmap = image.bitmap /\ disk = image.disk /\ probe \in Place
      /\ written = Given(probe) /\ spilled = FALSE /\ lost = {} /\ opened = FALSE /\ halted = FALSE
  BY DEF Init
<1>3. PICK B : B = d.blocks
  OBVIOUS
<1>4. /\ B \in SUBSET Block /\ B # {} /\ content \in Seq(Value)
      /\ Len(content) <= Blk * (Direct + Blk)
  BY <1>1, <1>3, BlocksAssumption
<1>5. image \in Images(B) /\ ImageApart(image, B) /\ ImageHolds(image, content)
  BY <1>1, <1>3, <1>4, ImageMade
<1>6. Blocks = B
  BY <1>5, ImageFields DEF Blocks
<1>7. ImageOK
  BY <1>4, <1>5, <1>6 DEF ImageOK
<1>8. /\ TheFile \in Ino /\ Root # TheFile /\ Blk \in Nat /\ Blk > 0 /\ TheFile = 1
      /\ image.size[TheFile] \in Nat /\ image.size[TheFile] <= Len(content) /\ Len(content) \in Nat
  BY <1>4, <1>5, <1>7, Members, Sizes, ImageFacts DEF ImageHolds
<1>9. /\ probe = <<probe[1], probe[2]>> /\ probe[1] \in {Root, TheFile} /\ probe[2] \in Nat
      /\ probe[2] \div Blk \in Nat /\ probe[2] \div Blk < Direct + Blk
      /\ probe[1] = Root => probe[2] = 0
  BY <1>2, <1>8, PlaceFacts DEF Place
<1>10. written \in Value \cup {-1, TheFile} /\ (probe[1] = Root => written = TheFile)
  <2>1. CASE probe[1] = Root
    BY <1>2, <2>1 DEF Given
  <2>2. CASE probe[1] # Root /\ probe[2] < image.size[TheFile]
    <3>1. probe[2] + 1 \in 1 .. Len(content)
      BY <1>8, <1>9, <2>2
    <3>2. content[probe[2] + 1] \in Value
      BY <1>4, <3>1
    <3>3. written = content[probe[2] + 1]
      BY <1>2, <1>9, <2>2 DEF Given
    <3> QED
      BY <2>2, <3>2, <3>3
  <2>3. CASE probe[1] # Root /\ ~(probe[2] < image.size[TheFile])
    BY <1>2, <1>9, <2>3 DEF Given
  <2> QED
    BY <2>1, <2>2, <2>3
<1>11. Shape
  BY <1>2, <1>5, <1>6, <1>10, ImageFields DEF Shape
<1>12. DiskApart(inode, bitmap, disk, lost)
  BY <1>2, <1>5, <1>6 DEF DiskApart, ImageApart, Indirect
<1>13. Held
  <2> SUFFICES ASSUME written # -1 PROVE HoldsAt(inode, disk, written)
    BY DEF Held
  <2>1. CASE probe[1] = Root
    <3>1. probe[2] = 0 /\ 0 \div Blk = 0 /\ 0 % Blk = 0
      <4>1. 0 = Blk * 0 + 0 /\ 0 \in 0 .. Blk - 1
        BY <1>8
      <4>2. 0 \div Blk = 0 /\ 0 % Blk = 0
        BY <1>8, <4>1, DivModUnique
      <4> QED
        BY <1>9, <2>1, <4>2
    <3>2. NumberOf(inode, probe) = image.inode[Root][0]
      BY <1>2, <2>1, <3>1, Sizes DEF NumberOf
    <3> QED
      BY <1>2, <1>5, <1>10, <2>1, <3>1, <3>2 DEF HoldsAt, ImageHolds
  <2>2. CASE probe[1] = TheFile
    <3>1. probe[2] < image.size[TheFile] /\ written = content[probe[2] + 1]
      BY <1>2, <1>8, <2>2 DEF Given
    <3>2. probe[2] \in 0 .. image.size[TheFile] - 1
      BY <1>8, <1>9, <3>1
    <3>3. /\ NumberAt(image, TheFile, probe[2] \div Blk) # 0
          /\ image.disk[NumberAt(image, TheFile, probe[2] \div Blk)][probe[2] % Blk] = content[probe[2] + 1]
      BY <1>5, <3>2 DEF ImageHolds
    <3>4. NumberAt(image, TheFile, probe[2] \div Blk) = NumberOf(inode, probe)
      BY <1>2, <2>2 DEF NumberAt, NumberOf, Indirect
    <3> QED
      BY <1>2, <3>1, <3>3, <3>4 DEF HoldsAt
  <2> QED
    BY <1>9, <2>1, <2>2
<1> QED
  BY <1>7, <1>11, <1>12, <1>13 DEF BlocksInv

------------------------------------------------------------------------------

(* The inductive invariant holds of every image mkxxx can make, and        *)
(* through every call, restart and lookup (mkxxx.c, file.c 59-125, fs.c).  *)
THEOREM BlocksInvariant == Spec => []BlocksInv
<1>1. Init => BlocksInv
  BY InvInit
<1>2. BlocksInv /\ [Next]_vars => BlocksInv'
  BY InvNext
<1> QED
  BY <1>1, <1>2, PTL DEF Spec

(* The inode table, the bitmap and the blocks of the disk keep their       *)
(* shape: no slot ever holds a number that is not a block's, such as the   *)
(* -1 of get_blk without a free block (fs.c 48-58, 87-137).                *)
THEOREM BlocksWellFormed == Spec => []TypeOK
<1>1. BlocksInv => TypeOK
  BY InvType
<1> QED
  BY <1>1, BlocksInvariant, PTL

(* No block is given away twice, and none that is held is free, whatever   *)
(* the image, the calls and the restarts (mkxxx.c 57-86, 157-167, 208-217; *)
(* fs.c 48-58, 122-137).                                                   *)
THEOREM BlocksHeldOnce == Spec => []BlocksExclusive
<1>1. BlocksInv => BlocksExclusive
  BY InvExclusive
<1> QED
  BY <1>1, BlocksInvariant, PTL

(* A block is held or free, or its number went into a copy of an indirect  *)
(* block: nothing else loses one (file.c 101-105).                         *)
THEOREM BlocksAccountedFor == Spec => []BlocksExact
<1>1. BlocksInv => BlocksExact
  BY InvExclusive
<1> QED
  BY <1>1, BlocksInvariant, PTL

(* The file is found under its name, and file_read gives back what mkxxx   *)
(* or file_write was asked to put there, for every size of a block, of a   *)
(* disk and of a file, until another call runs over it (mkxxx.c 191-226,   *)
(* file.c 59-80, 92-125).                                                  *)
THEOREM WordsReadBack == Spec => []ReadBack
<1>1. BlocksInv => ReadBack
  BY InvReadBack
<1> QED
  BY <1>1, BlocksInvariant, PTL
==============================================================================
