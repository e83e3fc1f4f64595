----------------------------- MODULE MCBupSlave ------------------------------
\* Chunk files for BupSlave: one whose trees differ in depth, and one that is longer
\* than a uint can count.
EXTENDS BupSlave, TLC

UnevenTrees == {"root", "t1", "t2", "t3"}
UnevenBlobs == {"b1", "b2", "b3", "b4", "b5"}
UnevenKids ==
  "root" :> <<"t1", "t2", "b5">> @@ "t1" :> <<"b1", "b2">> @@ "t2" :> <<"t3", "b4">> @@
  "t3" :> <<"b3">>
UnevenStart ==
  "root" :> 0 @@ "t1" :> 0 @@ "b1" :> 0 @@ "b2" :> 2 @@ "t2" :> 3 @@ "t3" :> 3 @@
  "b3" :> 3 @@ "b4" :> 4 @@ "b5" :> 6
UnevenLength ==
  "root" :> 7 @@ "t1" :> 3 @@ "b1" :> 2 @@ "b2" :> 1 @@ "t2" :> 3 @@ "t3" :> 1 @@
  "b3" :> 1 @@ "b4" :> 2 @@ "b5" :> 1

LongTrees == {"root", "t1", "t2"}
LongBlobs == {"b1", "b2", "b3", "b4"}
LongKids ==
  "root" :> <<"t1", "t2">> @@ "t1" :> <<"b1", "b2">> @@ "t2" :> <<"b3", "b4">>
LongStart ==
  "root" :> 0 @@ "t1" :> 0 @@ "b1" :> 0 @@ "b2" :> 2 @@ "t2" :> 4 @@ "b3" :> 4 @@ "b4" :> 5
LongLength ==
  "root" :> 6 @@ "t1" :> 4 @@ "b1" :> 2 @@ "b2" :> 2 @@ "t2" :> 2 @@ "b3" :> 1 @@ "b4" :> 1

Sizes  == {0, 1, 2, 8}
Within == 0..7
=============================================================================
