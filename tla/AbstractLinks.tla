---------------------------- MODULE AbstractLinks ----------------------------
(***************************************************************************)
(* What the span cache and the pails rely on in the intrusive containers:  *)
(* a bucket is a set from which the oldest, then lowest span is popped, a  *)
(* registry is a sequence, and every span may be taken out of the middle.  *)
(***************************************************************************)
EXTENDS Integers, SequencesExt

CONSTANTS Spans,         \* addresses
          Buckets,
          Age,
          Null

VARIABLES bucket, registry,   \* what each holds
          popped              \* what the last call gave

avars == <<bucket, registry, popped>>

Before(a, b) == \/ Age[a] < Age[b]
                \/ Age[a] = Age[b] /\ a < b

AInit == /\ bucket = [b \in Buckets |-> {}]
         /\ registry = <<>>
         /\ popped = Null

InBuckets == UNION {bucket[b] : b \in Buckets}

Loose(s) == s \notin InBuckets \cup ToSet(registry)

Insert(b, s) == /\ Loose(s)
                /\ bucket' = [bucket EXCEPT ![b] = @ \cup {s}]
                /\ popped' = Null
                /\ UNCHANGED registry

PopOldest(b) == /\ IF bucket[b] = {} THEN popped' = Null
                   ELSE /\ popped' \in bucket[b]
                        /\ \A s \in bucket[b] \ {popped'} : Before(popped', s)
                /\ bucket' = [bucket EXCEPT ![b] = @ \ {popped'}]
                /\ UNCHANGED registry

TakeOut(b, s) == /\ bucket' = [bucket EXCEPT ![b] = @ \ {s}]
                 /\ popped' = Null
                 /\ UNCHANGED registry

Register(s) == /\ Loose(s)
               /\ registry' = <<s>> \o registry
               /\ popped' = Null
               /\ UNCHANGED bucket

Deregister(s) == /\ registry' = Remove(registry, s)
                 /\ popped' = Null
                 /\ UNCHANGED bucket

PopFirst == /\ popped' = IF registry = <<>> THEN Null ELSE Head(registry)
            /\ registry' = IF registry = <<>> THEN <<>> ELSE Tail(registry)
            /\ UNCHANGED bucket

ANext == \/ \E b \in Buckets, s \in Spans : Insert(b, s) \/ TakeOut(b, s)
         \/ \E b \in Buckets : PopOldest(b)
         \/ \E s \in Spans : Register(s) \/ Deregister(s)
         \/ PopFirst

ASpec == AInit /\ [][ANext]_avars
=============================================================================
