----------------------------- MODULE MCMetaStore -----------------------------
EXTENDS MetaStoreRefinement

Xmp(ns, path) == [kind |-> "XmpProperty", nums |-> <<>>, first |-> ns, second |-> path]
Exif(ifd, tag) == [kind |-> "ExifTag", nums |-> <<tag>>, first |-> ifd, second |-> <<>>]
Iptc(rec, ds) == [kind |-> "IptcDataset", nums |-> <<rec, ds>>, first |-> <<>>, second |-> <<>>]

Text(bytes) == [kind |-> "Text", num |-> 0, bytes |-> bytes]
Scalar(n) == [kind |-> "Scalar", num |-> n, bytes |-> <<>>]

Req(key, value, block, order, wireName, flags) ==
    [key |-> key, value |-> value, block |-> block, order |-> order,
     wire |-> 1, wireName |-> wireName, flags |-> flags]

\* The edit pipeline: one entry whose key, value and wire type name all live in
\* the arena, so that every copy of copy_key, copy_value and copy_origin counts.
PipelineRequests ==
    { Req(Xmp(<<1>>, <<2>>), Text(<<1>>), 0, 1, <<2>>, {"BigEndian"}) }
PipelineValues == { Text(<<2, 1, 2>>) }

\* Lookups and ceilings: keys that differ in one field each, equal orders, a
\* block that is not declared, an entry decoded as deleted.  Duplicates come
\* from asking twice.
LookupRequests ==
    { Req(Xmp(<<1>>, <<2>>), Scalar(1), 0, 1, <<>>, {}),
      Req(Xmp(<<1, 2>>, <<>>), Scalar(1), 9, 0, <<>>, {}),
      Req(Exif(<<1>>, 5), Scalar(1), 1, 1, <<>>, {}),
      Req(Iptc(2, 5), Scalar(1), 0, 0, <<>>, {"Deleted"}) }
=============================================================================
