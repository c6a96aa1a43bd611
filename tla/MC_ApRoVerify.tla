---------------------------- MODULE MC_ApRoVerify ----------------------------
(***************************************************************************)
(* Instances of ApRoVerify for TLC: two FMAP candidate offsets, two GVD   *)
(* locations, two RO contents RoA and RoB, and sets of AP flash images    *)
(* each run lets the environment program.                                 *)
(***************************************************************************)
EXTENDS ApRoVerify

CONSTANTS RoA, RoB, RoOld, RoEvil, Bid, Blank

MC_Contents == {RoA, RoB, RoOld, RoEvil}
MC_Locs == {1, 2}

\* GVD headers: hA1 and hB2 are the vendor's releases A and B, hOld an old
\* release below the rollback floor, hEvil a header nobody signed, hA2
\* release A laid out with its FMAP at the second offset
hA1 == [fmap |-> 1, bid |-> Bid, rollback |-> 1, expect |-> RoA]
hB2 == [fmap |-> 1, bid |-> Bid, rollback |-> 2, expect |-> RoB]
hOld == [fmap |-> 1, bid |-> Bid, rollback |-> 0, expect |-> RoOld]
hEvil == [fmap |-> 1, bid |-> Bid, rollback |-> 1, expect |-> RoEvil]
hA2 == [fmap |-> 2, bid |-> Bid, rollback |-> 1, expect |-> RoA]
MC_Signed == {hA1, hB2, hOld, hA2}

G(h, f) == [hdr |-> h, flaw |-> f]

\* an image with FMAP candidates fm and GVDs gv
Img(c, fm, gv) == [content |-> c, fmap |-> fm, gvd |-> gv]

\* the release A, as built
ImgA == Img(RoA, <<1, NoFmap>>, <<G(hA1, "none"), NoGvd>>)
\* release A's GVD over other RO content: content tampered
ImgTamper == Img(RoEvil, <<1, NoFmap>>, <<G(hA1, "none"), NoGvd>>)
\* a self-made GVD whose signature does not verify
ImgForged == Img(RoEvil, <<1, NoFmap>>, <<G(hEvil, "gvdSig"), NoGvd>>)
\* the old release below the rollback floor
ImgOld == Img(RoOld, <<1, NoFmap>>, <<G(hOld, "none"), NoGvd>>)
\* release B, a later rollback counter
ImgB == Img(RoB, <<1, NoFmap>>, <<G(hB2, "none"), NoGvd>>)
\* no RO_GSCVD area anywhere
ImgNone == Img(RoA, <<NoArea, NoFmap>>, <<NoGvd, NoGvd>>)
\* release A's blob re-pointed at by an FMAP at the wrong offset, the real
\* FMAP (offset 2) following it
ImgMoved == Img(RoA, <<2, 2>>, <<NoGvd, G(hA2, "none")>>)

CoreImages == {ImgA, ImgTamper, ImgForged, ImgOld, ImgB, ImgNone, ImgMoved}

\* GVDs whose chain breaks at a check that leaks shared memory
ImgLeakKb == Img(RoA, <<1, NoFmap>>, <<G(hA1, "kbFits"), NoGvd>>)
ImgLeakRoot == Img(RoA, <<1, NoFmap>>, <<G(hA1, "rootKey"), NoGvd>>)
LeakImages == {ImgA, ImgLeakKb, ImgLeakRoot}

\* a keyblock whose declared size is below its header, one whose signed
\* data size runs past the keyblock
ImgTinyKb == Img(RoA, <<1, NoFmap>>, <<G(hA1, "kbTiny"), NoGvd>>)
ImgKbData == Img(RoA, <<1, NoFmap>>, <<G(hA1, "kbData"), NoGvd>>)

\* H1 flash faults: none, or one failed or interrupted operation
AllFlashFaults ==
    {NoFault} \cup [op : {"info", "erase", "write"}, res : {"fail", "torn"}]
StorageFaults == {NoFault, [op |-> "info", res |-> "fail"],
                  [op |-> "write", res |-> "fail"]}

CoreFaults == {NoFault}

\* image sets of the narrower runs
ReleaseImages == {ImgA}
UpdateImages == {ImgB, ImgA}
TinyKbImages == {ImgTinyKb}
KbDataImages == {ImgKbData}
=============================================================================
