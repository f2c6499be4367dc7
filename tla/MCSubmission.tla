---------------------------- MODULE MCSubmission ----------------------------
(* Small instances of Submission.                                          *)
EXTENDS Submission, TLC

CONSTANTS s1, s2, s3, s4, k1, k2

Copies == {s1, s2, s3, s4}
Keys == {k1, k2}
Alike == Permutations({s1, s2})   \* they carry the same key in every mix

Carrying(a, b, c, d) == s1 :> a @@ s2 :> b @@ s3 :> c @@ s4 :> d
WithMix(key, standing, dangling) == [key |-> key, standing |-> standing, dangling |-> dangling]

\* Retries beside another submission; a dangling marker, to repair or expired;
\* three copies, the last two long after the first; no keys, at the caps.
SubmissionMixes == {
    WithMix(Carrying(k1, k1, k2, None), {s4}, {}),
    WithMix(Carrying(k1, k1, k1, None), {s4}, {s3}),
    WithMix(Carrying(k1, k1, k1, k2), {}, {s4}),
    WithMix(Carrying(None, None, None, None), {s4}, {})}

\* Two copies of a submission long after the first, or after a marker whose
\* request is gone.
AfterRequest == WithMix(Carrying(k1, k1, k1, None), {s4}, {})
AfterMarker == WithMix(Carrying(k1, k1, k1, None), {s4}, {s3})
Forgotten == {AfterRequest, AfterMarker}
=============================================================================
