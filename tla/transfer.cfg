CONSTANTS
    Workers = {w1, w2}
    Files = {f1, f2}
    Blocks = {"hole", "zero", "x"}
    Contents <- SomeFiles
    MaxCheckpoints = 2
    None = None
SPECIFICATION Spec
SYMMETRY Symmetry
INVARIANTS
    ManifestComplete
    CodecRoundTrip
PROPERTIES
    DownloadFaithful
    UploadOutcomes
