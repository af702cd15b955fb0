\* The same, with the incident under investigation among the documents.
CONSTANTS
    Pieces = {1, 2, 3, 4, 5}
    Size <- MCSize
    Target = 5
    Overlap = 2
    Scorers = {s1}
    Probes = {p1}
    Docs = {1, 2}
    Written <- MCWritten
    Columns <- MCColumns
    FrontMatter <- MCFrontMatter
    Requests <- MCRequests
    Historical = {1, 2}
    IncidentOf <- MCIncidentOf
    NoIncident = "none"
    Own = "INC-1"
    SameService = {2}
    Retrievers = {"bm25", "vector", "hybrid", "hybrid_rerank", "hybrid_hyde"}
    K = 2
    Candidates = 4
    MaxPerDocument = 1
    CAP_OVER_FETCH = 2
    RRF_K = 60
    DEFAULT_DOCUMENTS = 3
    DEFAULT_PRECEDENTS = 3
    DEFAULT_CHUNKS = 2
    TokenBudget = 12
    HeaderTokens = 1
    LabelTokens = 1
SPECIFICATION RetrievalSpec
INVARIANT NoPrecedentForItself
