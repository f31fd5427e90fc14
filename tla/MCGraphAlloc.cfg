SPECIFICATION Spec
CONSTANTS
    cpu = cpu  gpu = gpu
    Arena = 25
    Buffers <- AllBuffers
    Models <- AllModels
    Shift <- ShiftGraph
    Batches <- AllBatches
INVARIANTS TypeOK Tiled ReadsRight Fits
